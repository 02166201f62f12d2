------------------------ MODULE AsecContainersProofs ------------------------
(***************************************************************************)
(* Theorems about AsecContainers, for every number of containers, images   *)
(* and loop devices.                                                       *)
(*                                                                         *)
(* Two invariants: Shapes, what every variable holds and which operation   *)
(* may be where; and upon it Lists, how the mount table and                *)
(* mActiveContainers agree while no cleanup overlaps a command.            *)
(***************************************************************************)
EXTENDS AsecContainers, SequenceLemmas, FiniteSetTheorems

Making      == {"loop", "info", "dm", "format", "mount", "push",
                "down_dm", "down_loop", "down_file"}
Unmounting  == {"um_check", "um_detach", "um_dm", "um_loop", "um_erase"}
Detached    == {"um_dm", "um_loop", "um_erase"}
Place       == {"idle", "next", "unlink", "seal"} \cup Making \cup Unmounting
CleanupPart == {"idle", "next"} \cup Unmounting

Call == [op : {"none", "create", "mount", "unmount", "destroy", "cleanup", "unmountAll", "fixup"},
         id : Ids \cup {None}, dir : Directory, key : BOOLEAN, fs : {"none", "fat", "ext4"},
         loop : Loop, todo : Seq(Ids), freed : SUBSET Ids]

\* Which operation c may be at place l.
Shape(l, c) ==
  /\ l = "idle" => c = NoCall
  /\ l \notin {"idle", "next"} => c.id \in Ids
  /\ l \in Making => c.op \in {"create", "mount"}
  /\ l \in Making /\ c.op = "create" => c.id \in AsecIds /\ c.fs \in Filesystems
  /\ l \in {"format", "down_file"} => c.op = "create"
  /\ l = "info" => c.op = "mount"
  /\ l \in Unmounting => c.op \in {"unmount", "destroy", "cleanup", "unmountAll"}
  /\ l \in Unmounting /\ c.op = "destroy" => c.id \in AsecIds
  /\ l = "next" => c.op \in {"cleanup", "unmountAll"}
  /\ l = "unlink" => c.op = "destroy" /\ c.id \in AsecIds
  /\ l = "seal" => c.op = "fixup"

\* The thread of the net link only cleans up.
NetShape(l, c) == l \in CleanupPart /\ (l # "idle" => c.op = "cleanup")

Control ==
  /\ pc \in [Thread -> Place] /\ call \in [Thread -> Call]
  /\ \A t \in Thread : Shape(pc[t], call[t])
  /\ NetShape(pc["net"], call["net"])

Shapes == TypeOK /\ Control

-----------------------------------------------------------------------------
(* Selected.                                                                *)

\* What "sel" in Selected says of a function on 0..m.
IsSelection(f, s, S, m) ==
  /\ f = [n \in 0..m |-> f[n]]
  /\ f[0] = <<>>
  /\ \A n \in 1..m : f[n] = IF s[n] \in S THEN Append(f[n - 1], s[n]) ELSE f[n - 1]

(* There is such a function, by the least m for which there were none.      *)
LEMMA SelectionExists ==
  ASSUME NEW s, NEW S, NEW m \in Nat
  PROVE  \E f : IsSelection(f, s, S, m)
  <1> DEFINE T == {n \in Nat : ~\E f : IsSelection(f, s, S, n)}
  <1>1. SUFFICES ASSUME T # {} PROVE FALSE OBVIOUS
  <1>2. PICK k \in T : \A n \in T : k <= n BY <1>1, LeastNatural
  <1>3. k # 0
    <2> DEFINE f == [n \in 0..0 |-> <<>>]
    <2>1. IsSelection(f, s, S, 0) BY DEF IsSelection
    <2> QED BY <2>1
  <1>4. k - 1 \in Nat /\ k - 1 \notin T BY <1>2, <1>3
  <1>5. PICK f : IsSelection(f, s, S, k - 1) BY <1>4
  <1> DEFINE g == [n \in 0..k |-> IF n < k THEN f[n]
                                  ELSE IF s[k] \in S THEN Append(f[k - 1], s[k]) ELSE f[k - 1]]
  <1>6. IsSelection(g, s, S, k)
    <2>1. g[0] = <<>> BY <1>3, <1>4, <1>5 DEF IsSelection
    <2>2. ASSUME NEW n \in 1..k
          PROVE  g[n] = IF s[n] \in S THEN Append(g[n - 1], s[n]) ELSE g[n - 1]
      <3>1. g[n - 1] = f[n - 1] BY <1>4
      <3>2. CASE n = k BY <3>1, <3>2, <1>4
      <3>3. CASE n # k
        <4>1. n \in 1..(k - 1) /\ g[n] = f[n] BY <3>3, <1>4
        <4> QED BY <3>1, <4>1, <1>5 DEF IsSelection
      <3> QED BY <3>2, <3>3
    <2> QED BY <2>1, <2>2 DEF IsSelection
  <1> QED BY <1>6

(* Selected(s, S) is the end of such a function.                            *)
LEMMA SelectedDef ==
  ASSUME NEW s, NEW S, Len(s) \in Nat
  PROVE  \E f : IsSelection(f, s, S, Len(s)) /\ Selected(s, S) = f[Len(s)]
  <1> DEFINE m == Len(s)
             step(f) == [n \in 0..m |-> IF n = 0 THEN <<>>
                           ELSE IF s[n] \in S THEN Append(f[n - 1], s[n]) ELSE f[n - 1]]
             F == CHOOSE f : f = step(f)
  <1>1. PICK f : IsSelection(f, s, S, m) BY SelectionExists
  <1>2. ASSUME NEW n \in 0..m PROVE f[n] = step(f)[n]
    <2>1. f[0] = <<>> /\ \A j \in 1..m : f[j] = IF s[j] \in S THEN Append(f[j - 1], s[j]) ELSE f[j - 1]
      BY <1>1 DEF IsSelection
    <2>2. n = 0 \/ n \in 1..m OBVIOUS
    <2> QED BY <2>1, <2>2
  <1>3. f = step(f)
    <2>1. f = [n \in 0..m |-> f[n]] BY <1>1 DEF IsSelection
    <2>2. [n \in 0..m |-> f[n]] = step(f) BY <1>2
    <2> HIDE DEF step
    <2> QED BY <2>1, <2>2
  <1>4. F = step(F)
    <2> HIDE DEF step
    <2> QED BY <1>3
  <1>5. Selected(s, S) = F[m] BY DEF Selected
  <1> HIDE DEF F
  <1>6. IsSelection(F, s, S, m)
    <2>1. F = [n \in 0..m |-> F[n]]
      <3>1. \A n \in 0..m : F[n] = step(F)[n] BY <1>4
      <3>2. DOMAIN F = 0..m BY <1>4
      <3>3. [n \in 0..m |-> F[n]] = step(F) BY <1>4
      <3> HIDE DEF step
      <3> QED BY <3>3, <1>4
    <2>2. \A n \in 0..m : F[n] = step(F)[n] BY <1>4
    <2>3. F[0] = <<>> BY <2>2
    <2>4. \A n \in 1..m : F[n] = IF s[n] \in S THEN Append(F[n - 1], s[n]) ELSE F[n - 1]
      BY <2>2
    <2> HIDE DEF F
    <2> QED BY <2>1, <2>3, <2>4 DEF IsSelection
  <1> QED BY <1>5, <1>6

(* Selected(s, S) contains the elements of s that are in S: by the least     *)
(* prefix of s for which it were wrong.                                      *)
LEMMA SelectedContains ==
  ASSUME NEW T, NEW s \in Seq(T), NEW S
  PROVE  /\ Selected(s, S) \in Seq(T)
         /\ \A x : Contains(Selected(s, S), x) <=> Contains(s, x) /\ x \in S
  <1> DEFINE m == Len(s)
  <1>1. m \in Nat /\ \A i \in 1..m : s[i] \in T BY LenProperties, ElementOfSeq
  <1>2. PICK f : IsSelection(f, s, S, m) /\ Selected(s, S) = f[m] BY <1>1, SelectedDef
  <1> DEFINE right(n) == /\ f[n] \in Seq(T)
                         /\ \A x : Contains(f[n], x) <=> (\E i \in 1..n : s[i] = x) /\ x \in S
             wrong == {n \in 0..m : ~right(n)}
  <1>3. wrong = {}
    <2>1. SUFFICES ASSUME wrong # {} PROVE FALSE OBVIOUS
    <2>2. wrong \subseteq Nat BY <1>1
    <2>3. PICK k \in wrong : \A n \in wrong : k <= n BY <2>1, <2>2, LeastNatural
    <2>4. k # 0
      <3>1. f[0] = <<>> BY <1>2 DEF IsSelection
      <3>2. <<>> \in Seq(T) BY EmptySeq
      <3>3. right(0) BY <3>1, <3>2, ContainsEmpty
      <3> HIDE DEF right
      <3> QED BY <3>3
    <2>5. k \in 1..m /\ k - 1 \in 0..m BY <2>4, <1>1
    <2>6. right(k - 1)
      <3> HIDE DEF right
      <3>1. ~(k <= k - 1) BY <2>5
      <3> QED BY <2>3, <2>5, <3>1
    <2>7. f[k] = IF s[k] \in S THEN Append(f[k - 1], s[k]) ELSE f[k - 1]
      BY <1>2, <2>5 DEF IsSelection
    <2>8. s[k] \in T BY <1>1, <2>5
    <2>9. \A i : i \in 1..k <=> i \in 1..(k - 1) \/ i = k BY <2>5, <1>1
    <2> HIDE DEF m
    <2>10. CASE s[k] \in S
      <3>1. f[k] = Append(f[k - 1], s[k]) BY <2>10, <2>7
      <3>2. f[k] \in Seq(T) BY <3>1, <2>6, <2>8, AppendProperties
      <3>3. \A x : Contains(f[k], x) <=> Contains(f[k - 1], x) \/ x = s[k]
        BY <3>1, <2>6, <2>8, ContainsAppend
      <3>4. \A x : Contains(f[k], x) <=> (\E i \in 1..k : s[i] = x) /\ x \in S
        BY <3>3, <2>6, <2>9, <2>10
      <3> QED BY <3>2, <3>4, <2>3
    <2>11. CASE s[k] \notin S
      <3>1. f[k] = f[k - 1] BY <2>11, <2>7
      <3>2. \A x : Contains(f[k], x) <=> (\E i \in 1..k : s[i] = x) /\ x \in S
        BY <3>1, <2>6, <2>9, <2>11
      <3> QED BY <3>1, <3>2, <2>6, <2>3
    <2> QED BY <2>10, <2>11
  <1>4. right(m)
    <2>1. m \in 0..m BY <1>1
    <2> HIDE DEF right
    <2> QED BY <1>3, <2>1
  <1> QED BY <1>2, <1>4 DEF Contains

(* What cleanupAsec lists are ids: the listed ASECs not in the internal      *)
(* directory, and all listed OBBs.                                           *)
LEMMA DependentContains ==
  ASSUME ContainerAssumption, mActiveContainers \in Seq(Ids), NEW where
  PROVE  /\ Dependent(where) \in Seq(Ids)
         /\ \A id \in Ids : Contains(Dependent(where), id) <=>
              /\ Contains(mActiveContainers, id)
              /\ id \in AsecIds => where[id] # "int"
  <1> DEFINE A == {id \in AsecIds : where[id] # "int"}
             s == Selected(mActiveContainers, A)
             o == Selected(mActiveContainers, ObbIds)
  <1>1. /\ s \in Seq(Ids)
        /\ \A x : Contains(s, x) <=> Contains(mActiveContainers, x) /\ x \in A
    BY SelectedContains
  <1>2. /\ o \in Seq(Ids)
        /\ \A x : Contains(o, x) <=> Contains(mActiveContainers, x) /\ x \in ObbIds
    BY SelectedContains
  <1>3. Dependent(where) = s \o o BY DEF Dependent
  <1> HIDE DEF s, o
  <1>4. /\ s \o o \in Seq(Ids)
        /\ \A x : Contains(s \o o, x) <=> Contains(s, x) \/ Contains(o, x)
    BY <1>1, <1>2, ContainsConcat, ConcatProperties
  <1> QED BY <1>1, <1>2, <1>3, <1>4 DEF ContainerAssumption, Ids

-----------------------------------------------------------------------------
(* Types and control.                                                       *)

(* Each thread has one other.                                               *)
LEMMA Others == Other("cmd") = "net" /\ Other("net") = "cmd"
  <1>1. \A u \in Thread : u # "cmd" <=> u = "net" BY DEF Thread
  <1>2. \A u \in Thread : u # "net" <=> u = "cmd" BY DEF Thread
  <1>3. Other("cmd") \in Thread /\ Other("cmd") # "cmd"
    <2>1. \E u \in Thread : u # "cmd" BY DEF Thread
    <2> QED BY <2>1 DEF Other
  <1>4. Other("net") \in Thread /\ Other("net") # "net"
    <2>1. \E u \in Thread : u # "net" BY DEF Thread
    <2> QED BY <2>1 DEF Other
  <1> QED BY <1>1, <1>2, <1>3, <1>4

(* No operation is a Call.                                                  *)
LEMMA NoCallTyped ==
  ASSUME ContainerAssumption
  PROVE  NoCall \in Call
  <1>1. 0 \in Loop BY DEF ContainerAssumption, Loop
  <1>2. <<>> \in Seq(Ids) BY EmptySeq
  <1> QED BY <1>1, <1>2 DEF NoCall, Call, Directory

(* A thread that moves to place l with operation c, which fit, keeps the     *)
(* control; the other thread does what it did.                               *)
LEMMA Moves ==
  ASSUME Control, NEW t \in Thread, NEW l \in Place, NEW c \in Call,
         Shape(l, c), t = "net" => NetShape(l, c),
         pc' = [pc EXCEPT ![t] = l], call' = [call EXCEPT ![t] = c]
  PROVE  /\ Control'
         /\ pc'[t] = l /\ call'[t] = c
         /\ \A u \in Thread : u # t => pc'[u] = pc[u] /\ call'[u] = call[u]
  <1>1. pc' \in [Thread -> Place] /\ call' \in [Thread -> Call] BY DEF Control
  <1>2. pc'[t] = l /\ call'[t] = c BY DEF Control
  <1>3. \A u \in Thread : u # t => pc'[u] = pc[u] /\ call'[u] = call[u] BY DEF Control
  <1>4. \A u \in Thread : Shape(pc'[u], call'[u]) BY <1>2, <1>3 DEF Control
  <1>5. NetShape(pc'["net"], call'["net"]) BY <1>2, <1>3 DEF Control, Thread
  <1> QED BY <1>1, <1>2, <1>3, <1>4, <1>5 DEF Control

(* The same of a thread whose operation stays as it is.                     *)
LEMMA Goes ==
  ASSUME Control, NEW t \in Thread, NEW l \in Place,
         Shape(l, call[t]), t = "net" => NetShape(l, call[t]),
         pc' = [pc EXCEPT ![t] = l], call' = call
  PROVE  /\ Control'
         /\ pc'[t] = l
         /\ \A u \in Thread : u # t => pc'[u] = pc[u]
  <1>1. call' = [call EXCEPT ![t] = call[t]] /\ call[t] \in Call BY DEF Control
  <1> QED BY <1>1, Moves

(* A thread that is done.                                                   *)
LEMMA Returns ==
  ASSUME ContainerAssumption, Control, NEW t \in Thread, Return(t)
  PROVE  /\ Control'
         /\ pc'[t] = "idle" /\ call'[t] = NoCall
         /\ \A u \in Thread : u # t => pc'[u] = pc[u] /\ call'[u] = call[u]
  <1>1. "idle" \in Place /\ NoCall \in Call BY NoCallTyped DEF Place
  <1>2. Shape("idle", NoCall) BY DEF Shape, Making, Unmounting
  <1>3. NetShape("idle", NoCall) BY DEF NetShape, CleanupPart
  <1>4. pc' = [pc EXCEPT ![t] = "idle"] /\ call' = [call EXCEPT ![t] = NoCall]
    BY DEF Return, Goto
  <1> QED BY <1>1, <1>2, <1>3, <1>4, Moves

(* A command that begins.                                                   *)
LEMMA Begins ==
  ASSUME Shapes, NEW c \in Call, NEW l \in Place, Shape(l, c), Begin(c, l)
  PROVE  /\ Control'
         /\ disturbed' \subseteq {"overlap", "open"}
         /\ pc["cmd"] = "idle" /\ pc'["cmd"] = l /\ call'["cmd"] = c
         /\ pc'["net"] = pc["net"] /\ call'["net"] = call["net"]
         /\ "overlap" \notin disturbed' => "overlap" \notin disturbed /\ pc["net"] = "idle"
         /\ disturbed' = {} => disturbed = {}
  <1>1. /\ pc' = [pc EXCEPT !["cmd"] = l] /\ call' = [call EXCEPT !["cmd"] = c]
        /\ pc["cmd"] = "idle"
        /\ disturbed' = IF pc["net"] = "idle" THEN disturbed ELSE disturbed \cup {"overlap"}
    BY DEF Begin, Goto
  <1>2. "cmd" \in Thread /\ "net" \in Thread /\ "net" # "cmd" BY DEF Thread
  <1>3. /\ Control' /\ pc'["cmd"] = l /\ call'["cmd"] = c
        /\ pc'["net"] = pc["net"] /\ call'["net"] = call["net"]
    BY <1>1, <1>2, Moves DEF Shapes
  <1>4. disturbed \subseteq {"overlap", "open"} BY DEF Shapes, TypeOK
  <1> QED BY <1>1, <1>3, <1>4

\* What loops, dms and mounts hold.
LoopStates  == [Loop -> [bound : BOOLEAN, name : Ids \cup {None},
                         file : Images \cup ObbIds \cup {None}, clearing : BOOLEAN]]
DmStates    == [Ids -> Loop \cup {NoDevice, NoTable}]
MountStates == [Ids -> Seq([loop : Loop, dm : BOOLEAN, ro : BOOLEAN])]

(* The operators on loop and device mapper devices keep the types.          *)
LEMMA DevicesTyped ==
  ASSUME ContainerAssumption, TypeOK
  PROVE  /\ \A k \in Loop : Clear(k) => loops' \in LoopStates
         /\ \A d, m, h : Settled(loops, d, m, h) \in LoopStates
         /\ \A id : DestroyDm(id) => dms' \in DmStates
         /\ FreeLoop \in [bound : BOOLEAN, name : Ids \cup {None},
                          file : Images \cup ObbIds \cup {None}, clearing : BOOLEAN]
  <1>1. FreeLoop \in [bound : BOOLEAN, name : Ids \cup {None},
                      file : Images \cup ObbIds \cup {None}, clearing : BOOLEAN]
    BY DEF FreeLoop
  <1>2. ASSUME NEW k \in Loop, Clear(k) PROVE loops' \in LoopStates
    <2> DEFINE b == [loops EXCEPT ![k] = FreeLoop]
               w == [loops EXCEPT ![k].clearing = TRUE]
    <2>1. b \in LoopStates BY <1>1 DEF TypeOK, LoopStates
    <2>2. w \in LoopStates
      <3> DEFINE D == [bound : BOOLEAN, name : Ids \cup {None},
                       file : Images \cup ObbIds \cup {None}, clearing : BOOLEAN]
                 r == [loops[k] EXCEPT !.clearing = TRUE]
      <3>1. loops \in [Loop -> D] BY DEF TypeOK
      <3>2. loops[k] \in D BY <3>1
      <3>3. r \in D BY <3>2
      <3>4. w = [loops EXCEPT ![k] = r] OBVIOUS
      <3> HIDE DEF w, r, D
      <3>5. w \in [Loop -> D] BY <3>1, <3>3, <3>4
      <3> QED BY <3>5 DEF LoopStates, D
    <2>3. loops \in LoopStates BY DEF TypeOK, LoopStates
    <2>4. Cleared(k) \in {loops, b, w} BY DEF Cleared
    <2>5. loops' \in {loops, Cleared(k)} BY <1>2 DEF Clear
    <2> HIDE DEF b, w
    <2> QED BY <2>1, <2>2, <2>3, <2>4, <2>5
  <1>3. ASSUME NEW d, NEW m, NEW h PROVE Settled(loops, d, m, h) \in LoopStates
    <2>1. loops \in LoopStates BY DEF TypeOK, LoopStates
    <2> QED BY <1>1, <2>1 DEF Settled, LoopStates
  <1>4. ASSUME NEW id, DestroyDm(id) PROVE dms' \in DmStates
    BY <1>4 DEF DestroyDm, DmDestroyed, TypeOK, DmStates
  <1> QED BY <1>1, <1>2, <1>3, <1>4

(* The operators on files answer with files and directories.                *)
LEMMA FilesTyped ==
  ASSUME ContainerAssumption, TypeOK
  PROVE  /\ \A id \in Ids : Location(id) \subseteq Directory
         /\ \A id \in Ids, dir \in Directory : ImageOf(id, dir) \in Images \cup ObbIds \cup {None}
         /\ \A id \in AsecIds, dir \in Directory :
              Unlinked(id, dir) \in [AsecIds -> [Directory -> Images \cup {None}]]
  <1>1. \A id \in Ids : Location(id) \subseteq Directory BY DEF Location, Found, Stored, Directory
  <1>2. \A id \in Ids, dir \in Directory : ImageOf(id, dir) \in Images \cup ObbIds \cup {None}
    BY DEF ImageOf, TypeOK, Ids
  <1>3. \A id \in AsecIds, dir \in Directory :
          Unlinked(id, dir) \in [AsecIds -> [Directory -> Images \cup {None}]]
    BY DEF Unlinked, TypeOK
  <1> QED BY <1>1, <1>2, <1>3

(* The loop devices a lookup finds.                                         *)
LEMMA LookupsTyped ==
  FirstFree \subseteq Loop /\ \A id : Active(id) \subseteq Loop
  BY DEF FirstFree, Active

(* Loop::create keeps the types; the command goes on with a device it has   *)
(* noted, or as it does without.                                            *)
LEMMA LoopCreateTyped ==
  ASSUME ContainerAssumption, Shapes, NEW img \in Images \cup ObbIds \cup {None},
         NEW ok \in Place, NEW failed \in BOOLEAN,
         call["cmd"].id \in Ids, LoopCreate(img, ok, failed)
  PROVE  /\ loops' \in LoopStates
         /\ \/ failed
            \/ \E k \in Loop : NoteLoop(k) /\ Goto("cmd", ok)
  <1>1. FirstFree \subseteq Loop BY LookupsTyped
  <1> DEFINE D == [bound : BOOLEAN, name : Ids \cup {None},
                   file : Images \cup ObbIds \cup {None}, clearing : BOOLEAN]
             new(n) == [bound |-> TRUE, name |-> n, file |-> img, clearing |-> FALSE]
  <1>2. loops \in [Loop -> D] BY DEF Shapes, TypeOK
  <1>3. new(call["cmd"].id) \in D /\ new(None) \in D OBVIOUS
  <1>4. \/ UNCHANGED loops
        \/ \E k \in FirstFree, n \in {call["cmd"].id, None} : loops' = [loops EXCEPT ![k] = new(n)]
    BY DEF LoopCreate
  <1>5. failed \/ \E k \in Loop : NoteLoop(k) /\ Goto("cmd", ok)
    BY <1>1 DEF LoopCreate
  <1> HIDE DEF new, D
  <1>6. loops' \in [Loop -> D] BY <1>1, <1>2, <1>3, <1>4
  <1> QED BY <1>5, <1>6 DEF LoopStates, D

(* A device noted for the command is a change of its operation.             *)
LEMMA NotesLoop ==
  ASSUME Control, NEW k \in Loop, NEW l \in Place, NoteLoop(k), Goto("cmd", l),
         Shape(l, [call["cmd"] EXCEPT !.loop = k])
  PROVE  /\ Control'
         /\ pc'["cmd"] = l /\ call'["cmd"] = [call["cmd"] EXCEPT !.loop = k]
         /\ pc'["net"] = pc["net"] /\ call'["net"] = call["net"]
  <1> DEFINE c == [call["cmd"] EXCEPT !.loop = k]
  <1>1. "cmd" \in Thread /\ "net" \in Thread BY DEF Thread
  <1>2. call["cmd"] \in Call BY <1>1 DEF Control
  <1>3. c \in Call BY <1>2 DEF Call
  <1>4. call' = [call EXCEPT !["cmd"] = c] BY DEF NoteLoop
  <1>5. pc' = [pc EXCEPT !["cmd"] = l] BY DEF Goto
  <1> HIDE DEF c
  <1>6. Shape(l, c) BY DEF c
  <1>7. /\ Control' /\ pc'["cmd"] = l /\ call'["cmd"] = c
        /\ \A u \in Thread : u # "cmd" => pc'[u] = pc[u] /\ call'[u] = call[u]
    BY <1>1, <1>3, <1>4, <1>5, <1>6, Moves
  <1>8. c = [call["cmd"] EXCEPT !.loop = k] BY DEF c
  <1> QED BY <1>1, <1>7, <1>8

(* TypeOK of the variables, and the control, make the invariant.            *)
LEMMA ShapesFrom ==
  ASSUME Control',
         file' \in [AsecIds -> [Directory -> Images \cup {None}]],
         content' \in [Images -> [fs : {"blank", "none", "fat", "ext4"}, key : BOOLEAN]],
         secureArea' \in {"unbound", "bound", "gone"},
         loops' \in LoopStates, dms' \in DmStates, mounts' \in MountStates,
         held' \subseteq [id : Ids, loop : Loop, dm : BOOLEAN],
         mActiveContainers' \in Seq(Ids), disturbed' \subseteq {"overlap", "open"}
  PROVE  Shapes'
  <1>1. \A t \in Thread : call'[t] \in Call BY DEF Control
  <1>2. \A t \in Thread : call'[t].todo \in Seq(Ids) /\ call'[t].loop \in Loop BY <1>1 DEF Call
  <1> QED BY <1>2 DEF Shapes, TypeOK, LoopStates, DmStates, MountStates

(* What is unchanged keeps its type.                                        *)
LEMMA Typed ==
  ASSUME Shapes
  PROVE  /\ file \in [AsecIds -> [Directory -> Images \cup {None}]]
         /\ content \in [Images -> [fs : {"blank", "none", "fat", "ext4"}, key : BOOLEAN]]
         /\ secureArea \in {"unbound", "bound", "gone"}
         /\ loops \in LoopStates /\ dms \in DmStates /\ mounts \in MountStates
         /\ held \subseteq [id : Ids, loop : Loop, dm : BOOLEAN]
         /\ mActiveContainers \in Seq(Ids) /\ disturbed \subseteq {"overlap", "open"}
         /\ Control /\ TypeOK
         /\ "cmd" \in Thread /\ "net" \in Thread
         /\ \A t \in Thread : call[t] \in Call /\ Shape(pc[t], call[t])
  BY DEF Shapes, Control, TypeOK, LoopStates, DmStates, MountStates, Thread

(* createAsec.                                                              *)
LEMMA ImageTyped ==
  ASSUME Shapes, NEW id, NEW dir, ImageCreated(id, dir)
  PROVE  /\ file' \in [AsecIds -> [Directory -> Images \cup {None}]]
         /\ content' \in [Images -> [fs : {"blank", "none", "fat", "ext4"}, key : BOOLEAN]]
         /\ secureArea' = secureArea
  <1>1. PICK img \in Images :
          /\ file' = [file EXCEPT ![id][dir] = img]
          /\ content' = [content EXCEPT ![img] = [fs |-> "blank", key |-> FALSE]]
    BY DEF ImageCreated
  <1> QED BY <1>1, Typed DEF ImageCreated

\* Asec create begins, its image file made: keeps Shapes.
LEMMA StartCreateShapes ==
  ASSUME ContainerAssumption, Shapes, StartCreate
  PROVE  Shapes'
  <1>1. PICK id \in AsecIds, dir \in Directory, key \in BOOLEAN, fs \in Filesystems :
          /\ ImageCreated(id, dir)
          /\ Begin([NoCall EXCEPT !.op = "create", !.id = id, !.dir = dir, !.key = key, !.fs = fs],
                   "loop")
    BY DEF StartCreate
  <1> DEFINE c == [NoCall EXCEPT !.op = "create", !.id = id, !.dir = dir, !.key = key, !.fs = fs]
  <1>2. /\ NoCall.loop \in Loop /\ NoCall.todo \in Seq(Ids) /\ NoCall.freed = {}
        /\ fs \in {"none", "fat", "ext4"} /\ id \in Ids
    BY NoCallTyped DEF Call, NoCall, ContainerAssumption, Ids
  <1>3. c \in Call BY <1>2 DEF NoCall, Call
  <1>4. Shape("loop", c) BY <1>2 DEF NoCall, Shape, Making, Unmounting
  <1>5. "loop" \in Place BY DEF Place, Making
  <1>6. Begin(c, "loop") BY <1>1
  <1> HIDE DEF c
  <1>7. Control' /\ disturbed' \subseteq {"overlap", "open"} BY <1>3, <1>4, <1>5, <1>6, Begins
  <1>8. UNCHANGED <<deviceVars, mActiveContainers>> BY DEF StartCreate
  <1> QED BY <1>1, <1>7, <1>8, Typed, ImageTyped, ShapesFrom DEF deviceVars

\* An image file that came out too short stays: keeps Shapes.
LEMMA CreateImageFailsShapes ==
  ASSUME ContainerAssumption, Shapes, CreateImageFails
  PROVE  Shapes'
  <1>1. PICK id \in AsecIds, dir \in Directory : ImageCreated(id, dir) BY DEF CreateImageFails
  <1>2. UNCHANGED <<deviceVars, mActiveContainers, threadVars, disturbed>> BY DEF CreateImageFails
  <1>3. Control' BY <1>2, Typed DEF Control, threadVars
  <1> QED BY <1>1, <1>2, <1>3, Typed, ImageTyped, ShapesFrom DEF deviceVars

(* A command that begins without touching files or devices.                 *)
LEMMA BeginsShapes ==
  ASSUME Shapes, NEW c \in Call, NEW l \in Place, Shape(l, c), Begin(c, l),
         UNCHANGED <<fileVars, deviceVars, mActiveContainers>>
  PROVE  Shapes'
  <1>1. Control' /\ disturbed' \subseteq {"overlap", "open"} BY Begins
  <1> QED BY <1>1, Typed, ShapesFrom DEF fileVars, deviceVars

\* A mount begins: keeps Shapes.
LEMMA StartMountShapes ==
  ASSUME ContainerAssumption, Shapes, StartMount
  PROVE  Shapes'
  <1>1. PICK id \in Ids, key \in BOOLEAN : \E dir \in Location(id) :
          Begin([NoCall EXCEPT !.op = "mount", !.id = id, !.dir = dir, !.key = key], "loop")
    BY DEF StartMount
  <1>2. PICK dir \in Location(id) :
          Begin([NoCall EXCEPT !.op = "mount", !.id = id, !.dir = dir, !.key = key], "loop")
    BY <1>1
  <1> DEFINE c == [NoCall EXCEPT !.op = "mount", !.id = id, !.dir = dir, !.key = key]
  <1>3. /\ NoCall.loop \in Loop /\ NoCall.todo \in Seq(Ids) /\ NoCall.freed = {}
        /\ dir \in Directory
    BY NoCallTyped, FilesTyped, Typed DEF Call, NoCall
  <1>4. c \in Call BY <1>3 DEF NoCall, Call
  <1>5. Shape("loop", c) BY DEF NoCall, Shape, Making, Unmounting
  <1>6. "loop" \in Place BY DEF Place, Making
  <1>7. Begin(c, "loop") BY <1>2
  <1> HIDE DEF c
  <1>8. UNCHANGED <<fileVars, deviceVars, mActiveContainers>> BY DEF StartMount
  <1> QED BY <1>4, <1>5, <1>6, <1>7, <1>8, BeginsShapes

\* An unmount begins: keeps Shapes.
LEMMA StartUnmountShapes ==
  ASSUME ContainerAssumption, Shapes, StartUnmount
  PROVE  Shapes'
  <1>1. PICK id \in Ids : Begin([NoCall EXCEPT !.op = "unmount", !.id = id], "um_check")
    BY DEF StartUnmount
  <1> DEFINE c == [NoCall EXCEPT !.op = "unmount", !.id = id]
  <1>2. c \in Call BY NoCallTyped DEF NoCall, Call
  <1>3. Shape("um_check", c) BY DEF NoCall, Shape, Making, Unmounting
  <1>4. "um_check" \in Place BY DEF Place, Unmounting
  <1>5. Begin(c, "um_check") BY <1>1
  <1> HIDE DEF c
  <1>6. UNCHANGED <<fileVars, deviceVars, mActiveContainers>> BY DEF StartUnmount
  <1> QED BY <1>2, <1>3, <1>4, <1>5, <1>6, BeginsShapes

(* The paths of vold_unmountAllAsecs are those of ids.                      *)
LEMMA PathsTyped ==
  ASSUME ContainerAssumption, NEW dir, NEW s \in SetToSeqs(FilesIn(dir))
  PROVE  s \in Seq(Ids)
  <1>1. FilesIn(dir) \subseteq Ids BY DEF FilesIn, Ids
  <1>2. s \in [1..Cardinality(FilesIn(dir)) -> FilesIn(dir)] BY DEF SetToSeqs
  <1>3. Cardinality(FilesIn(dir)) \in Nat
    BY <1>1, FS_Subset, FS_CardinalityType DEF ContainerAssumption
  <1> QED BY <1>1, <1>2, <1>3

\* UnmountAllAsecsInDir selects its containers: keeps Shapes.
LEMMA StartUnmountAllShapes ==
  ASSUME ContainerAssumption, Shapes, StartUnmountAll
  PROVE  Shapes'
  <1>1. PICK ext \in SetToSeqs(FilesIn("ext")), int \in SetToSeqs(FilesIn("int")) :
          Begin([NoCall EXCEPT !.op = "unmountAll", !.todo = ext \o int], "next")
    BY DEF StartUnmountAll
  <1> DEFINE todo == ext \o int
             c == [NoCall EXCEPT !.op = "unmountAll", !.todo = todo]
  <1>2. todo \in Seq(Ids) BY PathsTyped, ConcatProperties
  <1> HIDE DEF todo
  <1>3. c \in Call BY <1>2, NoCallTyped DEF NoCall, Call
  <1>4. Shape("next", c) BY DEF NoCall, Shape, Making, Unmounting
  <1>5. "next" \in Place BY DEF Place
  <1>6. Begin(c, "next") BY <1>1 DEF todo
  <1> HIDE DEF c
  <1>7. UNCHANGED <<fileVars, deviceVars, mActiveContainers>> BY DEF StartUnmountAll
  <1> QED BY <1>3, <1>4, <1>5, <1>6, <1>7, BeginsShapes

\* Asec destroy begins with an unmount, if it is mounted: keeps Shapes.
LEMMA StartDestroyShapes ==
  ASSUME ContainerAssumption, Shapes, StartDestroy
  PROVE  Shapes'
  <1>1. PICK id \in AsecIds : \E dir \in Location(id), l \in {"um_check", "unlink"} :
          Begin([NoCall EXCEPT !.op = "destroy", !.id = id, !.dir = dir], l)
    BY DEF StartDestroy
  <1>2. PICK dir \in Location(id), l \in {"um_check", "unlink"} :
          Begin([NoCall EXCEPT !.op = "destroy", !.id = id, !.dir = dir], l)
    BY <1>1
  <1> DEFINE c == [NoCall EXCEPT !.op = "destroy", !.id = id, !.dir = dir]
  <1>3. dir \in Directory /\ id \in Ids BY FilesTyped, Typed DEF Ids
  <1>4. c \in Call BY <1>3, NoCallTyped DEF NoCall, Call
  <1>5. Shape(l, c) BY <1>3 DEF NoCall, Shape, Making, Unmounting
  <1>6. l \in Place BY DEF Place, Unmounting
  <1>7. Begin(c, l) BY <1>2
  <1> HIDE DEF c
  <1>8. UNCHANGED <<fileVars, deviceVars, mActiveContainers>> BY DEF StartDestroy
  <1> QED BY <1>4, <1>5, <1>6, <1>7, <1>8, BeginsShapes

(* cleanupAsec of thread t.                                                 *)
LEMMA CleanupMoves ==
  ASSUME ContainerAssumption, Shapes, NEW t \in Thread, Cleanup(t)
  PROVE  \E where \in [AsecIds -> {"int", "ext", "nowhere"}] :
           /\ \A id \in AsecIds : where[id] \in Found(id)
           /\ Control'
           /\ pc'[t] = "next"
           /\ call'[t] = [NoCall EXCEPT !.op = "cleanup", !.todo = Dependent(where)]
           /\ \A u \in Thread : u # t => pc'[u] = pc[u] /\ call'[u] = call[u]
           /\ disturbed' \subseteq {"overlap", "open"}
  <1>1. PICK where \in [AsecIds -> {"int", "ext", "nowhere"}] :
          /\ \A id \in AsecIds : where[id] \in Found(id)
          /\ call' = [call EXCEPT ![t] = [NoCall EXCEPT !.op = "cleanup", !.todo = Dependent(where)]]
          /\ Goto(t, "next")
          /\ disturbed' = IF pc[Other(t)] = "idle" THEN disturbed ELSE disturbed \cup {"overlap"}
    BY DEF Cleanup
  <1> DEFINE c == [NoCall EXCEPT !.op = "cleanup", !.todo = Dependent(where)]
  <1>2. Dependent(where) \in Seq(Ids) BY DependentContains, Typed
  <1>3. c \in Call BY <1>2, NoCallTyped DEF NoCall, Call
  <1>4. Shape("next", c) BY DEF NoCall, Shape, Making, Unmounting
  <1>5. NetShape("next", c) BY DEF NoCall, NetShape, CleanupPart
  <1>6. "next" \in Place BY DEF Place
  <1>7. call' = [call EXCEPT ![t] = c] BY <1>1
  <1>8. c = [NoCall EXCEPT !.op = "cleanup", !.todo = Dependent(where)] OBVIOUS
  <1> HIDE DEF c
  <1>9. /\ Control' /\ pc'[t] = "next" /\ call'[t] = c
        /\ \A u \in Thread : u # t => pc'[u] = pc[u] /\ call'[u] = call[u]
    BY <1>1, <1>3, <1>4, <1>5, <1>6, <1>7, Typed, Moves DEF Goto
  <1> QED BY <1>1, <1>8, <1>9, Typed

\* CleanupAsec selects its containers, on either thread: keeps Shapes.
LEMMA CleanupShapes ==
  ASSUME ContainerAssumption, Shapes, StartUnmountVolume \/ BadRemoval
  PROVE  Shapes'
  <1>1. \E t \in Thread : Cleanup(t) BY DEF StartUnmountVolume, BadRemoval, Thread
  <1>2. Control' /\ disturbed' \subseteq {"overlap", "open"} BY <1>1, CleanupMoves
  <1>3. UNCHANGED <<fileVars, deviceVars, mActiveContainers>>
    BY DEF StartUnmountVolume, BadRemoval
  <1> QED BY <1>2, <1>3, Typed, ShapesFrom DEF fileVars, deviceVars

\* Asec rename, both names unmounted: keeps Shapes.
LEMMA RenameShapes ==
  ASSUME ContainerAssumption, Shapes, Rename
  PROVE  Shapes'
  <1>1. PICK id1 \in AsecIds, id2 \in AsecIds, dir \in Directory :
          file' = [file EXCEPT ![id2][dir] = file[id1][dir], ![id1][dir] = None]
    BY FilesTyped, Typed DEF Rename, Ids
  <1>2. file[id1][dir] \in Images \cup {None} BY Typed
  <1> DEFINE x == file[id1][dir]
             f == [file EXCEPT ![id2][dir] = x]
  <1>3. f \in [AsecIds -> [Directory -> Images \cup {None}]] BY <1>2, Typed
  <1>4. file' = [f EXCEPT ![id1][dir] = None] BY <1>1
  <1> HIDE DEF f
  <1>5. file' \in [AsecIds -> [Directory -> Images \cup {None}]] BY <1>3, <1>4
  <1>6. UNCHANGED <<content, secureArea, deviceVars, mActiveContainers, threadVars, disturbed>>
    BY DEF Rename
  <1>7. Control' BY <1>6, Typed DEF Control, threadVars
  <1> QED BY <1>5, <1>6, <1>7, Typed, ShapesFrom DEF deviceVars

(* Mounting again as given changes nothing of a mount but its flag.         *)
LEMMA RemountedTyped ==
  ASSUME Shapes, NEW id \in Ids, NEW ro \in BOOLEAN
  PROVE  /\ Remounted(id, ro) \in MountStates
         /\ \A j \in Ids :
              /\ Len(Remounted(id, ro)[j]) = Len(mounts[j])
              /\ Remounted(id, ro)[j] = <<>> <=> mounts[j] = <<>>
              /\ \A i \in 1..Len(mounts[j]) :
                   /\ Remounted(id, ro)[j][i].loop = mounts[j][i].loop
                   /\ Remounted(id, ro)[j][i].dm = mounts[j][i].dm
  <1> DEFINE M == [loop : Loop, dm : BOOLEAN, ro : BOOLEAN]
  <1>1. mounts \in [Ids -> Seq(M)] BY DEF Shapes, TypeOK
  <1>2. CASE ~Mounted(id) BY <1>1, <1>2, Typed DEF Remounted
  <1>3. CASE Mounted(id)
    <2> DEFINE s == mounts[id]
               n == Len(s)
               e == [s[n] EXCEPT !.ro = ro]
               t == [s EXCEPT ![n] = e]
               r == [mounts EXCEPT ![id] = t]
    <2>1. s \in Seq(M) /\ n \in 1..Len(s)
      <3>1. s \in Seq(M) /\ s # <<>> BY <1>1, <1>3 DEF Mounted
      <3>2. Len(s) \in Nat \ {0} BY <3>1, EmptySeq
      <3> QED BY <3>1, <3>2
    <2>2. s[n] \in M BY <2>1, ElementOfSeq
    <2>3. e \in M /\ e.loop = s[n].loop /\ e.dm = s[n].dm BY <2>2
    <2>4. Remounted(id, ro) = r BY <1>3 DEF Remounted
    <2> HIDE DEF e, M
    <2>5. /\ t \in Seq(M) /\ Len(t) = Len(s)
          /\ \A i \in 1..Len(s) : t[i] = IF i = n THEN e ELSE s[i]
      BY <2>1, <2>3, ExceptSeq
    <2> HIDE DEF t, n, s
    <2>6. r \in [Ids -> Seq(M)] BY <1>1, <2>5
    <2>7. t # <<>> BY <2>5, <2>1, EmptySeq
    <2>8. /\ Len(t) = Len(s)
          /\ t = <<>> <=> s = <<>>
          /\ \A i \in 1..Len(s) : t[i].loop = s[i].loop /\ t[i].dm = s[i].dm
      BY <2>3, <2>5, <2>7, <1>3 DEF s, Mounted
    <2>9. ASSUME NEW j \in Ids
          PROVE  /\ Len(r[j]) = Len(mounts[j])
                 /\ r[j] = <<>> <=> mounts[j] = <<>>
                 /\ \A i \in 1..Len(mounts[j]) :
                      r[j][i].loop = mounts[j][i].loop /\ r[j][i].dm = mounts[j][i].dm
      <3>1. CASE j = id BY <3>1, <2>8, <1>1 DEF s
      <3>2. CASE j # id BY <3>2, <1>1
      <3> QED BY <3>1, <3>2
    <2> HIDE DEF r
    <2> QED BY <2>4, <2>6, <2>9 DEF MountStates, M
  <1> QED BY <1>2, <1>3

(* finalizeAsec, and a step of fixupAsecPermissions.                        *)
LEMMA FinalizeShapes ==
  ASSUME ContainerAssumption, Shapes, Finalize
  PROVE  Shapes'
  <1>1. PICK id \in AsecIds, k \in Loop :
          \/ mounts' = Remounted(id, TRUE) /\ UNCHANGED loops
          \/ Clear(k) /\ UNCHANGED mounts
    BY DEF Finalize
  <1>2. loops' \in LoopStates /\ mounts' \in MountStates
    <2>1. id \in Ids BY DEF Ids
    <2>2. Clear(k) => loops' \in LoopStates BY Typed, DevicesTyped
    <2>3. Remounted(id, TRUE) \in MountStates BY <2>1, RemountedTyped
    <2> QED BY <1>1, <2>2, <2>3, Typed
  <1>3. UNCHANGED <<fileVars, dms, held, mActiveContainers, threadVars, disturbed>> BY DEF Finalize
  <1>4. Control' BY <1>3, Typed DEF Control, threadVars
  <1> QED BY <1>2, <1>3, <1>4, Typed, ShapesFrom DEF fileVars

\* Asec fixperms opens a container that is mounted: keeps Shapes.
LEMMA StartFixupShapes ==
  ASSUME ContainerAssumption, Shapes, StartFixup
  PROVE  Shapes'
  <1>1. UNCHANGED <<fileVars, dms, held, mActiveContainers>> BY DEF StartFixup
  <1>2. PICK id \in AsecIds, k \in Loop :
          \/ /\ mounts' = Remounted(id, FALSE) /\ UNCHANGED loops
             /\ Begin([NoCall EXCEPT !.op = "fixup", !.id = id], "seal")
          \/ Clear(k) /\ UNCHANGED <<mounts, threadVars, disturbed>>
    BY DEF StartFixup
  <1>3. loops' \in LoopStates /\ mounts' \in MountStates
    <2>1. id \in Ids BY DEF Ids
    <2>2. Clear(k) => loops' \in LoopStates BY Typed, DevicesTyped
    <2>3. Remounted(id, FALSE) \in MountStates BY <2>1, RemountedTyped
    <2> QED BY <1>2, <2>2, <2>3, Typed
  <1>4. Control' /\ disturbed' \subseteq {"overlap", "open"}
    <2>1. CASE Begin([NoCall EXCEPT !.op = "fixup", !.id = id], "seal")
      <3> DEFINE c == [NoCall EXCEPT !.op = "fixup", !.id = id]
      <3>1. c \in Call BY NoCallTyped DEF NoCall, Call, Ids
      <3>2. Shape("seal", c) BY DEF NoCall, Shape, Making, Unmounting, Ids
      <3>3. "seal" \in Place BY DEF Place
      <3>4. Begin(c, "seal") BY <2>1
      <3> HIDE DEF c
      <3> QED BY <3>1, <3>2, <3>3, <3>4, Begins
    <2>2. CASE UNCHANGED <<mounts, threadVars, disturbed>>
      BY <2>2, Typed DEF Control, threadVars
    <2> QED BY <1>2, <2>1, <2>2
  <1> QED BY <1>1, <1>3, <1>4, Typed, ShapesFrom DEF fileVars

\* Asec fixperms closes it again: keeps Shapes.
LEMMA FixupSealsShapes ==
  ASSUME ContainerAssumption, Shapes, FixupSeals
  PROVE  Shapes'
  <1>1. pc["cmd"] = "seal" /\ Return("cmd") BY DEF FixupSeals
  <1>2. call["cmd"].id \in Ids BY <1>1, Typed DEF Shape
  <1>3. mounts' \in MountStates
    <2>1. Remounted(call["cmd"].id, TRUE) \in MountStates BY <1>2, RemountedTyped
    <2> QED BY <2>1, Typed DEF FixupSeals
  <1>4. Control' BY <1>1, Typed, Returns
  <1>5. UNCHANGED <<fileVars, loops, dms, held, mActiveContainers, disturbed>> BY DEF FixupSeals
  <1> QED BY <1>3, <1>4, <1>5, Typed, ShapesFrom DEF fileVars

-----------------------------------------------------------------------------
(* The steps of createAsec, mountAsec and mountObb.                         *)

(* The operation of a command that is under way.                            *)
LEMMA CommandTyped ==
  ASSUME Shapes, pc["cmd"] \in Making
  PROVE  LET c == call["cmd"]
         IN /\ c \in Call /\ c.id \in Ids /\ c.dir \in Directory /\ c.key \in BOOLEAN
            /\ c.loop \in Loop /\ c.op \in {"create", "mount"}
            /\ c.fs \in {"none", "fat", "ext4"}
            /\ c.op = "create" => c.id \in AsecIds /\ c.fs \in Filesystems
            /\ pc["cmd"] # "idle" /\ pc["cmd"] # "next"
  <1>1. call["cmd"] \in Call /\ Shape(pc["cmd"], call["cmd"]) BY Typed
  <1>2. pc["cmd"] # "idle" /\ pc["cmd"] # "next" BY DEF Making
  <1> QED BY <1>1, <1>2 DEF Call, Shape

(* A command between two of its points.                                     *)
LEMMA MakingGoes ==
  ASSUME Shapes, pc["cmd"] \in Making, NEW l \in Making, Goto("cmd", l), UNCHANGED call,
         l \in {"format", "down_file"} => call["cmd"].op = "create",
         l = "info" => call["cmd"].op = "mount"
  PROVE  /\ Control' /\ pc'["cmd"] = l /\ pc'["net"] = pc["net"]
  <1>1. Shape(l, call["cmd"]) BY CommandTyped DEF Shape, Making, Unmounting
  <1>2. l \in Place /\ "cmd" \in Thread /\ "net" \in Thread /\ "net" # "cmd" BY DEF Place, Thread
  <1>3. pc' = [pc EXCEPT !["cmd"] = l] BY DEF Goto
  <1>4. Control BY Typed
  <1> QED BY <1>1, <1>2, <1>3, <1>4, Goes

\* The loop device of an image is found or made: keeps Shapes.
LEMMA GetLoopShapes ==
  ASSUME ContainerAssumption, Shapes, GetLoop
  PROVE  Shapes'
  <1> DEFINE c == call["cmd"]
             after == IF c.op = "mount" THEN "info" ELSE IF c.key THEN "dm" ELSE "format"
             failed == IF c.op = "create" THEN Goto("cmd", "down_file") /\ UNCHANGED call
                                          ELSE Return("cmd")
  <1>1. pc["cmd"] = "loop" /\ pc["cmd"] \in Making BY DEF GetLoop, Making
  <1>2. /\ c \in Call /\ c.id \in Ids /\ c.dir \in Directory /\ c.op \in {"create", "mount"}
        /\ c.op = "create" => c.id \in AsecIds /\ c.fs \in Filesystems
    BY <1>1, CommandTyped
  <1>3. \/ \E k \in Active(c.id) : NoteLoop(k) /\ Goto("cmd", after) /\ UNCHANGED loops
        \/ LoopCreate(ImageOf(c.id, c.dir), after, failed)
    BY DEF GetLoop
  <1>4. after \in Place BY DEF Place, Making
  <1> HIDE DEF after, failed
  <1>5. \/ \E k \in Loop : NoteLoop(k) /\ Goto("cmd", after)
        \/ failed
    <2>1. ImageOf(c.id, c.dir) \in Images \cup ObbIds \cup {None} BY <1>2, Typed, FilesTyped
    <2>2. failed \in BOOLEAN BY DEF failed, Return, Goto
    <2> QED BY <1>2, <1>3, <1>4, <2>1, <2>2, LoopCreateTyped, LookupsTyped
  <1>6. loops' \in LoopStates
    <2>1. ImageOf(c.id, c.dir) \in Images \cup ObbIds \cup {None} BY <1>2, Typed, FilesTyped
    <2>2. failed \in BOOLEAN BY DEF failed, Return, Goto
    <2> QED BY <1>2, <1>3, <1>4, <2>1, <2>2, LoopCreateTyped, Typed
  <1>7. Control'
    <2>1. CASE failed
      <3>1. CASE c.op = "create"
        <4>1. Goto("cmd", "down_file") /\ UNCHANGED call BY <2>1, <3>1 DEF failed
        <4>2. "down_file" \in Making BY DEF Making
        <4> QED BY <1>1, <3>1, <4>1, <4>2, MakingGoes
      <3>2. CASE c.op # "create" BY <2>1, <3>2, Typed, Returns DEF failed
      <3> QED BY <3>1, <3>2
    <2>2. ASSUME NEW k \in Loop, NoteLoop(k), Goto("cmd", after) PROVE Control'
      <3> DEFINE n == [call["cmd"] EXCEPT !.loop = k]
      <3>1. n.id = c.id /\ n.op = c.op /\ n.fs = c.fs BY <1>2 DEF Call
      <3> HIDE DEF n
      <3>2. Shape(after, n) BY <1>2, <3>1 DEF Shape, Making, Unmounting, after
      <3>3. Control BY Typed
      <3> QED BY <1>4, <2>2, <3>2, <3>3, NotesLoop DEF n
    <2> QED BY <1>5, <2>1, <2>2
  <1>8. UNCHANGED <<fileVars, dms, mounts, held, mActiveContainers, disturbed>> BY DEF GetLoop
  <1> QED BY <1>6, <1>7, <1>8, Typed, ShapesFrom DEF fileVars

\* The superblock of a mount's image is read, or refused: keeps Shapes.
LEMMA ReadSuperblockShapes ==
  ASSUME ContainerAssumption, Shapes, ReadSuperblock
  PROVE  Shapes'
  <1> DEFINE c == call["cmd"]
             l == IF c.key THEN "dm" ELSE "mount"
  <1>1. pc["cmd"] = "info" /\ pc["cmd"] \in Making BY DEF ReadSuperblock, Making
  <1>2. c.loop \in Loop BY <1>1, CommandTyped
  <1>3. \/ Goto("cmd", l) /\ UNCHANGED <<call, loops>>
        \/ Clear(c.loop) /\ Return("cmd")
    BY DEF ReadSuperblock
  <1>4. loops' \in LoopStates BY <1>2, <1>3, Typed, DevicesTyped
  <1>5. Control'
    <2>1. CASE Return("cmd") BY <2>1, Typed, Returns
    <2>2. CASE Goto("cmd", l) /\ UNCHANGED call
      <3>1. l \in Making /\ l \notin {"format", "down_file", "info"} BY DEF Making
      <3> HIDE DEF l
      <3> QED BY <1>1, <2>2, <3>1, MakingGoes
    <2> QED BY <1>3, <2>1, <2>2
  <1>6. UNCHANGED <<fileVars, dms, mounts, held, mActiveContainers, disturbed>>
    BY DEF ReadSuperblock
  <1> QED BY <1>4, <1>5, <1>6, Typed, ShapesFrom DEF fileVars

\* The device mapper device over it is found or made: keeps Shapes.
LEMMA GetDmShapes ==
  ASSUME ContainerAssumption, Shapes, GetDm
  PROVE  Shapes'
  <1> DEFINE c == call["cmd"]
             after == IF c.op = "create" THEN "format" ELSE "mount"
  <1>1. pc["cmd"] = "dm" /\ pc["cmd"] \in Making BY DEF GetDm, Making
  <1>2. c.id \in Ids /\ c.loop \in Loop BY <1>1, CommandTyped
  <1>3. /\ \/ UNCHANGED dms
           \/ dms' = [dms EXCEPT ![c.id] = c.loop]
           \/ dms' = [dms EXCEPT ![c.id] = NoTable]
        /\ Goto("cmd", after) \/ Goto("cmd", "down_loop")
        /\ UNCHANGED <<fileVars, loops, mounts, held, mActiveContainers, call, disturbed>>
    BY DEF GetDm
  <1>4. dms' \in DmStates BY <1>2, <1>3, Typed DEF DmStates
  <1>5. Control'
    <2>1. "down_loop" \in Making /\ after \in Making /\ after # "down_file" /\ after # "info"
          /\ (after = "format" => c.op = "create")
      BY DEF Making
    <2> HIDE DEF after
    <2>2. CASE Goto("cmd", after) BY <1>1, <1>3, <2>1, <2>2, MakingGoes
    <2>3. CASE Goto("cmd", "down_loop") BY <1>1, <1>3, <2>1, <2>3, MakingGoes
    <2> QED BY <1>3, <2>2, <2>3
  <1> QED BY <1>3, <1>4, <1>5, Typed, ShapesFrom DEF fileVars

\* A new container is formatted: keeps Shapes.
LEMMA FormatShapes ==
  ASSUME ContainerAssumption, Shapes, Format
  PROVE  Shapes'
  <1> DEFINE c == call["cmd"]
             l == IF c.fs = "none" THEN "push" ELSE "mount"
  <1>1. pc["cmd"] = "format" /\ pc["cmd"] \in Making BY DEF Format, Making
  <1>2. c.fs \in {"none", "fat", "ext4"} /\ c.key \in BOOLEAN BY <1>1, CommandTyped
  <1>3. /\ \/ UNCHANGED content
           \/ content' = [content EXCEPT ![loops[c.loop].file] = [fs |-> c.fs, key |-> c.key]]
        /\ Goto("cmd", l) \/ Goto("cmd", "down_dm")
        /\ UNCHANGED <<file, secureArea, deviceVars, mActiveContainers, call, disturbed>>
    BY DEF Format
  <1>4. content' \in [Images -> [fs : {"blank", "none", "fat", "ext4"}, key : BOOLEAN]]
    BY <1>2, <1>3, Typed
  <1>5. Control'
    <2>1. "down_dm" \in Making /\ l \in Making /\ l \notin {"format", "down_file", "info"}
      BY DEF Making
    <2> HIDE DEF l
    <2>2. CASE Goto("cmd", l) BY <1>1, <1>3, <2>1, <2>2, MakingGoes
    <2>3. CASE Goto("cmd", "down_dm") BY <1>1, <1>3, <2>1, <2>3, MakingGoes
    <2> QED BY <1>3, <2>2, <2>3
  <1> QED BY <1>3, <1>4, <1>5, Typed, ShapesFrom DEF deviceVars

(* One more file system on a mountpoint.                                    *)
LEMMA MountTyped ==
  ASSUME Shapes, NEW id \in Ids, NEW m \in [loop : Loop, dm : BOOLEAN, ro : BOOLEAN],
         mounts' = [mounts EXCEPT ![id] = Append(@, m)]
  PROVE  /\ mounts' \in MountStates
         /\ mounts'[id] = Append(mounts[id], m) /\ mounts'[id] # <<>>
         /\ \A j \in Ids : j # id => mounts'[j] = mounts[j]
  <1> DEFINE M == [loop : Loop, dm : BOOLEAN, ro : BOOLEAN]
             s == Append(mounts[id], m)
  <1>1. mounts \in [Ids -> Seq(M)] BY DEF Shapes, TypeOK
  <1>2. mounts[id] \in Seq(M) /\ m \in M BY <1>1
  <1> HIDE DEF M
  <1>3. s \in Seq(M) /\ s # <<>> BY <1>2, AppendProperties
  <1>4. mounts' = [mounts EXCEPT ![id] = s] OBVIOUS
  <1>5. s = Append(mounts[id], m) OBVIOUS
  <1> HIDE DEF s
  <1>6. mounts' \in [Ids -> Seq(M)] /\ mounts'[id] = s
        /\ \A j \in Ids : j # id => mounts'[j] = mounts[j]
    BY <1>1, <1>3, <1>4
  <1> QED BY <1>3, <1>5, <1>6 DEF MountStates, M

\* The device is mounted at the mountpoint: keeps Shapes.
LEMMA MountDeviceShapes ==
  ASSUME ContainerAssumption, Shapes, MountDevice
  PROVE  Shapes'
  <1> DEFINE c == call["cmd"]
             k == IF c.key THEN dms[c.id] ELSE c.loop
             m == [loop |-> k, dm |-> c.key, ro |-> c.op = "mount"]
  <1>1. pc["cmd"] = "mount" /\ pc["cmd"] \in Making BY DEF MountDevice, Making
  <1>2. c.id \in Ids /\ c.key \in BOOLEAN BY <1>1, CommandTyped
  <1>3. /\ \/ UNCHANGED mounts
           \/ Mountable(c, k) /\ mounts' = [mounts EXCEPT ![c.id] = Append(@, m)]
        /\ Goto("cmd", "push") \/ Goto("cmd", "down_dm")
        /\ UNCHANGED <<fileVars, loops, dms, held, mActiveContainers, call, disturbed>>
    BY DEF MountDevice
  <1>4. mounts' \in MountStates
    <2>1. CASE UNCHANGED mounts BY <2>1, Typed
    <2>2. CASE Mountable(c, k) /\ mounts' = [mounts EXCEPT ![c.id] = Append(@, m)]
      <3>1. k \in Loop BY <2>2 DEF Mountable
      <3>2. m \in [loop : Loop, dm : BOOLEAN, ro : BOOLEAN] BY <1>2, <3>1
      <3> HIDE DEF m
      <3> QED BY <1>2, <2>2, <3>2, MountTyped
    <2> QED BY <1>3, <2>1, <2>2
  <1>5. Control'
    <2>1. "push" \in Making /\ "down_dm" \in Making BY DEF Making
    <2>2. CASE Goto("cmd", "push") BY <1>1, <1>3, <2>1, <2>2, MakingGoes
    <2>3. CASE Goto("cmd", "down_dm") BY <1>1, <1>3, <2>1, <2>3, MakingGoes
    <2> QED BY <1>3, <2>2, <2>3
  <1> QED BY <1>3, <1>4, <1>5, Typed, ShapesFrom DEF fileVars

\* A container that is mounted enters the list: keeps Shapes.
LEMMA ListContainerShapes ==
  ASSUME ContainerAssumption, Shapes, ListContainer
  PROVE  Shapes'
  <1>1. pc["cmd"] \in Making BY DEF ListContainer, Making
  <1>2. call["cmd"].id \in Ids BY <1>1, CommandTyped
  <1>3. mActiveContainers' \in Seq(Ids)
    BY <1>2, Typed, AppendProperties DEF ListContainer
  <1>4. Control' BY Typed, Returns DEF ListContainer
  <1>5. UNCHANGED <<fileVars, deviceVars, disturbed>> BY DEF ListContainer
  <1> QED BY <1>3, <1>4, <1>5, Typed, ShapesFrom DEF fileVars, deviceVars

\* An error takes the device mapper device away: keeps Shapes.
LEMMA TakeDownDmShapes ==
  ASSUME ContainerAssumption, Shapes, TakeDownDm
  PROVE  Shapes'
  <1>1. pc["cmd"] = "down_dm" /\ pc["cmd"] \in Making BY DEF TakeDownDm, Making
  <1>2. dms' \in DmStates BY Typed, DevicesTyped DEF TakeDownDm
  <1>3. loops' \in LoopStates BY Typed, DevicesTyped DEF TakeDownDm
  <1>4. Control'
    <2>1. "down_loop" \in Making BY DEF Making
    <2> QED BY <1>1, <2>1, MakingGoes DEF TakeDownDm
  <1>5. UNCHANGED <<fileVars, mounts, held, mActiveContainers, disturbed>> BY DEF TakeDownDm
  <1> QED BY <1>2, <1>3, <1>4, <1>5, Typed, ShapesFrom DEF fileVars

\* An error takes the loop device away: keeps Shapes.
LEMMA TakeDownLoopShapes ==
  ASSUME ContainerAssumption, Shapes, TakeDownLoop
  PROVE  Shapes'
  <1>1. pc["cmd"] = "down_loop" /\ pc["cmd"] \in Making BY DEF TakeDownLoop, Making
  <1>2. call["cmd"].loop \in Loop BY <1>1, CommandTyped
  <1>3. loops' \in LoopStates BY <1>2, Typed, DevicesTyped DEF TakeDownLoop
  <1>4. Control'
    <2>1. "down_file" \in Making BY DEF Making
    <2>2. CASE call["cmd"].op = "create" BY <1>1, <2>1, <2>2, MakingGoes DEF TakeDownLoop
    <2>3. CASE call["cmd"].op # "create" BY <2>3, Typed, Returns DEF TakeDownLoop
    <2> QED BY <2>2, <2>3
  <1>5. UNCHANGED <<fileVars, dms, mounts, held, mActiveContainers, disturbed>> BY DEF TakeDownLoop
  <1> QED BY <1>3, <1>4, <1>5, Typed, ShapesFrom DEF fileVars

(* The file of a create that has failed, and of a destroy.                  *)
LEMMA UnlinkShapes ==
  ASSUME ContainerAssumption, Shapes, TakeDownFile \/ DestroyUnlinks
  PROVE  Shapes'
  <1>1. /\ pc["cmd"] \in {"down_file", "unlink"}
        /\ file' = Unlinked(call["cmd"].id, call["cmd"].dir)
        /\ Return("cmd")
        /\ UNCHANGED <<content, secureArea, deviceVars, mActiveContainers, disturbed>>
    BY DEF TakeDownFile, DestroyUnlinks
  <1>2. call["cmd"].id \in AsecIds BY <1>1, Typed DEF Shape, Making
  <1>3. call["cmd"].dir \in Directory BY Typed DEF Call
  <1>4. file' \in [AsecIds -> [Directory -> Images \cup {None}]] BY <1>1, <1>2, <1>3, Typed, FilesTyped
  <1>5. Control' BY <1>1, Typed, Returns
  <1> QED BY <1>1, <1>4, <1>5, Typed, ShapesFrom DEF deviceVars

-----------------------------------------------------------------------------
(* The steps of an unmount and of a cleanup, by either thread.              *)

(* A thread between two points of an unmount.                               *)
LEMMA UnmountGoes ==
  ASSUME Shapes, NEW t \in Thread, pc[t] \in Unmounting, NEW l \in Unmounting,
         Goto(t, l), UNCHANGED call
  PROVE  /\ Control' /\ pc'[t] = l
         /\ \A u \in Thread : u # t => pc'[u] = pc[u]
  <1>1. pc[t] \notin {"idle", "next"} BY DEF Unmounting
  <1>2. Shape(l, call[t]) BY <1>1, Typed DEF Shape, Making, Unmounting
  <1>3. t = "net" => NetShape(l, call[t])
    BY <1>1, Typed DEF Control, NetShape, CleanupPart
  <1>4. l \in Place BY DEF Place
  <1>5. pc' = [pc EXCEPT ![t] = l] BY DEF Goto
  <1>6. Control BY Typed
  <1> QED BY <1>2, <1>3, <1>4, <1>5, <1>6, Goes

(* An id whose entry is freed is noted for the cleanup of the other thread. *)
LEMMA EntryFreedTyped ==
  ASSUME Control, NEW t \in Thread, NEW id \in Ids
  PROVE  LET c == EntryFreed(t, id)
         IN /\ c \in [Thread -> Call]
            /\ c[t] = call[t]
            /\ \A u \in Thread : Shape(pc[u], c[u])
            /\ \A u \in Thread : /\ c[u].op = call[u].op /\ c[u].id = call[u].id
                                 /\ c[u].todo = call[u].todo
            /\ \A u \in Thread : pc[u] = "idle" => c[u] = call[u]
  <1> DEFINE c == EntryFreed(t, id)
             u == Other(t)
             e == [call[u] EXCEPT !.freed = @ \cup {id}]
  <1>1. u \in Thread /\ u # t BY Others DEF Thread
  <1>2. call \in [Thread -> Call] /\ \A v \in Thread : Shape(pc[v], call[v]) BY DEF Control
  <1>3. call[u] \in Call BY <1>1, <1>2
  <1> HIDE DEF u
  <1>4. /\ e \in Call /\ e.op = call[u].op /\ e.id = call[u].id /\ e.todo = call[u].todo
        /\ e.fs = call[u].fs
    BY <1>3 DEF Call
  <1>5. CASE c = call
    <2> HIDE DEF c
    <2> QED BY <1>2, <1>5 DEF c
  <1>6. CASE c # call
    <2>1. call[u].op = "cleanup" /\ c = [call EXCEPT ![u].freed = @ \cup {id}]
      BY <1>6 DEF EntryFreed, u
    <2>2. c = [call EXCEPT ![u] = e] BY <2>1
    <2>3. pc[u] # "idle" BY <1>1, <1>2, <2>1 DEF Shape, NoCall
    <2>4. Shape(pc[u], e) BY <1>1, <1>2, <1>4, <2>3 DEF Shape
    <2> HIDE DEF c, e
    <2>5. c \in [Thread -> Call] /\ c[u] = e /\ \A v \in Thread : v # u => c[v] = call[v]
      BY <1>1, <1>2, <1>4, <2>2
    <2> QED BY <1>1, <1>2, <1>4, <2>3, <2>4, <2>5 DEF c
  <1> QED BY <1>5, <1>6

(* What follows an unmount, whichever entries are freed.                    *)
LEMMA AfterUnmountMoves ==
  ASSUME ContainerAssumption, Control, NEW t \in Thread, pc[t] \in Unmounting,
         NEW ok \in BOOLEAN, NEW c \in [Thread -> Call], c[t] = call[t],
         \A u \in Thread : Shape(pc[u], c[u]), \A u \in Thread : c[u].op = call[u].op,
         AfterUnmount(t, ok, c)
  PROVE  /\ Control'
         /\ \A u \in Thread : u # t => pc'[u] = pc[u] /\ call'[u] = c[u]
         /\ \/ call[t].op \in {"cleanup", "unmountAll"} /\ pc'[t] = "next" /\ call'[t] = call[t]
            \/ call[t].op = "destroy" /\ ok /\ pc'[t] = "unlink" /\ call'[t] = call[t]
            \/ /\ call[t].op = "unmount" \/ (call[t].op = "destroy" /\ ~ok)
               /\ pc'[t] = "idle" /\ call'[t] = NoCall
  <1>1. pc \in [Thread -> Place] /\ Shape(pc[t], call[t]) BY DEF Control
  <1>2. pc[t] # "idle" /\ pc[t] # "next" BY DEF Unmounting
  <1>3. t = "net" => call[t].op = "cleanup" BY <1>2 DEF Control, NetShape
  <1>4. PICK l \in {"next", "unlink", "idle"}, n \in {call[t], NoCall} :
          /\ pc' = [pc EXCEPT ![t] = l]
          /\ call' = [c EXCEPT ![t] = n]
          /\ \/ call[t].op \in {"cleanup", "unmountAll"} /\ l = "next" /\ n = call[t]
             \/ call[t].op = "destroy" /\ ok /\ l = "unlink" /\ n = call[t]
             \/ /\ call[t].op = "unmount" \/ (call[t].op = "destroy" /\ ~ok)
                /\ l = "idle" /\ n = NoCall
    <2>1. c = [c EXCEPT ![t] = call[t]] OBVIOUS
    <2> QED BY <2>1 DEF AfterUnmount, Goto
  <1>5. n \in Call BY NoCallTyped DEF Control
  <1>6. pc' \in [Thread -> Place] /\ pc'[t] = l /\ \A u \in Thread : u # t => pc'[u] = pc[u]
    BY <1>1, <1>4 DEF Place
  <1>7. call' \in [Thread -> Call] /\ call'[t] = n /\ \A u \in Thread : u # t => call'[u] = c[u]
    BY <1>4, <1>5
  <1>8. Shape(l, n)
    BY <1>1, <1>2, <1>4 DEF Shape, Making, Unmounting, NoCall
  <1>9. \A u \in Thread : Shape(pc'[u], call'[u]) BY <1>6, <1>7, <1>8
  <1>10. NetShape(pc'["net"], call'["net"])
    <2>1. "net" \in Thread BY DEF Thread
    <2>2. CASE t = "net" BY <2>2, <1>3, <1>4, <1>6, <1>7 DEF NetShape, CleanupPart
    <2>3. CASE t # "net" BY <2>1, <2>3, <1>6, <1>7 DEF Control, NetShape
    <2> QED BY <2>2, <2>3
  <1>11. Control' BY <1>6, <1>7, <1>9, <1>10 DEF Control
  <1> QED BY <1>4, <1>6, <1>7, <1>11

\* An unmount asks for the image and the mountpoint: keeps Shapes.
LEMMA UnmountChecksShapes ==
  ASSUME ContainerAssumption, Shapes, NEW t \in Thread, UnmountChecks(t)
  PROVE  Shapes'
  <1>1. pc[t] \in Unmounting BY DEF UnmountChecks, Unmounting
  <1>2. UNCHANGED <<fileVars, deviceVars, mActiveContainers, disturbed>> BY DEF UnmountChecks
  <1>3. \/ Goto(t, "um_detach") /\ UNCHANGED call
        \/ AfterUnmount(t, FALSE, call)
    BY DEF UnmountChecks
  <1>4. Control'
    <2>1. CASE Goto(t, "um_detach") /\ UNCHANGED call
      <3>1. "um_detach" \in Unmounting BY DEF Unmounting
      <3> QED BY <1>1, <2>1, <3>1, UnmountGoes
    <2>2. CASE AfterUnmount(t, FALSE, call)
      <3>1. call \in [Thread -> Call] BY Typed DEF Control
      <3> QED BY <1>1, <2>2, <3>1, Typed, AfterUnmountMoves
    <2> QED BY <1>3, <2>1, <2>2
  <1> QED BY <1>2, <1>4, Typed, ShapesFrom DEF fileVars, deviceVars

(* The file system on top of a mountpoint is taken off.                     *)
LEMMA UnmountTyped ==
  ASSUME Shapes, NEW id \in Ids, Mounted(id), mounts' = [mounts EXCEPT ![id] = Front(@)]
  PROVE  /\ mounts' \in MountStates
         /\ Last(mounts[id]) \in [loop : Loop, dm : BOOLEAN, ro : BOOLEAN]
         /\ Len(mounts[id]) <= 1 => mounts'[id] = <<>>
         /\ \A j \in Ids : j # id => mounts'[j] = mounts[j]
  <1> DEFINE M == [loop : Loop, dm : BOOLEAN, ro : BOOLEAN]
             s == Front(mounts[id])
  <1>1. mounts \in [Ids -> Seq(M)] BY DEF Shapes, TypeOK
  <1>2. mounts[id] \in Seq(M) /\ mounts[id] # <<>> BY <1>1 DEF Mounted
  <1> HIDE DEF M
  <1>3. s \in Seq(M) /\ Last(mounts[id]) \in M /\ (Len(mounts[id]) <= 1 => s = <<>>)
    BY <1>2, FrontLast
  <1>4. mounts' = [mounts EXCEPT ![id] = s] OBVIOUS
  <1> HIDE DEF s
  <1>5. mounts' \in [Ids -> Seq(M)] /\ mounts'[id] = s
        /\ \A j \in Ids : j # id => mounts'[j] = mounts[j]
    BY <1>1, <1>3, <1>4
  <1> QED BY <1>3, <1>5 DEF MountStates, M

\* An unmount unmounts: keeps Shapes.
LEMMA UnmountDetachesShapes ==
  ASSUME ContainerAssumption, Shapes, NEW t \in Thread, UnmountDetaches(t)
  PROVE  Shapes'
  <1> DEFINE id == call[t].id
             top == Last(mounts[id])
  <1>1. pc[t] = "um_detach" /\ pc[t] \in Unmounting /\ id \in Ids
    BY Typed DEF UnmountDetaches, Unmounting, Shape
  <1>2. \/ UNCHANGED <<mounts, held>>
        \/ /\ Mounted(id) /\ mounts' = [mounts EXCEPT ![id] = Front(@)]
           /\ \/ UNCHANGED held
              \/ held' = held \cup {[id |-> id, loop |-> top.loop, dm |-> top.dm]}
    BY DEF UnmountDetaches
  <1>3. /\ mounts' \in MountStates
        /\ held' \subseteq [id : Ids, loop : Loop, dm : BOOLEAN]
    <2>1. CASE UNCHANGED <<mounts, held>> BY <2>1, Typed
    <2>2. CASE ~UNCHANGED <<mounts, held>>
      <3>1. mounts' \in MountStates /\ top \in [loop : Loop, dm : BOOLEAN, ro : BOOLEAN]
        BY <1>1, <1>2, <2>2, UnmountTyped
      <3>2. [id |-> id, loop |-> top.loop, dm |-> top.dm] \in [id : Ids, loop : Loop, dm : BOOLEAN]
        BY <1>1, <3>1
      <3> QED BY <1>2, <3>1, <3>2, Typed
    <2> QED BY <2>1, <2>2
  <1>4. /\ disturbed' \subseteq {"overlap", "open"}
        /\ UNCHANGED <<fileVars, dms, mActiveContainers, call>>
    BY Typed DEF UnmountDetaches
  <1>5. loops' \in LoopStates BY Typed, DevicesTyped DEF UnmountDetaches
  <1>6. Control'
    <2>1. "um_dm" \in Unmounting BY DEF Unmounting
    <2> QED BY <1>1, <1>4, <2>1, UnmountGoes DEF UnmountDetaches
  <1> QED BY <1>3, <1>4, <1>5, <1>6, Typed, ShapesFrom DEF fileVars

\* An unmount destroys the device mapper device: keeps Shapes.
LEMMA UnmountDestroysDmShapes ==
  ASSUME ContainerAssumption, Shapes, NEW t \in Thread, UnmountDestroysDm(t)
  PROVE  Shapes'
  <1>1. pc[t] \in Unmounting /\ "um_loop" \in Unmounting BY DEF UnmountDestroysDm, Unmounting
  <1>2. dms' \in DmStates BY Typed, DevicesTyped DEF UnmountDestroysDm
  <1>3. loops' \in LoopStates BY Typed, DevicesTyped DEF UnmountDestroysDm
  <1>4. UNCHANGED <<fileVars, mounts, held, mActiveContainers, call, disturbed>>
    BY DEF UnmountDestroysDm
  <1>5. Control' BY <1>1, <1>4, UnmountGoes DEF UnmountDestroysDm
  <1> QED BY <1>2, <1>3, <1>4, <1>5, Typed, ShapesFrom DEF fileVars

\* An unmount destroys the loop device: keeps Shapes.
LEMMA UnmountDestroysLoopShapes ==
  ASSUME ContainerAssumption, Shapes, NEW t \in Thread, UnmountDestroysLoop(t)
  PROVE  Shapes'
  <1>1. pc[t] \in Unmounting /\ "um_erase" \in Unmounting BY DEF UnmountDestroysLoop, Unmounting
  <1>2. UNCHANGED loops \/ \E k \in Loop : Clear(k)
    BY LookupsTyped DEF UnmountDestroysLoop
  <1>3. loops' \in LoopStates BY <1>2, Typed, DevicesTyped
  <1>4. UNCHANGED <<fileVars, dms, mounts, held, mActiveContainers, call, disturbed>>
    BY DEF UnmountDestroysLoop
  <1>5. Control' BY <1>1, <1>4, UnmountGoes DEF UnmountDestroysLoop
  <1> QED BY <1>3, <1>4, <1>5, Typed, ShapesFrom DEF fileVars

(* What the unlisting of a container does to the control.                   *)
LEMMA UnlistsMoves ==
  ASSUME ContainerAssumption, Shapes, NEW t \in Thread, UnmountUnlists(t)
  PROVE  /\ Control'
         /\ pc[t] = "um_erase" /\ call[t].id \in Ids
         /\ \E c \in [Thread -> Call] :
              /\ \A u \in Thread : /\ c[u].op = call[u].op /\ c[u].id = call[u].id
                                   /\ c[u].todo = call[u].todo
                                   /\ pc[u] = "idle" => c[u] = call[u]
              /\ \A u \in Thread : u # t => pc'[u] = pc[u] /\ call'[u] = c[u]
         /\ \/ call[t].op \in {"cleanup", "unmountAll"} /\ pc'[t] = "next" /\ call'[t] = call[t]
            \/ call[t].op = "destroy" /\ pc'[t] = "unlink" /\ call'[t] = call[t]
            \/ call[t].op = "unmount" /\ pc'[t] = "idle" /\ call'[t] = NoCall
  <1> DEFINE c == IF Contains(mActiveContainers, call[t].id)
                  THEN EntryFreed(t, call[t].id) ELSE call
  <1>1. pc[t] = "um_erase" /\ pc[t] \in Unmounting BY DEF UnmountUnlists, Unmounting
  <1>2. call[t].id \in Ids BY <1>1, Typed DEF Shape
  <1>3. /\ c \in [Thread -> Call]
        /\ c[t] = call[t]
        /\ \A u \in Thread : Shape(pc[u], c[u])
        /\ \A u \in Thread : /\ c[u].op = call[u].op /\ c[u].id = call[u].id
                             /\ c[u].todo = call[u].todo
        /\ \A u \in Thread : pc[u] = "idle" => c[u] = call[u]
    <2>1. CASE c = call
      <3> HIDE DEF c
      <3>1. call \in [Thread -> Call] BY Typed DEF Control
      <3> QED BY <2>1, <3>1, Typed
    <2>2. CASE c = EntryFreed(t, call[t].id)
      <3> HIDE DEF c
      <3> QED BY <2>2, <1>2, Typed, EntryFreedTyped
    <2> QED BY <2>1, <2>2
  <1>4. AfterUnmount(t, TRUE, c) BY DEF UnmountUnlists
  <1> HIDE DEF c
  <1>5. /\ Control'
        /\ \A u \in Thread : u # t => pc'[u] = pc[u] /\ call'[u] = c[u]
        /\ \/ call[t].op \in {"cleanup", "unmountAll"} /\ pc'[t] = "next" /\ call'[t] = call[t]
           \/ call[t].op = "destroy" /\ pc'[t] = "unlink" /\ call'[t] = call[t]
           \/ call[t].op = "unmount" /\ pc'[t] = "idle" /\ call'[t] = NoCall
    <2>1. Control BY Typed
    <2>2. /\ c[t] = call[t] /\ \A u \in Thread : Shape(pc[u], c[u])
          /\ \A u \in Thread : c[u].op = call[u].op
      BY <1>3
    <2>3. PICK ok \in BOOLEAN : ok /\ AfterUnmount(t, ok, c) BY <1>4
    <2>4. /\ Control'
          /\ \A u \in Thread : u # t => pc'[u] = pc[u] /\ call'[u] = c[u]
          /\ \/ call[t].op \in {"cleanup", "unmountAll"} /\ pc'[t] = "next" /\ call'[t] = call[t]
             \/ call[t].op = "destroy" /\ ok /\ pc'[t] = "unlink" /\ call'[t] = call[t]
             \/ /\ call[t].op = "unmount" \/ (call[t].op = "destroy" /\ ~ok)
                /\ pc'[t] = "idle" /\ call'[t] = NoCall
      <3>1. PICK d \in [Thread -> Call] : d = c BY <1>3
      <3>2. /\ d[t] = call[t] /\ \A u \in Thread : Shape(pc[u], d[u])
            /\ \A u \in Thread : d[u].op = call[u].op
            /\ AfterUnmount(t, ok, d)
        BY <2>2, <2>3, <3>1
      <3>3. /\ Control'
            /\ \A u \in Thread : u # t => pc'[u] = pc[u] /\ call'[u] = d[u]
            /\ \/ call[t].op \in {"cleanup", "unmountAll"} /\ pc'[t] = "next" /\ call'[t] = call[t]
               \/ call[t].op = "destroy" /\ ok /\ pc'[t] = "unlink" /\ call'[t] = call[t]
               \/ /\ call[t].op = "unmount" \/ (call[t].op = "destroy" /\ ~ok)
                  /\ pc'[t] = "idle" /\ call'[t] = NoCall
        BY <1>1, <2>1, <3>2, AfterUnmountMoves
      <3> QED BY <3>1, <3>3
    <2> QED BY <2>3, <2>4
  <1> QED BY <1>1, <1>2, <1>3, <1>5

\* An unmount takes the container off the list: keeps Shapes.
LEMMA UnmountUnlistsShapes ==
  ASSUME ContainerAssumption, Shapes, NEW t \in Thread, UnmountUnlists(t)
  PROVE  Shapes'
  <1>1. Control' BY UnlistsMoves
  <1>2. UNCHANGED <<fileVars, deviceVars, disturbed>> BY DEF UnmountUnlists
  <1>3. mActiveContainers' \in Seq(Ids) BY Typed, RemoveFirstContains DEF UnmountUnlists
  <1> QED BY <1>1, <1>2, <1>3, Typed, ShapesFrom DEF fileVars, deviceVars

(* What the next step of a cleanup does to the control.                     *)
LEMMA NextContainerMoves ==
  ASSUME ContainerAssumption, Shapes, NEW t \in Thread, NextContainer(t)
  PROVE  LET id == Head(call[t].todo)
         IN /\ Control'
            /\ pc[t] = "next" /\ call[t].todo \in Seq(Ids) /\ call[t].todo # <<>> /\ id \in Ids
            /\ call'[t] = [call[t] EXCEPT !.todo = Tail(@), !.id = id]
            /\ pc'[t] = "um_check" \/ (id \in call[t].freed /\ pc'[t] = "next")
            /\ \A u \in Thread : u # t => pc'[u] = pc[u] /\ call'[u] = call[u]
  <1> DEFINE id == Head(call[t].todo)
             c == [call[t] EXCEPT !.todo = Tail(@), !.id = id]
  <1>1. pc[t] = "next" /\ call[t].todo # <<>> BY DEF NextContainer
  <1>2. call[t] \in Call /\ Shape(pc[t], call[t]) BY Typed
  <1>3. call[t].todo \in Seq(Ids) BY <1>2 DEF Call
  <1>4. id \in Ids /\ Tail(call[t].todo) \in Seq(Ids) BY <1>1, <1>3, ContainsHeadTail
  <1>5. /\ call' = [call EXCEPT ![t] = c]
        /\ Goto(t, "um_check") \/ (id \in call[t].freed /\ UNCHANGED pc)
    BY DEF NextContainer
  <1> HIDE DEF id
  <1>6. c \in Call /\ c.op = call[t].op /\ c.id = id BY <1>2, <1>4 DEF Call
  <1>7. PICK l \in {"um_check", "next"} :
          /\ pc' = [pc EXCEPT ![t] = l]
          /\ l = "um_check" \/ (id \in call[t].freed /\ l = "next")
    <2>1. pc = [pc EXCEPT ![t] = "next"] BY <1>1, Typed DEF Control
    <2> QED BY <1>5, <2>1 DEF Goto
  <1>8. c = [call[t] EXCEPT !.todo = Tail(@), !.id = id] OBVIOUS
  <1> HIDE DEF c
  <1>9. Shape(l, c) BY <1>1, <1>2, <1>4, <1>6 DEF Shape, Making, Unmounting
  <1>10. t = "net" => NetShape(l, c)
    BY <1>1, <1>6, Typed DEF Control, NetShape, CleanupPart, Unmounting
  <1>11. l \in Place BY DEF Place, Unmounting
  <1>12. Control BY Typed
  <1>13. /\ Control' /\ pc'[t] = l /\ call'[t] = c
         /\ \A u \in Thread : u # t => pc'[u] = pc[u] /\ call'[u] = call[u]
    BY <1>5, <1>6, <1>7, <1>9, <1>10, <1>11, <1>12, Moves
  <1> QED BY <1>1, <1>3, <1>4, <1>7, <1>8, <1>13 DEF id

\* The next of several containers is unmounted: keeps Shapes.
LEMMA NextContainerShapes ==
  ASSUME ContainerAssumption, Shapes, NEW t \in Thread, NextContainer(t)
  PROVE  Shapes'
  <1>1. Control' BY NextContainerMoves
  <1>2. UNCHANGED <<fileVars, deviceVars, mActiveContainers, disturbed>> BY DEF NextContainer
  <1> QED BY <1>1, <1>2, Typed, ShapesFrom DEF fileVars, deviceVars

\* The last of several containers is done: keeps Shapes.
LEMMA LastContainerShapes ==
  ASSUME ContainerAssumption, Shapes, NEW t \in Thread, LastContainer(t)
  PROVE  Shapes'
  <1>1. Control' BY Typed, Returns DEF LastContainer
  <1>2. UNCHANGED <<file, content, deviceVars, mActiveContainers, disturbed>> BY DEF LastContainer
  <1>3. secureArea' \in {"unbound", "bound", "gone"} BY Typed DEF LastContainer
  <1> QED BY <1>1, <1>2, <1>3, Typed, ShapesFrom DEF deviceVars

(* The volume, its disk, and the applications.                              *)
LEMMA EnvironmentShapes ==
  ASSUME ContainerAssumption, Shapes, Environment
  PROVE  Shapes'
  <1>1. UNCHANGED <<content, dms, mounts, mActiveContainers, threadVars, disturbed>>
    BY DEF Environment, BindSecureArea, DiskPulled, CloseFiles, deviceVars, fileVars
  <1>2. Control' BY <1>1, Typed DEF Control, threadVars
  <1>3. CASE BindSecureArea
    <2>1. secureArea' = "bound" /\ UNCHANGED deviceVars BY <1>3 DEF BindSecureArea
    <2>2. file' \in [AsecIds -> [Directory -> Images \cup {None}]]
      <3> DEFINE D == [Directory -> Images \cup {None}]
                 g(id) == [file[id] EXCEPT !["ext"] = None]
      <3>1. file \in [AsecIds -> D] BY Typed
      <3>2. \A id \in AsecIds : g(id) \in D BY <3>1
      <3>3. file' = file \/ file' = [id \in AsecIds |-> g(id)] BY <1>3 DEF BindSecureArea
      <3> HIDE DEF D, g
      <3>4. file' \in [AsecIds -> D] BY <3>1, <3>2, <3>3
      <3> QED BY <3>4 DEF D
    <2> QED BY <1>1, <1>2, <2>1, <2>2, Typed, ShapesFrom DEF deviceVars
  <1>4. CASE DiskPulled
    <2>1. secureArea' = "gone" /\ UNCHANGED <<file, deviceVars>> BY <1>4 DEF DiskPulled
    <2> QED BY <1>1, <1>2, <2>1, Typed, ShapesFrom DEF deviceVars
  <1>5. CASE CloseFiles
    <2>1. UNCHANGED fileVars /\ held' \subseteq held BY <1>5 DEF CloseFiles
    <2>2. loops' \in LoopStates BY <1>5, Typed, DevicesTyped DEF CloseFiles
    <2> QED BY <1>1, <1>2, <2>1, <2>2, Typed, ShapesFrom DEF fileVars
  <1> QED BY <1>3, <1>4, <1>5 DEF Environment

\* Nothing changes: keeps Shapes.
LEMMA StutterShapes ==
  ASSUME Shapes, UNCHANGED vars
  PROVE  Shapes'
  <1>1. Control' BY Typed DEF Control, vars, threadVars
  <1> QED BY <1>1, Typed, ShapesFrom DEF vars, fileVars, deviceVars

\* Shapes holds of a device that has just booted.
LEMMA ShapesInit ==
  ASSUME ContainerAssumption, Init
  PROVE  Shapes
  <1>1. /\ pc \in [Thread -> Place] /\ \A t \in Thread : pc[t] = "idle"
        /\ call \in [Thread -> Call] /\ \A t \in Thread : call[t] = NoCall
    BY NoCallTyped DEF Init, Place
  <1>2. Shape("idle", NoCall) /\ NetShape("idle", NoCall)
    BY DEF Shape, NetShape, Making, Unmounting, CleanupPart
  <1>3. Control BY <1>1, <1>2 DEF Control, Thread
  <1>4. \A t \in Thread : call[t].todo \in Seq(Ids) /\ call[t].loop \in Loop
    BY <1>1 DEF Call
  <1>5. loops \in LoopStates BY DEF Init, FreeLoop, LoopStates
  <1>6. mounts \in [Ids -> Seq([loop : Loop, dm : BOOLEAN, ro : BOOLEAN])]
        /\ mActiveContainers \in Seq(Ids)
    BY EmptySeq DEF Init
  <1>7. /\ file \in [AsecIds -> [Directory -> Images \cup {None}]]
        /\ content \in [Images -> [fs : {"blank", "none", "fat", "ext4"}, key : BOOLEAN]]
        /\ secureArea \in {"unbound", "bound", "gone"}
        /\ dms \in [Ids -> Loop \cup {NoDevice, NoTable}]
        /\ held \subseteq [id : Ids, loop : Loop, dm : BOOLEAN]
        /\ disturbed \subseteq {"overlap", "open"}
    BY DEF Init
  <1> QED BY <1>3, <1>4, <1>5, <1>6, <1>7 DEF Shapes, TypeOK, LoopStates

\* One case for each action: every step keeps Shapes.
LEMMA ShapesNext ==
  ASSUME ContainerAssumption, Shapes, [Next]_vars
  PROVE  Shapes'
  <1>1. CASE StartCommand
    BY <1>1, StartCreateShapes, CreateImageFailsShapes, StartMountShapes, StartUnmountShapes,
       CleanupShapes, StartUnmountAllShapes, StartDestroyShapes, RenameShapes, FinalizeShapes,
       StartFixupShapes
    DEF StartCommand
  <1>2. CASE CmdStep
    BY <1>2, GetLoopShapes, ReadSuperblockShapes, GetDmShapes, FormatShapes, MountDeviceShapes,
       ListContainerShapes, TakeDownDmShapes, TakeDownLoopShapes, UnlinkShapes, FixupSealsShapes
    DEF CmdStep
  <1>3. CASE BadRemoval BY <1>3, CleanupShapes
  <1>4. CASE Environment BY <1>4, EnvironmentShapes
  <1>5. ASSUME NEW t \in Thread, ThreadStep(t) PROVE Shapes'
    BY <1>5, UnmountChecksShapes, UnmountDetachesShapes, UnmountDestroysDmShapes,
       UnmountDestroysLoopShapes, UnmountUnlistsShapes, NextContainerShapes, LastContainerShapes
    DEF ThreadStep
  <1>6. CASE UNCHANGED vars BY <1>6, StutterShapes
  <1> QED BY <1>1, <1>2, <1>3, <1>4, <1>5, <1>6 DEF Next

(* Type correctness: every variable keeps its type, and every thread is at  *)
(* a point where its operation can be.                                      *)
THEOREM TypeCorrectness == Spec => []TypeOK
  <1>1. Init => Shapes BY ContainerAssumption, ShapesInit
  <1>2. Shapes /\ [Next]_vars => Shapes' BY ContainerAssumption, ShapesNext
  <1>3. Shapes => TypeOK BY DEF Shapes
  <1> QED BY <1>1, <1>2, <1>3, PTL DEF Spec

-----------------------------------------------------------------------------
(* The list of mounted containers.                                          *)

Overlap == "overlap" \in disturbed

\* A file of the ASEC that findAsec finds, if it answers from the disk.
Kept(id) == file[id]["int"] # None \/ (file[id]["ext"] # None /\ secureArea # "unbound")

\* What a cleanup has yet to unmount, at place l with call c.
ToDo(l, c, id) == Contains(c.todo, id) \/ (c.id = id /\ l \in {"um_check", "um_detach"})

\* No container is listed or mounted twice, and none without its file.
Listing ==
  /\ Distinct(mActiveContainers)
  /\ \A id \in Ids : Len(mounts[id]) <= 1
  /\ \A id \in AsecIds : Mounted(id) => Kept(id)

\* The list agrees with the mount table but for the container being unmounted,
\* and before a new one is listed.
ListFits(l, c) ==
  /\ \A id \in Ids : Mounted(id) <=> \/ id = c.id /\ l = "push"
                                     \/ ~(id = c.id /\ l \in Detached) /\ Contains(mActiveContainers, id)
  /\ l = "push" => ~Contains(mActiveContainers, c.id)
  /\ l \in Detached => Contains(mActiveContainers, c.id)

\* What an operation knows of its container, and a cleanup of all.
CallFits(l, c) ==
  /\ c.freed = {}
  /\ l = "um_detach" => Mounted(c.id)
  /\ l \in Making \ {"push"} \/ l = "unlink" => ~Mounted(c.id)
  /\ l \in Making /\ c.id \in AsecIds => Kept(c.id)
  /\ l # "idle" /\ c.op = "cleanup" =>
       /\ secureArea # "unbound"
       /\ \A id \in Ids : Mounted(id) /\ (id \in AsecIds => file[id]["int"] = None) => ToDo(l, c, id)

Fits(l, c) == ListFits(l, c) /\ CallFits(l, c)

\* At most one thread is busy.
Lists ==
  ~Overlap => Listing /\ \E t \in Thread : pc[Other(t)] = "idle" /\ Fits(pc[t], call[t])

\* Every lookup of a file finds it, each creation names a filesystem, and the
\* directory and /proc/mounts can be read.
ListAssumption ==
  /\ ~LostLookups /\ "none" \notin Filesystems
  /\ "opendir" \notin Failing /\ "mounts" \notin Failing

(* The thread that is busy, and its operation.                              *)
LEMMA BusyFits ==
  ASSUME Shapes, Lists, ~Overlap, NEW t \in Thread, pc[t] # "idle"
  PROVE  Listing /\ pc[Other(t)] = "idle" /\ Fits(pc[t], call[t])
  BY Others DEF Lists, Thread

(* No thread is busy.                                                       *)
LEMMA IdleFits ==
  ASSUME Shapes, Lists, ~Overlap, \A t \in Thread : pc[t] = "idle"
  PROVE  Listing /\ Fits("idle", NoCall)
  <1>1. \A t \in Thread : call[t] = NoCall BY Typed DEF Shape
  <1> QED BY <1>1 DEF Lists

(* It is enough to look at one thread when the other one is idle.           *)
LEMMA ListsFrom ==
  ASSUME Listing', NEW t \in Thread, pc'[Other(t)] = "idle", Fits(pc[t], call[t])'
  PROVE  Lists'
  <1>1. Other(t)' = Other(t) BY DEF Other
  <1> QED BY <1>1 DEF Lists

(* What findAsec answers tells whether there is a file.                     *)
LEMMA FoundKept ==
  ASSUME ContainerAssumption, ListAssumption, NEW id \in AsecIds
  PROVE  /\ "nowhere" \in Found(id) <=> ~Kept(id)
         /\ Location(id) # {} <=> Kept(id)
         /\ "int" \in Found(id) <=> file[id]["int"] # None
         /\ \A d \in Found(id) : d = "int" <=> file[id]["int"] # None
  <1>1. id \notin ObbIds BY DEF ContainerAssumption
  <1> QED BY <1>1 DEF ListAssumption, Found, Stored, MayFail, Kept, Location

(* What isMountpointMounted answers tells what is mounted.                  *)
LEMMA SeemsAsItIs ==
  ASSUME ListAssumption, NEW id
  PROVE  SeemsFree(id) <=> ~Mounted(id)
  BY DEF ListAssumption, SeemsFree, MayFail

(* A step that leaves files, mounts and list alone.                         *)
LEMMA ListsKept ==
  ASSUME UNCHANGED <<file, secureArea, mounts, mActiveContainers>>, Listing,
         NEW t \in Thread, pc'[Other(t)] = "idle", NEW l, NEW c, pc'[t] = l, call'[t] = c, Fits(l, c)
  PROVE  Lists'
  <1>1. Listing' BY DEF Listing, Mounted, Kept
  <1>2. Fits(pc[t], call[t])' BY DEF Fits, ListFits, CallFits, Mounted, Kept, ToDo
  <1> QED BY <1>1, <1>2, ListsFrom

(* Both threads are idle when a command begins.                             *)
LEMMA BeginsLists ==
  ASSUME Shapes, Lists, NEW c \in Call, NEW l \in Place, Shape(l, c), Begin(c, l), ~Overlap'
  PROVE  /\ ~Overlap /\ Listing /\ Fits("idle", NoCall)
         /\ "cmd" \in Thread /\ pc'[Other("cmd")] = "idle" /\ pc'["cmd"] = l /\ call'["cmd"] = c
  <1>1. /\ pc["cmd"] = "idle" /\ pc'["cmd"] = l /\ call'["cmd"] = c
        /\ pc'["net"] = pc["net"]
        /\ ~Overlap /\ pc["net"] = "idle"
    BY Begins DEF Overlap
  <1>2. \A t \in Thread : pc[t] = "idle" BY <1>1 DEF Thread
  <1> QED BY <1>1, <1>2, IdleFits, Others DEF Thread

(* What fits without an operation.                                          *)
LEMMA IdleMeans ==
  ASSUME Fits("idle", NoCall)
  PROVE  \A id \in Ids : Mounted(id) <=> Contains(mActiveContainers, id)
  BY DEF Fits, ListFits, Detached

\* Asec create begins, its image file made: keeps Lists.
LEMMA StartCreateLists ==
  ASSUME ContainerAssumption, ListAssumption, Shapes, Lists, StartCreate, ~Overlap'
  PROVE  Lists'
  <1>1. PICK id \in AsecIds, dir \in Directory, key \in BOOLEAN, fs \in Filesystems :
          /\ ImageCreated(id, dir)
          /\ Begin([NoCall EXCEPT !.op = "create", !.id = id, !.dir = dir, !.key = key, !.fs = fs],
                   "loop")
    BY DEF StartCreate
  <1> DEFINE c == [NoCall EXCEPT !.op = "create", !.id = id, !.dir = dir, !.key = key, !.fs = fs]
  <1>2. /\ NoCall.loop \in Loop /\ NoCall.todo \in Seq(Ids) /\ NoCall.freed = {}
        /\ fs \in {"none", "fat", "ext4"} /\ id \in Ids
    BY NoCallTyped DEF Call, NoCall, ContainerAssumption, Ids
  <1>3. c \in Call BY <1>2 DEF NoCall, Call
  <1>4. Shape("loop", c) BY <1>2 DEF NoCall, Shape, Making, Unmounting
  <1>5. "loop" \in Place BY DEF Place, Making
  <1>6. Begin(c, "loop") BY <1>1
  <1>7. c.id = id /\ c.op = "create" /\ c.freed = {} BY DEF NoCall
  <1> HIDE DEF c
  <1>8. /\ ~Overlap /\ Listing /\ Fits("idle", NoCall)
        /\ "cmd" \in Thread /\ pc'[Other("cmd")] = "idle" /\ pc'["cmd"] = "loop" /\ call'["cmd"] = c
    BY <1>3, <1>4, <1>5, <1>6, BeginsLists
  <1>9. PICK img \in Images : file' = [file EXCEPT ![id][dir] = img]
    BY <1>1 DEF ImageCreated
  <1>10. img # None BY DEF ContainerAssumption
  <1>11. /\ file'[id][dir] = img
         /\ \A i \in AsecIds, d \in Directory : i # id \/ d # dir => file'[i][d] = file[i][d]
         /\ file[id][dir] = None
    BY <1>1, <1>9, Typed DEF ImageCreated
  <1>12. dir = "int" \/ secureArea = "bound" BY <1>1 DEF ImageCreated, Writable
  <1>13. ~Mounted(id) BY <1>1, <1>8, FoundKept DEF ImageCreated, Listing
  <1>14. UNCHANGED <<secureArea, mounts, mActiveContainers>>
    BY <1>1 DEF StartCreate, deviceVars, ImageCreated
  <1>15. \A i \in Ids : Mounted(i)' <=> Mounted(i) BY <1>14 DEF Mounted
  <1>16. Kept(id)' /\ \A i \in AsecIds : Kept(i) => Kept(i)'
    BY <1>10, <1>11, <1>12, <1>14 DEF Kept, Directory
  <1>17. Listing' BY <1>8, <1>14, <1>15, <1>16 DEF Listing, Ids
  <1>18. ListFits("loop", c)' BY <1>8, <1>14, <1>15, IdleMeans DEF ListFits, Detached
  <1>19. CallFits("loop", c)'
    BY <1>2, <1>7, <1>13, <1>15, <1>16 DEF CallFits, Making
  <1>20. Fits(pc["cmd"], call["cmd"])' BY <1>8, <1>18, <1>19 DEF Fits, ListFits, CallFits
  <1> QED BY <1>8, <1>17, <1>20, ListsFrom

(* A new image is added where the ASEC is not found, or the disk fills up.   *)
LEMMA CreateImageFailsLists ==
  ASSUME ContainerAssumption, ListAssumption, Shapes, Lists, CreateImageFails, ~Overlap'
  PROVE  Lists'
  <1>1. PICK id \in AsecIds, dir \in Directory : ImageCreated(id, dir) BY DEF CreateImageFails
  <1>2. UNCHANGED <<deviceVars, mActiveContainers, threadVars, disturbed>> BY DEF CreateImageFails
  <1>3. PICK img \in Images : file' = [file EXCEPT ![id][dir] = img]
    BY <1>1 DEF ImageCreated
  <1>4. img # None BY DEF ContainerAssumption
  <1>5. /\ file'[id][dir] = img
        /\ \A i \in AsecIds, d \in Directory : i # id \/ d # dir => file'[i][d] = file[i][d]
    BY <1>3, Typed
  <1>6. secureArea' = secureArea BY <1>1 DEF ImageCreated
  <1>7. \A i \in AsecIds : /\ Kept(i) => Kept(i)'
                           /\ file'[i]["int"] = None => file[i]["int"] = None
    BY <1>4, <1>5, <1>6, <1>1 DEF Kept, Directory, ImageCreated
  <1>8. UNCHANGED <<mounts, mActiveContainers, pc, call, disturbed>> BY <1>2 DEF deviceVars, threadVars
  <1>9. PICK t \in Thread : Listing /\ pc[Other(t)] = "idle" /\ Fits(pc[t], call[t])
    BY <1>8 DEF Lists, Overlap
  <1>10. Listing' BY <1>7, <1>8, <1>9 DEF Listing, Mounted
  <1>11. ListFits(pc[t], call[t])' BY <1>8, <1>9 DEF Fits, ListFits, Mounted
  <1>12. CallFits(pc[t], call[t])'
    BY <1>6, <1>7, <1>8, <1>9 DEF Fits, CallFits, Mounted, ToDo
  <1>13. pc'[Other(t)] = "idle" BY <1>8, <1>9
  <1> QED BY <1>10, <1>11, <1>12, <1>13, ListsFrom DEF Fits

(* A command on one container that is not, or is, mounted begins.           *)
LEMMA BeginsOne ==
  ASSUME ContainerAssumption, Shapes, Lists, NEW c \in Call, NEW l \in Place, Shape(l, c),
         Begin(c, l), ~Overlap', UNCHANGED <<fileVars, deviceVars, mActiveContainers>>,
         c.freed = {}, c.op # "cleanup", l \notin Detached, l # "push", l # "um_detach",
         l \in Making \/ l = "unlink" => ~Mounted(c.id),
         l \in Making /\ c.id \in AsecIds => Kept(c.id)
  PROVE  Lists'
  <1>1. /\ Listing /\ Fits("idle", NoCall)
        /\ "cmd" \in Thread /\ pc'[Other("cmd")] = "idle" /\ pc'["cmd"] = l /\ call'["cmd"] = c
    BY BeginsLists
  <1>2. ListFits(l, c) BY <1>1, IdleMeans DEF ListFits
  <1>3. CallFits(l, c) BY DEF CallFits
  <1>4. UNCHANGED <<file, secureArea, mounts, mActiveContainers>> BY DEF fileVars, deviceVars
  <1> QED BY <1>1, <1>2, <1>3, <1>4, ListsKept DEF Fits

\* A mount begins: keeps Lists.
LEMMA StartMountLists ==
  ASSUME ContainerAssumption, ListAssumption, Shapes, Lists, StartMount, ~Overlap'
  PROVE  Lists'
  <1>1. PICK id \in Ids, key \in BOOLEAN : \E dir \in Location(id) :
          /\ ~Mounted(id)
          /\ Begin([NoCall EXCEPT !.op = "mount", !.id = id, !.dir = dir, !.key = key], "loop")
    BY SeemsAsItIs DEF StartMount
  <1>2. PICK dir \in Location(id) :
          /\ ~Mounted(id)
          /\ Begin([NoCall EXCEPT !.op = "mount", !.id = id, !.dir = dir, !.key = key], "loop")
    BY <1>1
  <1> DEFINE c == [NoCall EXCEPT !.op = "mount", !.id = id, !.dir = dir, !.key = key]
  <1>3. dir \in Directory BY FilesTyped, Typed
  <1>4. c \in Call BY <1>3, NoCallTyped DEF NoCall, Call
  <1>5. Shape("loop", c) BY DEF NoCall, Shape, Making, Unmounting
  <1>6. c.id = id /\ c.op = "mount" /\ c.freed = {} BY DEF NoCall
  <1>7. "loop" \in Place /\ "loop" \notin Detached BY DEF Place, Making, Detached
  <1>8. Begin(c, "loop") BY <1>2
  <1> HIDE DEF c
  <1>9. c.id \in AsecIds => Kept(c.id) BY <1>2, <1>6, FoundKept
  <1>10. UNCHANGED <<fileVars, deviceVars, mActiveContainers>> BY DEF StartMount
  <1> QED BY <1>2, <1>4, <1>5, <1>6, <1>7, <1>8, <1>9, <1>10, BeginsOne

\* An unmount begins: keeps Lists.
LEMMA StartUnmountLists ==
  ASSUME ContainerAssumption, Shapes, Lists, StartUnmount, ~Overlap'
  PROVE  Lists'
  <1>1. PICK id \in Ids : Begin([NoCall EXCEPT !.op = "unmount", !.id = id], "um_check")
    BY DEF StartUnmount
  <1> DEFINE c == [NoCall EXCEPT !.op = "unmount", !.id = id]
  <1>2. c \in Call BY NoCallTyped DEF NoCall, Call
  <1>3. Shape("um_check", c) BY DEF NoCall, Shape, Making, Unmounting
  <1>4. c.op = "unmount" /\ c.freed = {} BY DEF NoCall
  <1>5. "um_check" \in Place \ (Making \cup Detached)
    BY DEF Place, Making, Unmounting, Detached
  <1>6. Begin(c, "um_check") BY <1>1
  <1> HIDE DEF c
  <1>7. UNCHANGED <<fileVars, deviceVars, mActiveContainers>> BY DEF StartUnmount
  <1> QED BY <1>2, <1>3, <1>4, <1>5, <1>6, <1>7, BeginsOne

\* UnmountAllAsecsInDir selects its containers: keeps Lists.
LEMMA StartUnmountAllLists ==
  ASSUME ContainerAssumption, Shapes, Lists, StartUnmountAll, ~Overlap'
  PROVE  Lists'
  <1>1. PICK ext \in SetToSeqs(FilesIn("ext")), int \in SetToSeqs(FilesIn("int")) :
          Begin([NoCall EXCEPT !.op = "unmountAll", !.todo = ext \o int], "next")
    BY DEF StartUnmountAll
  <1> DEFINE todo == ext \o int
             c == [NoCall EXCEPT !.op = "unmountAll", !.todo = todo]
  <1>2. todo \in Seq(Ids) BY PathsTyped, ConcatProperties
  <1>3. Begin(c, "next") BY <1>1
  <1> HIDE DEF todo
  <1>4. c \in Call BY <1>2, NoCallTyped DEF NoCall, Call
  <1>5. Shape("next", c) BY DEF NoCall, Shape, Making, Unmounting
  <1>6. c.op = "unmountAll" /\ c.freed = {} BY DEF NoCall
  <1>7. "next" \in Place \ (Making \cup Detached) BY DEF Place, Making, Detached
  <1> HIDE DEF c
  <1>8. UNCHANGED <<fileVars, deviceVars, mActiveContainers>> BY DEF StartUnmountAll
  <1> QED BY <1>3, <1>4, <1>5, <1>6, <1>7, <1>8, BeginsOne

\* Asec destroy begins with an unmount, if it is mounted: keeps Lists.
LEMMA StartDestroyLists ==
  ASSUME ContainerAssumption, ListAssumption, Shapes, Lists, StartDestroy, ~Overlap'
  PROVE  Lists'
  <1>1. PICK id \in AsecIds : \E dir \in Location(id), l \in {"um_check", "unlink"} :
          /\ l = "unlink" => ~Mounted(id)
          /\ Begin([NoCall EXCEPT !.op = "destroy", !.id = id, !.dir = dir], l)
    BY SeemsAsItIs DEF StartDestroy
  <1>2. PICK dir \in Location(id), l \in {"um_check", "unlink"} :
          /\ l = "unlink" => ~Mounted(id)
          /\ Begin([NoCall EXCEPT !.op = "destroy", !.id = id, !.dir = dir], l)
    BY <1>1
  <1> DEFINE c == [NoCall EXCEPT !.op = "destroy", !.id = id, !.dir = dir]
  <1>3. dir \in Directory /\ id \in Ids BY FilesTyped, Typed DEF Ids
  <1>4. c \in Call BY <1>3, NoCallTyped DEF NoCall, Call
  <1>5. Shape(l, c) BY <1>3 DEF NoCall, Shape, Making, Unmounting
  <1>6. c.id = id /\ c.op = "destroy" /\ c.freed = {} BY DEF NoCall
  <1>7. l \in Place \ (Making \cup Detached) /\ l # "push" /\ l # "um_detach"
    BY DEF Place, Making, Unmounting, Detached
  <1>8. l = "unlink" => ~Mounted(id) BY <1>2
  <1>9. Begin(c, l) BY <1>2
  <1> HIDE DEF c
  <1>10. UNCHANGED <<fileVars, deviceVars, mActiveContainers>> BY DEF StartDestroy
  <1> QED BY <1>4, <1>5, <1>6, <1>7, <1>8, <1>9, <1>10, BeginsOne

(* A cleanup lists every mounted container that is not in the internal      *)
(* directory.                                                               *)
LEMMA CleanupLists ==
  ASSUME ContainerAssumption, ListAssumption, Shapes, Lists, ~Overlap',
         StartUnmountVolume \/ BadRemoval
  PROVE  Lists'
  <1>1. PICK t \in Thread : Cleanup(t) /\ pc[t] = "idle"
    BY DEF StartUnmountVolume, BadRemoval, Thread
  <1>2. PICK where \in [AsecIds -> {"int", "ext", "nowhere"}] :
          /\ \A id \in AsecIds : where[id] \in Found(id)
          /\ pc'[t] = "next"
          /\ call'[t] = [NoCall EXCEPT !.op = "cleanup", !.todo = Dependent(where)]
          /\ \A u \in Thread : u # t => pc'[u] = pc[u] /\ call'[u] = call[u]
    BY <1>1, CleanupMoves
  <1> DEFINE c == [NoCall EXCEPT !.op = "cleanup", !.todo = Dependent(where)]
  <1>3. ~Overlap /\ pc[Other(t)] = "idle" BY <1>1 DEF Cleanup, Overlap
  <1>4. Other(t) \in Thread /\ Other(t) # t /\ \A u \in Thread : u = t \/ u = Other(t)
    BY Others DEF Thread
  <1>5. Listing /\ Fits("idle", NoCall) BY <1>1, <1>3, <1>4, IdleFits
  <1>6. c.freed = {} /\ c.op = "cleanup" /\ c.todo = Dependent(where) BY DEF NoCall
  <1>7. call'[t] = c BY <1>2
  <1> HIDE DEF c
  <1>8. UNCHANGED <<file, secureArea, mounts, mActiveContainers>>
    BY DEF StartUnmountVolume, BadRemoval, fileVars, deviceVars
  <1>9. secureArea # "unbound" BY DEF StartUnmountVolume, BadRemoval
  <1>10. ASSUME NEW id \in Ids, Mounted(id), id \in AsecIds => file[id]["int"] = None
         PROVE  Contains(c.todo, id)
    <2>1. Contains(mActiveContainers, id) BY <1>5, <1>10, IdleMeans
    <2>2. id \in AsecIds => where[id] # "int" BY <1>2, <1>10, FoundKept
    <2> QED BY <1>6, <2>1, <2>2, Typed, DependentContains
  <1>11. ListFits("next", c) BY <1>5, IdleMeans DEF ListFits, Detached
  <1>12. CallFits("next", c) BY <1>6, <1>9, <1>10 DEF CallFits, ToDo, Making
  <1>13. pc'[Other(t)] = "idle" BY <1>2, <1>3, <1>4
  <1> QED BY <1>2, <1>5, <1>7, <1>8, <1>11, <1>12, <1>13, ListsKept DEF Fits

(* A container is renamed while neither id is mounted.                      *)
LEMMA RenameLists ==
  ASSUME ContainerAssumption, ListAssumption, Shapes, Lists, Rename, ~Overlap'
  PROVE  Lists'
  <1>1. PICK id1 \in AsecIds, id2 \in AsecIds, dir \in Directory :
          /\ ~Mounted(id1) /\ ~Mounted(id2)
          /\ file' = [file EXCEPT ![id2][dir] = file[id1][dir], ![id1][dir] = None]
    BY FilesTyped, Typed, SeemsAsItIs DEF Rename, Ids
  <1>2. \A i \in AsecIds : i # id1 /\ i # id2 => file'[i] = file[i] BY <1>1, Typed
  <1>3. UNCHANGED <<secureArea, mounts, mActiveContainers, pc, call, disturbed>> /\ pc["cmd"] = "idle"
    BY DEF Rename, deviceVars, threadVars
  <1>4. \A i \in AsecIds : Mounted(i) => file'[i] = file[i] BY <1>1, <1>2
  <1>5. PICK t \in Thread : Listing /\ pc[Other(t)] = "idle" /\ Fits(pc[t], call[t])
    BY <1>3 DEF Lists, Overlap
  <1>6. pc[t] \notin Making
    BY <1>3, Typed DEF Control, NetShape, CleanupPart, Making, Unmounting, Thread
  <1>7. Listing' BY <1>3, <1>4, <1>5 DEF Listing, Mounted, Kept
  <1>8. ListFits(pc[t], call[t])' BY <1>3, <1>5 DEF Fits, ListFits, Mounted
  <1>9. CallFits(pc[t], call[t])'
    BY <1>3, <1>4, <1>5, <1>6 DEF Fits, CallFits, Mounted, ToDo
  <1>10. pc'[Other(t)] = "idle" BY <1>3, <1>5
  <1> QED BY <1>7, <1>8, <1>9, <1>10, ListsFrom DEF Fits

(* What is mounted is mounted again, or stays as it is.                     *)
LEMMA RemountLists ==
  ASSUME Shapes, Listing, UNCHANGED <<file, secureArea, mActiveContainers>>,
         NEW id \in Ids, NEW ro \in BOOLEAN, mounts' = mounts \/ mounts' = Remounted(id, ro),
         NEW t \in Thread, pc'[Other(t)] = "idle", NEW l, NEW c, pc'[t] = l, call'[t] = c,
         Shape(l, c), Fits(l, c)
  PROVE  Lists'
  <1>1. \A j \in Ids : Len(mounts'[j]) = Len(mounts[j]) /\ (mounts'[j] = <<>> <=> mounts[j] = <<>>)
    BY RemountedTyped
  <1>2. \A j \in Ids : Mounted(j)' <=> Mounted(j) BY <1>1 DEF Mounted
  <1>3. Listing' BY <1>1, <1>2 DEF Listing, Ids, Kept
  <1>4. ListFits(pc[t], call[t])' BY <1>2 DEF Fits, ListFits
  <1>5. l \in Making \cup {"um_detach", "unlink"} => c.id \in Ids BY DEF Shape, Making
  <1>6. CallFits(pc[t], call[t])' BY <1>2, <1>5 DEF Fits, CallFits, Kept, ToDo
  <1> QED BY <1>3, <1>4, <1>6, ListsFrom DEF Fits

\* Asec finalize remounts read-only: keeps Lists.
LEMMA FinalizeLists ==
  ASSUME ContainerAssumption, Shapes, Lists, Finalize, ~Overlap'
  PROVE  Lists'
  <1>1. PICK id \in AsecIds : mounts' = mounts \/ mounts' = Remounted(id, TRUE) BY DEF Finalize
  <1>2. UNCHANGED <<file, secureArea, mActiveContainers, pc, call, disturbed>>
    BY DEF Finalize, fileVars, threadVars
  <1>3. PICK t \in Thread : Listing /\ pc[Other(t)] = "idle" /\ Fits(pc[t], call[t])
    BY <1>2 DEF Lists, Overlap
  <1>4. pc'[Other(t)] = "idle" /\ pc'[t] = pc[t] /\ call'[t] = call[t] BY <1>2, <1>3
  <1>5. id \in Ids /\ Shape(pc[t], call[t]) BY Typed DEF Ids
  <1> QED BY <1>1, <1>2, <1>3, <1>4, <1>5, RemountLists

\* Asec fixperms opens a container that is mounted: keeps Lists.
LEMMA StartFixupLists ==
  ASSUME ContainerAssumption, Shapes, Lists, StartFixup, ~Overlap'
  PROVE  Lists'
  <1>1. UNCHANGED <<file, secureArea, mActiveContainers>> BY DEF StartFixup, fileVars
  <1>2. PICK id \in AsecIds :
          \/ /\ mounts' = Remounted(id, FALSE)
             /\ Begin([NoCall EXCEPT !.op = "fixup", !.id = id], "seal")
          \/ UNCHANGED <<mounts, threadVars, disturbed>>
    BY DEF StartFixup
  <1>3. CASE Begin([NoCall EXCEPT !.op = "fixup", !.id = id], "seal")
    <2> DEFINE c == [NoCall EXCEPT !.op = "fixup", !.id = id]
    <2>1. c \in Call BY NoCallTyped DEF NoCall, Call, Ids
    <2>2. Shape("seal", c) BY DEF NoCall, Shape, Making, Unmounting, Ids
    <2>3. c.freed = {} /\ c.op = "fixup" BY DEF NoCall
    <2>4. "seal" \in Place \ (Making \cup Detached) BY DEF Place, Making, Detached
    <2>5. Begin(c, "seal") BY <1>3
    <2> HIDE DEF c
    <2>6. /\ Listing /\ Fits("idle", NoCall)
          /\ "cmd" \in Thread /\ pc'[Other("cmd")] = "idle" /\ pc'["cmd"] = "seal" /\ call'["cmd"] = c
      BY <2>1, <2>2, <2>4, <2>5, BeginsLists
    <2>7. ListFits("seal", c) BY <2>4, <2>6, IdleMeans DEF ListFits
    <2>8. CallFits("seal", c) BY <2>3, <2>4 DEF CallFits
    <2>9. id \in Ids BY DEF Ids
    <2> QED BY <1>1, <1>2, <2>2, <2>6, <2>7, <2>8, <2>9, RemountLists DEF Fits
  <1>4. CASE UNCHANGED <<mounts, threadVars, disturbed>>
    <2>1. PICK t \in Thread : Listing /\ pc[Other(t)] = "idle" /\ Fits(pc[t], call[t])
      BY <1>4 DEF Lists, Overlap
    <2>2. pc'[Other(t)] = "idle" /\ pc'[t] = pc[t] /\ call'[t] = call[t]
      BY <1>4, <2>1 DEF threadVars
    <2> QED BY <1>1, <1>4, <2>1, <2>2, ListsKept
  <1> QED BY <1>2, <1>3, <1>4

\* Asec fixperms closes it again: keeps Lists.
LEMMA FixupSealsLists ==
  ASSUME ContainerAssumption, Shapes, Lists, FixupSeals, ~Overlap'
  PROVE  Lists'
  <1> DEFINE id == call["cmd"].id
  <1>1. pc["cmd"] = "seal" /\ "cmd" \in Thread BY DEF FixupSeals, Thread
  <1>2. ~Overlap BY DEF FixupSeals, Overlap
  <1>3. Listing /\ pc[Other("cmd")] = "idle" /\ Fits("seal", call["cmd"]) BY <1>1, <1>2, BusyFits
  <1>4. id \in Ids BY <1>1, Typed DEF Shape
  <1>5. /\ pc'["cmd"] = "idle" /\ call'["cmd"] = NoCall
        /\ pc'["net"] = pc["net"]
    BY Typed, Returns DEF FixupSeals, Thread
  <1>6. UNCHANGED <<file, secureArea, mActiveContainers>> BY DEF FixupSeals, fileVars
  <1>7. Fits("idle", NoCall)
    BY <1>3 DEF Fits, ListFits, CallFits, NoCall, Detached, Making
  <1>8. Shape("idle", NoCall) BY DEF Shape, Making, Unmounting
  <1>9. pc'[Other("cmd")] = "idle" BY <1>3, <1>5, Others
  <1>10. mounts' = mounts \/ mounts' = Remounted(id, TRUE) BY DEF FixupSeals
  <1> QED BY <1>1, <1>3, <1>4, <1>5, <1>6, <1>7, <1>8, <1>9, <1>10, RemountLists

-----------------------------------------------------------------------------
(* The steps of a command.                                                  *)

(* What is known at a step of the command.                                  *)
LEMMA CommandFits ==
  ASSUME Shapes, Lists, ~Overlap, pc["cmd"] # "idle"
  PROVE  /\ Listing /\ Fits(pc["cmd"], call["cmd"])
         /\ "cmd" \in Thread /\ "net" \in Thread /\ Other("cmd") = "net" /\ pc["net"] = "idle"
  BY BusyFits, Others DEF Thread

(* An operation that has no container on its hands any more.                *)
LEMMA GivesUp ==
  ASSUME NEW l, NEW c, Fits(l, c), l # "push", l \notin Detached
  PROVE  Fits("idle", NoCall)
  BY DEF Fits, ListFits, CallFits, NoCall, Detached, Making

(* From one of these places to another, the container stays unmounted.      *)
LEMMA StaysUnmounted ==
  ASSUME NEW l \in Making \ {"push"}, NEW m \in Making \ {"push"}, NEW c, NEW d, Fits(l, c),
         c.op # "cleanup", d.op = c.op, d.id = c.id, d.freed = c.freed
  PROVE  Fits(m, d)
  <1>1. l \notin Detached /\ m \notin Detached BY DEF Making, Detached
  <1> QED BY <1>1 DEF Fits, ListFits, CallFits, Making

(* A step of the command on devices.                                        *)
LEMMA CommandLists ==
  ASSUME ContainerAssumption, Shapes, Lists, ~Overlap', UNCHANGED disturbed,
         UNCHANGED <<file, secureArea, mounts, mActiveContainers>>,
         pc["cmd"] \in Making \ {"push"}, pc'["net"] = pc["net"],
         \/ pc'["cmd"] = "idle" /\ call'["cmd"] = NoCall
         \/ /\ pc'["cmd"] \in Making \ {"push"}
            /\ \/ call'["cmd"] = call["cmd"]
               \/ \E k \in Loop : call'["cmd"] = [call["cmd"] EXCEPT !.loop = k]
  PROVE  Lists'
  <1>1. ~Overlap BY DEF Overlap
  <1>2. pc["cmd"] # "idle" BY DEF Making
  <1>3. /\ Listing /\ Fits(pc["cmd"], call["cmd"])
        /\ "cmd" \in Thread /\ Other("cmd") = "net" /\ pc["net"] = "idle"
    BY <1>1, <1>2, CommandFits
  <1>4. pc["cmd"] \notin Detached BY DEF Making, Detached
  <1>5. CASE pc'["cmd"] = "idle" /\ call'["cmd"] = NoCall
    <2>1. Fits("idle", NoCall) BY <1>3, <1>4, GivesUp
    <2> QED BY <1>3, <1>5, <2>1, ListsKept
  <1>6. CASE /\ pc'["cmd"] \in Making \ {"push"}
             /\ \/ call'["cmd"] = call["cmd"]
                \/ \E k \in Loop : call'["cmd"] = [call["cmd"] EXCEPT !.loop = k]
    <2>1. call["cmd"] \in Call /\ call["cmd"].op # "cleanup" BY CommandTyped
    <2>2. PICK d : d = call'["cmd"] OBVIOUS
    <2>3. \A k : LET e == [call["cmd"] EXCEPT !.loop = k]
                 IN e.op = call["cmd"].op /\ e.id = call["cmd"].id /\ e.freed = call["cmd"].freed
      BY <2>1 DEF Call
    <2>4. d.op = call["cmd"].op /\ d.id = call["cmd"].id /\ d.freed = call["cmd"].freed
      BY <1>6, <2>2, <2>3
    <2>5. PICK m \in Making \ {"push"} : m = pc'["cmd"] BY <1>6
    <2>6. Fits(m, d) BY <1>3, <2>1, <2>4, StaysUnmounted
    <2> QED BY <1>3, <2>2, <2>5, <2>6, ListsKept
  <1> QED BY <1>5, <1>6

\* The loop device of an image is found or made: keeps Lists.
LEMMA GetLoopLists ==
  ASSUME ContainerAssumption, Shapes, Lists, GetLoop, ~Overlap'
  PROVE  Lists'
  <1> DEFINE c == call["cmd"]
             after == IF c.op = "mount" THEN "info" ELSE IF c.key THEN "dm" ELSE "format"
             failed == IF c.op = "create" THEN Goto("cmd", "down_file") /\ UNCHANGED call
                                          ELSE Return("cmd")
  <1>1. pc["cmd"] = "loop" /\ pc["cmd"] \in Making \ {"push"} BY DEF GetLoop, Making
  <1>2. UNCHANGED <<file, secureArea, mounts, mActiveContainers, disturbed>> BY DEF GetLoop, fileVars
  <1>3. \/ \E k \in Active(c.id) : NoteLoop(k) /\ Goto("cmd", after)
        \/ LoopCreate(ImageOf(c.id, c.dir), after, failed)
    BY DEF GetLoop
  <1>4. after \in Making \ {"push"} /\ "down_file" \in Making \ {"push"} BY DEF Making
  <1> HIDE DEF after
  <1>5. \/ \E k \in Loop : NoteLoop(k) /\ Goto("cmd", after)
        \/ failed
    <2> HIDE DEF failed
    <2> QED BY <1>3, LookupsTyped DEF LoopCreate
  <1>6. pc \in [Thread -> Place] /\ call \in [Thread -> Call] /\ "cmd" \in Thread /\ "net" \in Thread
    BY Typed DEF Control
  <1>7. CASE failed
    <2>1. CASE c.op = "create"
      <3>1. pc'["net"] = pc["net"] /\ pc'["cmd"] = "down_file" /\ call' = call
        BY <1>6, <1>7, <2>1 DEF Goto
      <3> QED BY <1>1, <1>2, <1>4, <3>1, CommandLists
    <2>2. CASE c.op # "create"
      <3>1. Return("cmd") BY <1>7, <2>2
      <3>2. pc'["net"] = pc["net"] /\ pc'["cmd"] = "idle" /\ call'["cmd"] = NoCall
        BY <3>1, Typed, Returns
      <3> QED BY <1>1, <1>2, <3>2, CommandLists
    <2> QED BY <2>1, <2>2
  <1>8. ASSUME NEW k \in Loop, NoteLoop(k), Goto("cmd", after) PROVE Lists'
    <2>1. pc'["net"] = pc["net"] /\ pc'["cmd"] = after BY <1>6, <1>8 DEF Goto
    <2>2. call'["cmd"] = [call["cmd"] EXCEPT !.loop = k] BY <1>6, <1>8 DEF NoteLoop
    <2> QED BY <1>1, <1>2, <1>4, <2>1, <2>2, CommandLists
  <1> QED BY <1>5, <1>7, <1>8

(* The other steps that leave the mounts alone.                             *)
LEMMA DeviceStepLists ==
  ASSUME ContainerAssumption, ListAssumption, Shapes, Lists, ~Overlap',
         ReadSuperblock \/ GetDm \/ TakeDownDm \/ TakeDownLoop
  PROVE  Lists'
  <1>1. pc["cmd"] \in Making \ {"push"} BY DEF ReadSuperblock, GetDm, TakeDownDm, TakeDownLoop, Making
  <1>2. UNCHANGED <<file, secureArea, mounts, mActiveContainers, disturbed>>
    BY DEF ReadSuperblock, GetDm, TakeDownDm, TakeDownLoop, fileVars
  <1>3. \/ Return("cmd")
        \/ \E l \in Making \ {"push"} : Goto("cmd", l) /\ UNCHANGED call
    BY DEF ReadSuperblock, GetDm, TakeDownDm, TakeDownLoop, Making
  <1>4. pc \in [Thread -> Place] /\ "cmd" \in Thread /\ "net" \in Thread BY Typed DEF Control
  <1>5. CASE Return("cmd")
    <2>1. pc'["net"] = pc["net"] /\ pc'["cmd"] = "idle" /\ call'["cmd"] = NoCall
      BY <1>5, Typed, Returns
    <2> QED BY <1>1, <1>2, <2>1, CommandLists
  <1>6. ASSUME NEW l \in Making \ {"push"}, Goto("cmd", l), UNCHANGED call PROVE Lists'
    <2>1. pc'["net"] = pc["net"] /\ pc'["cmd"] = l BY <1>4, <1>6 DEF Goto
    <2> QED BY <1>1, <1>2, <1>6, <2>1, CommandLists
  <1> QED BY <1>3, <1>5, <1>6

(* A container without a file system, which nothing mounts, is not created. *)
LEMMA FormatLists ==
  ASSUME ContainerAssumption, ListAssumption, Shapes, Lists, Format, ~Overlap'
  PROVE  Lists'
  <1>1. pc["cmd"] = "format" /\ pc["cmd"] \in Making \ {"push"} BY DEF Format, Making
  <1>2. UNCHANGED <<file, secureArea, mounts, mActiveContainers, disturbed, call>>
    BY DEF Format, deviceVars
  <1>3. call["cmd"].fs # "none" BY <1>1, Typed, CommandTyped DEF Shape, ListAssumption
  <1>4. PICK l \in {"mount", "down_dm"} : Goto("cmd", l) BY <1>3 DEF Format
  <1>5. l \in Making \ {"push"} BY DEF Making
  <1>6. pc'["net"] = pc["net"] /\ pc'["cmd"] = l BY <1>4, Typed DEF Goto, Control
  <1> QED BY <1>1, <1>2, <1>5, <1>6, CommandLists

\* The device is mounted at the mountpoint: keeps Lists.
LEMMA MountDeviceLists ==
  ASSUME ContainerAssumption, Shapes, Lists, MountDevice, ~Overlap'
  PROVE  Lists'
  <1> DEFINE c == call["cmd"]
             k == IF c.key THEN dms[c.id] ELSE c.loop
             m == [loop |-> k, dm |-> c.key, ro |-> c.op = "mount"]
  <1>1. pc["cmd"] = "mount" /\ pc["cmd"] \in Making \ {"push"} BY DEF MountDevice, Making
  <1>2. c.id \in Ids /\ c.key \in BOOLEAN BY <1>1, CommandTyped
  <1>3. UNCHANGED <<file, secureArea, mActiveContainers, disturbed, call>> BY DEF MountDevice, fileVars
  <1>4. \/ Goto("cmd", "down_dm") /\ UNCHANGED mounts
        \/ /\ Mountable(c, k) /\ mounts' = [mounts EXCEPT ![c.id] = Append(@, m)]
           /\ Goto("cmd", "push")
    BY DEF MountDevice
  <1>5. CASE Goto("cmd", "down_dm") /\ UNCHANGED mounts
    <2>1. pc'["net"] = pc["net"] /\ pc'["cmd"] = "down_dm" BY <1>5, Typed DEF Goto, Control
    <2>2. "down_dm" \in Making \ {"push"} BY DEF Making
    <2> QED BY <1>1, <1>3, <1>5, <2>1, <2>2, CommandLists
  <1>6. CASE /\ Mountable(c, k) /\ mounts' = [mounts EXCEPT ![c.id] = Append(@, m)]
             /\ Goto("cmd", "push")
    <2>1. ~Overlap BY <1>3 DEF Overlap
    <2>2. /\ Listing /\ Fits("mount", c)
          /\ "cmd" \in Thread /\ Other("cmd") = "net" /\ pc["net"] = "idle"
      BY <1>1, <2>1, CommandFits
    <2>3. pc'["net"] = pc["net"] /\ pc'["cmd"] = "push" BY <1>6, Typed DEF Goto, Control
    <2>4. m \in [loop : Loop, dm : BOOLEAN, ro : BOOLEAN] BY <1>2, <1>6 DEF Mountable
    <2> HIDE DEF m
    <2>5. /\ mounts'[c.id] = Append(mounts[c.id], m) /\ mounts'[c.id] # <<>>
          /\ \A j \in Ids : j # c.id => mounts'[j] = mounts[j]
      BY <1>2, <1>6, <2>4, MountTyped
    <2>6. mounts[c.id] = <<>> BY <2>2 DEF Fits, CallFits, Making, Mounted
    <2>7. Len(mounts'[c.id]) <= 1
      <3> DEFINE M == [loop : Loop, dm : BOOLEAN, ro : BOOLEAN]
      <3>1. <<>> \in Seq(M) /\ Len(<<>>) = 0 BY EmptySeq
      <3> HIDE DEF M
      <3>2. m \in M BY <2>4 DEF M
      <3>3. Len(Append(<<>>, m)) = 0 + 1 BY <3>1, <3>2, AppendProperties
      <3> QED BY <2>5, <2>6, <3>3
    <2>8. \A j \in Ids : Mounted(j)' <=> j = c.id \/ Mounted(j) BY <2>5 DEF Mounted
    <2>9. Kept(c.id) \/ c.id \notin AsecIds BY <2>2 DEF Fits, CallFits, Making
    <2>10. Listing' BY <1>2, <1>3, <2>2, <2>5, <2>7, <2>8, <2>9 DEF Listing, Kept, Ids
    <2>11. ~Contains(mActiveContainers, c.id)
      BY <1>2, <2>2, <2>6 DEF Fits, ListFits, Detached, Mounted
    <2>12. ListFits("push", c)'
      BY <1>3, <2>2, <2>8, <2>11 DEF Fits, ListFits, Detached
    <2>13. CallFits("push", c)'
      BY <1>1, <1>3, <2>2, <2>9, CommandTyped DEF Fits, CallFits, Kept, Making
    <2>14. Fits(pc["cmd"], call["cmd"])' BY <1>3, <2>3, <2>12, <2>13 DEF Fits, ListFits, CallFits
    <2> QED BY <2>2, <2>3, <2>10, <2>14, ListsFrom
  <1> QED BY <1>4, <1>5, <1>6

\* A container that is mounted enters the list: keeps Lists.
LEMMA ListContainerLists ==
  ASSUME ContainerAssumption, Shapes, Lists, ListContainer, ~Overlap'
  PROVE  Lists'
  <1> DEFINE id == call["cmd"].id
  <1>1. pc["cmd"] = "push" /\ pc["cmd"] \in Making BY DEF ListContainer, Making
  <1>2. id \in Ids BY <1>1, CommandTyped
  <1>3. /\ mActiveContainers' = Append(mActiveContainers, id)
        /\ UNCHANGED <<file, secureArea, mounts, disturbed>>
    BY DEF ListContainer, fileVars, deviceVars
  <1>4. ~Overlap BY <1>3 DEF Overlap
  <1>5. /\ Listing /\ Fits("push", call["cmd"])
        /\ "cmd" \in Thread /\ "net" \in Thread /\ Other("cmd") = "net" /\ pc["net"] = "idle"
    BY <1>1, <1>4, CommandFits
  <1>6. pc'["cmd"] = "idle" /\ call'["cmd"] = NoCall /\ pc'["net"] = pc["net"]
    BY <1>5, Typed, Returns DEF ListContainer
  <1>7. ~Contains(mActiveContainers, id) /\ mActiveContainers \in Seq(Ids)
    BY <1>5, Typed DEF Fits, ListFits
  <1>8. /\ Distinct(mActiveContainers)'
        /\ \A x : Contains(mActiveContainers, x)' <=> Contains(mActiveContainers, x) \/ x = id
    <2>1. Distinct(mActiveContainers') BY <1>2, <1>3, <1>5, <1>7, DistinctAppend DEF Listing
    <2>2. \A x : Contains(mActiveContainers', x) <=> Contains(mActiveContainers, x) \/ x = id
      BY <1>2, <1>3, <1>7, ContainsAppend
    <2>3. Distinct(mActiveContainers)' BY <2>1 DEF Distinct
    <2> QED BY <2>2, <2>3 DEF Contains
  <1>9. Listing' BY <1>3, <1>5, <1>8 DEF Listing, Mounted, Kept
  <1>10. ListFits("idle", NoCall)'
    BY <1>3, <1>5, <1>8 DEF Fits, ListFits, Mounted, Detached
  <1>11. CallFits("idle", NoCall)' BY DEF CallFits, NoCall, Making
  <1>12. Fits(pc["cmd"], call["cmd"])' BY <1>6, <1>10, <1>11 DEF Fits, ListFits, CallFits
  <1> QED BY <1>5, <1>6, <1>9, <1>12, ListsFrom

(* The file of a container that is not mounted is deleted.                  *)
LEMMA UnlinkLists ==
  ASSUME ContainerAssumption, Shapes, Lists, TakeDownFile \/ DestroyUnlinks, ~Overlap'
  PROVE  Lists'
  <1> DEFINE id == call["cmd"].id
             dir == call["cmd"].dir
  <1>1. /\ pc["cmd"] \in {"down_file", "unlink"} /\ pc["cmd"] # "idle"
        /\ file' = Unlinked(id, dir)
        /\ UNCHANGED <<secureArea, mounts, mActiveContainers, disturbed>>
        /\ Return("cmd")
    BY DEF TakeDownFile, DestroyUnlinks, deviceVars
  <1>2. ~Overlap BY <1>1 DEF Overlap
  <1>3. /\ Listing /\ Fits(pc["cmd"], call["cmd"])
        /\ "cmd" \in Thread /\ "net" \in Thread /\ Other("cmd") = "net" /\ pc["net"] = "idle"
    BY <1>1, <1>2, CommandFits
  <1>4. pc'["cmd"] = "idle" /\ call'["cmd"] = NoCall /\ pc'["net"] = pc["net"]
    BY <1>1, <1>3, Typed, Returns
  <1>5. ~Mounted(id) BY <1>1, <1>3 DEF Fits, CallFits, Making
  <1>6. \A i \in AsecIds : i # id => file'[i] = file[i] BY <1>1, Typed DEF Unlinked
  <1>7. Listing' BY <1>1, <1>3, <1>5, <1>6 DEF Listing, Mounted, Kept
  <1>8. ListFits("idle", NoCall)'
    BY <1>1, <1>3 DEF Fits, ListFits, Mounted, Detached
  <1>9. CallFits("idle", NoCall)' BY DEF CallFits, NoCall, Making
  <1>10. Fits(pc["cmd"], call["cmd"])' BY <1>4, <1>8, <1>9 DEF Fits, ListFits, CallFits
  <1> QED BY <1>3, <1>4, <1>7, <1>10, ListsFrom

-----------------------------------------------------------------------------
(* The steps of either thread.                                              *)

\* An unmount asks for the image and the mountpoint: keeps Lists.
LEMMA UnmountChecksLists ==
  ASSUME ContainerAssumption, ListAssumption, Shapes, Lists, ~Overlap',
         NEW t \in Thread, UnmountChecks(t)
  PROVE  Lists'
  <1> DEFINE id == call[t].id
  <1>1. pc[t] = "um_check" /\ pc[t] \in Unmounting /\ pc[t] # "idle" BY DEF UnmountChecks, Unmounting
  <1>2. UNCHANGED <<file, secureArea, mounts, mActiveContainers, disturbed>>
    BY DEF UnmountChecks, fileVars, deviceVars
  <1>3. ~Overlap BY <1>2 DEF Overlap
  <1>4. Listing /\ pc[Other(t)] = "idle" /\ Fits("um_check", call[t]) BY <1>1, <1>3, BusyFits
  <1>5. Other(t) \in Thread /\ Other(t) # t BY Others DEF Thread
  <1>6. id \in Ids /\ pc \in [Thread -> Place] /\ call \in [Thread -> Call]
    BY <1>1, Typed DEF Shape, Control
  <1>7. \/ Mounted(id) /\ Goto(t, "um_detach") /\ UNCHANGED call
        \/ ~Mounted(id) /\ AfterUnmount(t, FALSE, call)
    BY <1>4, FoundKept, SeemsAsItIs DEF UnmountChecks, Listing
  <1>8. CASE Mounted(id) /\ Goto(t, "um_detach") /\ UNCHANGED call
    <2>1. pc'[t] = "um_detach" /\ pc'[Other(t)] = "idle" BY <1>4, <1>5, <1>6, <1>8 DEF Goto
    <2>2. Fits("um_detach", call[t])
      BY <1>4, <1>8 DEF Fits, ListFits, CallFits, ToDo, Making, Detached
    <2> QED BY <1>2, <1>4, <1>8, <2>1, <2>2, ListsKept
  <1>9. CASE ~Mounted(id) /\ AfterUnmount(t, FALSE, call)
    <2>1. Control BY Typed
    <2>2. /\ pc'[Other(t)] = "idle"
          /\ \/ pc'[t] = "next" /\ call'[t] = call[t]
             \/ pc'[t] = "idle" /\ call'[t] = NoCall
      BY <1>1, <1>4, <1>5, <1>6, <1>9, <2>1, Typed, AfterUnmountMoves
    <2>3. Fits("idle", NoCall) BY <1>4, GivesUp DEF Detached
    <2>4. Fits("next", call[t])
      BY <1>4, <1>9 DEF Fits, ListFits, CallFits, ToDo, Making, Detached
    <2> QED BY <1>2, <1>4, <2>2, <2>3, <2>4, ListsKept
  <1> QED BY <1>7, <1>8, <1>9

\* An unmount unmounts: keeps Lists.
LEMMA UnmountDetachesLists ==
  ASSUME ContainerAssumption, Shapes, Lists, ~Overlap', NEW t \in Thread, UnmountDetaches(t)
  PROVE  Lists'
  <1> DEFINE id == call[t].id
  <1>1. pc[t] = "um_detach" /\ pc[t] # "idle" /\ "um_dm" # "idle" BY DEF UnmountDetaches
  <1>2. UNCHANGED <<file, secureArea, mActiveContainers, call>> BY DEF UnmountDetaches, fileVars
  <1>3. ~Overlap BY DEF UnmountDetaches, Overlap
  <1>4. Listing /\ pc[Other(t)] = "idle" /\ Fits("um_detach", call[t]) BY <1>1, <1>3, BusyFits
  <1>5. Other(t) \in Thread /\ Other(t) # t BY Others DEF Thread
  <1>6. id \in Ids /\ pc \in [Thread -> Place] BY <1>1, Typed DEF Shape, Control
  <1>7. Mounted(id) BY <1>4 DEF Fits, CallFits
  <1>8. mounts' = [mounts EXCEPT ![id] = Front(@)] BY <1>7 DEF UnmountDetaches
  <1>9. mounts'[id] = <<>> /\ \A j \in Ids : j # id => mounts'[j] = mounts[j]
    BY <1>4, <1>6, <1>7, <1>8, UnmountTyped DEF Listing
  <1>10. pc'[t] = "um_dm" /\ pc'[Other(t)] = "idle"
    BY <1>4, <1>5, <1>6 DEF UnmountDetaches, Goto
  <1>11. \A j \in Ids : Mounted(j)' <=> Mounted(j) /\ j # id BY <1>9 DEF Mounted
  <1>12. Len(mounts'[id]) <= 1
    <2>1. Len(<<>>) = 0 BY EmptySeq
    <2> QED BY <1>9, <2>1
  <1>13. Listing' BY <1>2, <1>4, <1>9, <1>11, <1>12 DEF Listing, Kept, Ids
  <1>14. Contains(mActiveContainers, id) BY <1>4, <1>6, <1>7 DEF Fits, ListFits, Detached
  <1>15. ListFits("um_dm", call[t])'
    BY <1>2, <1>4, <1>11, <1>14 DEF Fits, ListFits, Detached
  <1>16. CallFits("um_dm", call[t])'
    BY <1>2, <1>4, <1>11 DEF Fits, CallFits, ToDo, Making
  <1>17. Fits(pc[t], call[t])' BY <1>2, <1>10, <1>15, <1>16 DEF Fits, ListFits, CallFits
  <1> QED BY <1>10, <1>13, <1>17, ListsFrom

(* Between the detaching and the unlisting nothing happens to the list.     *)
LEMMA UnmountDestroysLists ==
  ASSUME ContainerAssumption, Shapes, Lists, ~Overlap', NEW t \in Thread,
         UnmountDestroysDm(t) \/ UnmountDestroysLoop(t)
  PROVE  Lists'
  <1>1. UNCHANGED <<file, secureArea, mounts, mActiveContainers, disturbed, call>>
    BY DEF UnmountDestroysDm, UnmountDestroysLoop, fileVars
  <1>2. PICK l \in {"um_dm", "um_loop"}, m \in {"um_loop", "um_erase"} : pc[t] = l /\ Goto(t, m)
    BY DEF UnmountDestroysDm, UnmountDestroysLoop
  <1>3. ~Overlap BY <1>1 DEF Overlap
  <1>4. Listing /\ pc[Other(t)] = "idle" /\ Fits(l, call[t]) BY <1>2, <1>3, BusyFits
  <1>5. Other(t) \in Thread /\ Other(t) # t BY Others DEF Thread
  <1>6. pc'[t] = m /\ pc'[Other(t)] = "idle" BY <1>2, <1>4, <1>5, Typed DEF Goto, Control
  <1>7. Fits(m, call[t]) BY <1>4 DEF Fits, ListFits, CallFits, Detached, Making, ToDo
  <1> QED BY <1>1, <1>4, <1>6, <1>7, ListsKept

\* An unmount takes the container off the list: keeps Lists.
LEMMA UnmountUnlistsLists ==
  ASSUME ContainerAssumption, Shapes, Lists, ~Overlap', NEW t \in Thread, UnmountUnlists(t)
  PROVE  Lists'
  <1>0. PICK id \in Ids : id = call[t].id BY UnlistsMoves
  <1>1. /\ mActiveContainers' = RemoveFirst(mActiveContainers, id)
        /\ UNCHANGED <<file, secureArea, mounts, disturbed>>
    BY <1>0 DEF UnmountUnlists, fileVars, deviceVars
  <1>2. /\ pc[t] = "um_erase" /\ pc[t] # "idle"
        /\ \E c \in [Thread -> Call] :
             /\ \A u \in Thread : pc[u] = "idle" => c[u] = call[u]
             /\ \A u \in Thread : u # t => pc'[u] = pc[u] /\ call'[u] = c[u]
        /\ \/ call[t].op \in {"cleanup", "unmountAll"} /\ pc'[t] = "next" /\ call'[t] = call[t]
           \/ call[t].op = "destroy" /\ pc'[t] = "unlink" /\ call'[t] = call[t]
           \/ call[t].op = "unmount" /\ pc'[t] = "idle" /\ call'[t] = NoCall
    BY UnlistsMoves
  <1>3. ~Overlap BY <1>1 DEF Overlap
  <1>4. Listing /\ pc[Other(t)] = "idle" /\ Fits("um_erase", call[t]) BY <1>2, <1>3, BusyFits
  <1>5. Other(t) \in Thread /\ Other(t) # t BY Others DEF Thread
  <1>6. pc'[Other(t)] = "idle" BY <1>2, <1>4, <1>5
  <1>7. mActiveContainers \in Seq(Ids) /\ Distinct(mActiveContainers) BY <1>4, Typed DEF Listing
  <1>8. /\ Distinct(mActiveContainers)'
        /\ \A x : x # id => (Contains(mActiveContainers, x)' <=> Contains(mActiveContainers, x))
        /\ ~Contains(mActiveContainers, id)'
    <2>1. /\ Distinct(mActiveContainers') /\ ~Contains(mActiveContainers', id)
          /\ \A x : x # id => (Contains(mActiveContainers', x) <=> Contains(mActiveContainers, x))
      BY <1>1, <1>7, RemoveFirstContains
    <2>2. Distinct(mActiveContainers)' BY <2>1 DEF Distinct
    <2>3. ~Contains(mActiveContainers, id)' BY <1>1, <2>1 DEF Contains
    <2> QED BY <2>1, <2>2, <2>3 DEF Contains
  <1>9. Listing' BY <1>1, <1>4, <1>8 DEF Listing, Mounted, Kept
  <1>10. ~Mounted(id)' /\ \A j \in Ids : Mounted(j)' <=> Mounted(j)
    BY <1>0, <1>1, <1>4 DEF Fits, ListFits, Detached, Mounted
  <1>11. \A j \in Ids : Mounted(j)' <=> Contains(mActiveContainers, j)'
    BY <1>0, <1>4, <1>8, <1>10 DEF Fits, ListFits, Detached
  <1>12. PICK l \in {"next", "unlink", "idle"}, c \in {call[t], NoCall} :
           /\ pc'[t] = l /\ call'[t] = c
           /\ l = "idle" <=> c = NoCall
           /\ c = NoCall \/ c.op # "cleanup" \/ l = "next"
           /\ c = NoCall \/ c = call[t]
    <2>1. call[t].op # "none" => call[t] # NoCall BY DEF NoCall
    <2> QED BY <1>2, <2>1
  <1>13. ListFits(l, c)' BY <1>11 DEF ListFits, Detached
  <1>14. c.freed = {} BY <1>4, <1>12 DEF Fits, CallFits, NoCall
  <1>15. l = "unlink" => ~Mounted(c.id)' BY <1>0, <1>10, <1>12 DEF NoCall
  <1>16. l # "idle" /\ c.op = "cleanup" =>
           /\ secureArea' # "unbound"
           /\ \A j \in Ids : Mounted(j)' /\ (j \in AsecIds => file'[j]["int"] = None) => ToDo(l, c, j)
    BY <1>1, <1>2, <1>4, <1>10, <1>12 DEF Fits, CallFits, ToDo, NoCall
  <1>17. CallFits(l, c)' BY <1>14, <1>15, <1>16 DEF CallFits, Making
  <1>18. Fits(pc[t], call[t])' BY <1>12, <1>13, <1>17 DEF Fits, ListFits, CallFits
  <1> QED BY <1>6, <1>9, <1>18, ListsFrom

\* The next of several containers is unmounted: keeps Lists.
LEMMA NextContainerLists ==
  ASSUME ContainerAssumption, Shapes, Lists, ~Overlap', NEW t \in Thread, NextContainer(t)
  PROVE  Lists'
  <1> DEFINE id == Head(call[t].todo)
  <1>1. UNCHANGED <<file, secureArea, mounts, mActiveContainers, disturbed>>
    BY DEF NextContainer, fileVars, deviceVars
  <1>2. /\ pc[t] = "next" /\ pc[t] # "idle"
        /\ call[t].todo \in Seq(Ids) /\ call[t].todo # <<>> /\ id \in Ids
        /\ call'[t] = [call[t] EXCEPT !.todo = Tail(@), !.id = id]
        /\ pc'[t] = "um_check" \/ (id \in call[t].freed /\ pc'[t] = "next")
        /\ \A u \in Thread : u # t => pc'[u] = pc[u] /\ call'[u] = call[u]
    BY NextContainerMoves
  <1>3. ~Overlap BY <1>1 DEF Overlap
  <1>4. Listing /\ pc[Other(t)] = "idle" /\ Fits("next", call[t]) BY <1>2, <1>3, BusyFits
  <1>5. Other(t) \in Thread /\ Other(t) # t BY Others DEF Thread
  <1>6. pc'[t] = "um_check" /\ pc'[Other(t)] = "idle" BY <1>2, <1>4, <1>5 DEF Fits, CallFits
  <1>7. PICK c : c = call'[t] OBVIOUS
  <1>8. /\ c.todo = Tail(call[t].todo) /\ c.id = id /\ c.freed = call[t].freed /\ c.op = call[t].op
    BY <1>2, <1>7, Typed DEF Call
  <1>9. \A x : Contains(call[t].todo, x) <=> Contains(c.todo, x) \/ x = c.id
    BY <1>2, <1>8, ContainsHeadTail
  <1>10. ListFits("um_check", c) BY <1>4 DEF Fits, ListFits, Detached
  <1>11. CallFits("um_check", c)
    BY <1>4, <1>8, <1>9 DEF Fits, CallFits, ToDo, Making
  <1> QED BY <1>1, <1>4, <1>6, <1>7, <1>10, <1>11, ListsKept DEF Fits

(* A cleanup that is done has unmounted all that was not in the internal    *)
(* directory.                                                               *)
LEMMA LastContainerLists ==
  ASSUME ContainerAssumption, Shapes, Lists, ~Overlap', NEW t \in Thread, LastContainer(t)
  PROVE  Lists'
  <1>1. UNCHANGED <<file, mounts, mActiveContainers, disturbed>> BY DEF LastContainer, deviceVars
  <1>2. pc[t] = "next" /\ pc[t] # "idle" /\ call[t].todo = <<>> /\ Return(t) BY DEF LastContainer
  <1>3. ~Overlap BY <1>1 DEF Overlap
  <1>4. Listing /\ pc[Other(t)] = "idle" /\ Fits("next", call[t]) BY <1>2, <1>3, BusyFits
  <1>5. Other(t) \in Thread /\ Other(t) # t BY Others DEF Thread
  <1>6. pc'[t] = "idle" /\ call'[t] = NoCall /\ pc'[Other(t)] = "idle"
    BY <1>2, <1>4, <1>5, Typed, Returns
  <1>7. secureArea' = secureArea \/ call[t].op = "cleanup" BY DEF LastContainer
  <1>8. \A id \in AsecIds : Mounted(id) => Kept(id)'
    <2>1. CASE secureArea' = secureArea BY <1>1, <1>4, <2>1 DEF Listing, Kept
    <2>2. CASE call[t].op = "cleanup"
      <3>1. \A id \in Ids : ~ToDo("next", call[t], id) BY <1>2, ContainsEmpty DEF ToDo
      <3>2. \A id \in AsecIds : Mounted(id) => file[id]["int"] # None
        BY <1>4, <2>2, <3>1 DEF Fits, CallFits, Ids
      <3> QED BY <1>1, <3>2 DEF Kept
    <2> QED BY <1>7, <2>1, <2>2
  <1>9. Listing' BY <1>1, <1>4, <1>8 DEF Listing, Mounted
  <1>10. ListFits("idle", NoCall)' BY <1>1, <1>4 DEF Fits, ListFits, Mounted, Detached
  <1>11. CallFits("idle", NoCall)' BY DEF CallFits, NoCall, Making
  <1>12. Fits(pc[t], call[t])' BY <1>6, <1>10, <1>11 DEF Fits, ListFits, CallFits
  <1> QED BY <1>6, <1>9, <1>12, ListsFrom

\* The volume, its owners and the kernel: keeps Lists.
LEMMA EnvironmentLists ==
  ASSUME ContainerAssumption, Shapes, Lists, ~Overlap', Environment
  PROVE  Lists'
  <1>1. UNCHANGED <<mounts, mActiveContainers, pc, call, disturbed>>
    BY DEF Environment, BindSecureArea, DiskPulled, CloseFiles, deviceVars, fileVars, threadVars
  <1>2. PICK t \in Thread : Listing /\ pc[Other(t)] = "idle" /\ Fits(pc[t], call[t])
    BY <1>1 DEF Lists, Overlap
  <1>3. /\ \A id \in AsecIds : file'[id]["int"] = file[id]["int"]
        /\ \A id \in AsecIds : Kept(id) => Kept(id)'
        /\ secureArea # "unbound" => secureArea' # "unbound"
    <2>1. CASE BindSecureArea
      <3>1. secureArea = "unbound" /\ secureArea' = "bound" BY <2>1 DEF BindSecureArea
      <3>2. \A id \in AsecIds : file'[id]["int"] = file[id]["int"]
        BY <2>1, Typed DEF BindSecureArea, Directory
      <3> QED BY <3>1, <3>2 DEF Kept
    <2>2. CASE DiskPulled BY <2>2 DEF DiskPulled, Kept
    <2>3. CASE CloseFiles BY <2>3 DEF CloseFiles, Kept, fileVars
    <2> QED BY <2>1, <2>2, <2>3 DEF Environment
  <1>4. Listing' BY <1>1, <1>2, <1>3 DEF Listing, Mounted
  <1>5. ListFits(pc[t], call[t])' BY <1>1, <1>2 DEF Fits, ListFits, Mounted
  <1>6. CallFits(pc[t], call[t])' BY <1>1, <1>2, <1>3 DEF Fits, CallFits, Mounted, ToDo
  <1>7. pc'[Other(t)] = "idle" BY <1>1, <1>2
  <1> QED BY <1>4, <1>5, <1>6, <1>7, ListsFrom DEF Fits

\* Nothing changes: keeps Lists.
LEMMA StutterLists ==
  ASSUME Shapes, Lists, UNCHANGED vars, ~Overlap'
  PROVE  Lists'
  <1>1. UNCHANGED <<file, secureArea, mounts, mActiveContainers, pc, call, disturbed>>
    BY DEF vars, fileVars, deviceVars, threadVars
  <1>2. PICK t \in Thread : Listing /\ pc[Other(t)] = "idle" /\ Fits(pc[t], call[t])
    BY <1>1 DEF Lists, Overlap
  <1>3. pc'[Other(t)] = "idle" /\ pc'[t] = pc[t] /\ call'[t] = call[t] BY <1>1, <1>2
  <1> QED BY <1>1, <1>2, <1>3, ListsKept

\* Lists holds of a device that has just booted.
LEMMA ListsInit ==
  ASSUME ContainerAssumption, Init
  PROVE  Lists
  <1>1. "cmd" \in Thread /\ pc[Other("cmd")] = "idle" /\ pc["cmd"] = "idle" /\ call["cmd"] = NoCall
    BY Others DEF Init, Thread
  <1>2. /\ \A id \in Ids : mounts[id] = <<>> /\ ~Mounted(id)
        /\ \A x : ~Contains(mActiveContainers, x)
    BY ContainsEmpty DEF Init, Mounted
  <1>3. Len(<<>>) = 0 BY EmptySeq
  <1>4. Distinct(mActiveContainers)
    <2>1. DOMAIN <<>> = {} OBVIOUS
    <2> QED BY <2>1 DEF Init, Distinct
  <1>5. Listing BY <1>2, <1>3, <1>4 DEF Listing, Ids
  <1>6. Fits("idle", NoCall) BY <1>2 DEF Fits, ListFits, CallFits, NoCall, Detached, Making
  <1> QED BY <1>1, <1>5, <1>6 DEF Lists

\* One case for each action: every step keeps Lists.
LEMMA ListsNext ==
  ASSUME ContainerAssumption, ListAssumption, Shapes, Lists, [Next]_vars
  PROVE  Lists'
  <1>1. SUFFICES ASSUME ~Overlap' PROVE Lists' BY DEF Lists
  <1>2. CASE StartCommand
    BY <1>1, <1>2, StartCreateLists, CreateImageFailsLists, StartMountLists, StartUnmountLists,
       CleanupLists, StartUnmountAllLists, StartDestroyLists, RenameLists, FinalizeLists,
       StartFixupLists
    DEF StartCommand
  <1>3. CASE CmdStep
    BY <1>1, <1>3, GetLoopLists, DeviceStepLists, FormatLists, MountDeviceLists,
       ListContainerLists, UnlinkLists, FixupSealsLists
    DEF CmdStep
  <1>4. CASE BadRemoval BY <1>1, <1>4, CleanupLists
  <1>5. CASE Environment BY <1>1, <1>5, EnvironmentLists
  <1>6. ASSUME NEW t \in Thread, ThreadStep(t) PROVE Lists'
    BY <1>1, <1>6, UnmountChecksLists, UnmountDetachesLists, UnmountDestroysLists,
       UnmountUnlistsLists, NextContainerLists, LastContainerLists
    DEF ThreadStep
  <1>7. CASE UNCHANGED vars BY <1>1, <1>7, StutterLists
  <1> QED BY <1>2, <1>3, <1>4, <1>5, <1>6, <1>7 DEF Next

(* While no cleanup has run beside a command, mActiveContainers lists what  *)
(* is mounted, each container once.                                         *)
THEOREM Listed ==
  ASSUME ListAssumption
  PROVE  Spec => []ListedIsMounted
  <1>1. Init => Shapes /\ Lists BY ContainerAssumption, ShapesInit, ListsInit
  <1>2. Shapes /\ Lists /\ [Next]_vars => Shapes' /\ Lists'
    BY ContainerAssumption, ShapesNext, ListsNext
  <1>3. Shapes /\ Lists => ListedIsMounted
    <2>1. SUFFICES ASSUME Shapes, Lists, Quiescent, ~Overlap
                   PROVE  /\ \A id \in Ids : Mounted(id) <=> Contains(mActiveContainers, id)
                          /\ Distinct(mActiveContainers)
      BY DEF ListedIsMounted, Overlap, Distinct
    <2>2. \A t \in Thread : pc[t] = "idle" BY <2>1 DEF Quiescent
    <2>3. Listing /\ Fits("idle", NoCall) BY <2>1, <2>2, IdleFits
    <2> QED BY <2>3, IdleMeans DEF Listing
  <1> QED BY <1>1, <1>2, <1>3, PTL DEF Spec
=============================================================================
