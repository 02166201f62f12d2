---------------------- MODULE DirectVolumeEventsProofs ----------------------
(***************************************************************************)
(* Theorems about DirectVolume that rest on what the kernel sends: that a  *)
(* volume whose disk is gone says so, and that a volume is initialised     *)
(* only with every partition of its disk.                                  *)
(*                                                                         *)
(* The uevents not yet read lead from the disk the volume has taken to the *)
(* disk that is plugged in.  Trace says so, an event at a time, by what    *)
(* handleBlockEvent makes of an event of a disk; QueueInv is the invariant *)
(* that ties the volume to the kernel by it.                               *)
(***************************************************************************)
EXTENDS DirectVolumeProofs, FiniteSetTheorems

\* A disk with its NPARTS, as the volume or as the kernel knows it.
Disk   == [minor : Nat \cup {-1}, num : Nat]
NoDisk == [minor |-> -1, num |-> 0]

\* The disk a volume that has a leaves the event e with.
Takes(a, e) ==
  /\ e.type = "disk"
  /\ \/ e.action = "add" /\ a.minor = -1
     \/ e.action = "change" /\ a.minor = e.minor
Loses(a, e) == e.type = "disk" /\ e.action = "remove" /\ a.minor = e.minor
After(a, e) ==
  IF Takes(a, e) THEN [minor |-> e.minor, num |-> e.num] ELSE IF Loses(a, e) THEN NoDisk ELSE a

\* A partition event within reach of the disk a is of one of its partitions.
Fits(a, e) ==
  /\ e.type = "partition"
  /\ a.minor # -1 /\ e.minor \in a.minor..(a.minor + MinorSpan)
  => e.num \in 1..a.num

\* The events of s lead from disk a to disk b.
Leads(D, s) == \A i \in 1..Len(s) : Fits(D[i - 1], s[i]) /\ D[i] = After(D[i - 1], s[i])
Trace(a, s, b) ==
  \E D \in [0..Len(s) -> Disk] : D[0] = a /\ D[Len(s)] = b /\ Leads(D, s)

-----------------------------------------------------------------------------
(* Traces.                                                                  *)

(* An event leaves the volume with a disk or without one.                   *)
LEMMA AfterTyped ==
  ASSUME NEW a \in Disk, NEW e \in Uevent
  PROVE  After(a, e) \in Disk
  BY DEF After, Disk, NoDisk, Uevent

(* No event, no change.                                                     *)
LEMMA TraceEmpty ==
  ASSUME NEW a, NEW b, Trace(a, <<>>, b)
  PROVE  a = b
  BY DEF Trace

(* Events that fit and make no difference lead nowhere.                     *)
LEMMA TraceSteady ==
  ASSUME NEW a \in Disk, NEW s \in Seq(Uevent),
         \A i \in 1..Len(s) : Fits(a, s[i]) /\ After(a, s[i]) = a
  PROVE  Trace(a, s, a)
<1>. DEFINE D == [i \in 0..Len(s) |-> a]
<1>1. Len(s) \in Nat
  OBVIOUS
<1>2. D \in [0..Len(s) -> Disk] /\ D[0] = a /\ D[Len(s)] = a
  BY <1>1
<1>3. \A i \in 1..Len(s) : D[i - 1] = a /\ D[i] = a
  BY <1>1
<1>4. Leads(D, s)
  BY <1>3 DEF Leads
<1>. QED
  BY <1>2, <1>4 DEF Trace

(* A single event.                                                          *)
LEMMA TraceSingle ==
  ASSUME NEW a \in Disk, NEW e \in Uevent, Fits(a, e)
  PROVE  Trace(a, <<e>>, After(a, e))
<1>. DEFINE D == [i \in 0..1 |-> IF i = 0 THEN a ELSE After(a, e)]
<1>1. D \in [0..1 -> Disk] /\ D[0] = a /\ D[1] = After(a, e)
  BY AfterTyped
<1>. HIDE DEF D
<1>2. Len(<<e>>) = 1 /\ <<e>>[1] = e
  OBVIOUS
<1>3. Leads(D, <<e>>)
  <2>1. \A i \in 1..1 : i = 1 /\ i - 1 = 0
    OBVIOUS
  <2>. QED
    BY <1>1, <1>2, <2>1 DEF Leads
<1>. QED
  BY <1>1, <1>2, <1>3 DEF Trace

(* Reading the first event.                                                 *)
LEMMA TraceTail ==
  ASSUME NEW a, NEW b, NEW s \in Seq(Uevent), s # <<>>, Trace(a, s, b)
  PROVE  Fits(a, Head(s)) /\ Trace(After(a, Head(s)), Tail(s), b)
<1>1. PICK D \in [0..Len(s) -> Disk] : D[0] = a /\ D[Len(s)] = b /\ Leads(D, s)
  BY DEF Trace
<1>2. /\ Len(s) \in Nat \ {0} /\ Len(Tail(s)) = Len(s) - 1 /\ Head(s) = s[1]
      /\ \A i \in 1..Len(Tail(s)) : Tail(s)[i] = s[i + 1]
  BY EmptySeq, HeadTailProperties
<1>3. Fits(D[0], s[1]) /\ D[1] = After(D[0], s[1])
  <2>1. 1 \in 1..Len(s) /\ 1 - 1 = 0
    BY <1>2
  <2>2. Fits(D[1 - 1], s[1]) /\ D[1] = After(D[1 - 1], s[1])
    BY <1>1, <2>1, Zenon DEF Leads
  <2>. QED
    BY <2>1, <2>2
<1>. DEFINE E == [i \in 0..Len(Tail(s)) |-> D[i + 1]]
<1>4. /\ E \in [0..Len(Tail(s)) -> Disk]
      /\ \A i \in 0..Len(Tail(s)) : E[i] = D[i + 1]
  BY <1>1, <1>2
<1>. HIDE DEF E
<1>5. E[0] = After(a, Head(s)) /\ E[Len(Tail(s))] = b
  BY <1>1, <1>2, <1>3, <1>4
<1>6. Leads(E, Tail(s))
  <2>. SUFFICES ASSUME NEW i \in 1..Len(Tail(s))
                PROVE  Fits(E[i - 1], Tail(s)[i]) /\ E[i] = After(E[i - 1], Tail(s)[i])
    BY DEF Leads
  <2>1. i + 1 \in 1..Len(s) /\ i - 1 \in 0..Len(Tail(s)) /\ i \in 0..Len(Tail(s))
        /\ (i - 1) + 1 = i /\ (i + 1) - 1 = i
    BY <1>2
  <2>2. E[i - 1] = D[i] /\ E[i] = D[i + 1] /\ Tail(s)[i] = s[i + 1]
    BY <1>2, <1>4, <2>1
  <2>3. Fits(D[(i + 1) - 1], s[i + 1]) /\ D[i + 1] = After(D[(i + 1) - 1], s[i + 1])
    BY <1>1, <2>1, Zenon DEF Leads
  <2>4. Fits(D[i], s[i + 1]) /\ D[i + 1] = After(D[i], s[i + 1])
    BY <2>1, <2>3
  <2>. QED
    BY <2>2, <2>4
<1>7. Trace(After(a, Head(s)), Tail(s), b)
  BY <1>4, <1>5, <1>6 DEF Trace
<1>. QED
  BY <1>1, <1>2, <1>3, <1>7

(* Events sent after others.                                                *)
LEMMA TraceConcat ==
  ASSUME NEW a, NEW b, NEW c, NEW s \in Seq(Uevent), NEW r \in Seq(Uevent),
         Trace(a, s, b), Trace(b, r, c)
  PROVE  Trace(a, s \o r, c)
<1>1. PICK D \in [0..Len(s) -> Disk] : D[0] = a /\ D[Len(s)] = b /\ Leads(D, s)
  BY DEF Trace
<1>2. PICK E \in [0..Len(r) -> Disk] : E[0] = b /\ E[Len(r)] = c /\ Leads(E, r)
  BY DEF Trace
<1>. DEFINE q == s \o r
            F == [i \in 0..(Len(s) + Len(r)) |-> IF i <= Len(s) THEN D[i] ELSE E[i - Len(s)]]
<1>3. /\ Len(q) = Len(s) + Len(r) /\ Len(s) \in Nat /\ Len(r) \in Nat
      /\ \A i \in 1..Len(q) : q[i] = IF i <= Len(s) THEN s[i] ELSE r[i - Len(s)]
  BY ConcatProperties
<1>. HIDE DEF q
<1>4. F \in [0..Len(q) -> Disk]
  BY <1>1, <1>2, <1>3
<1>5. \A i \in 0..Len(q) : F[i] = IF i <= Len(s) THEN D[i] ELSE E[i - Len(s)]
  BY <1>3
<1>. HIDE DEF F
<1>6. F[0] = a /\ F[Len(q)] = c
  <2>1. F[0] = D[0]
    BY <1>3, <1>5
  <2>2. CASE Len(r) = 0
    BY <1>1, <1>2, <1>3, <1>5, <2>1, <2>2
  <2>3. CASE Len(r) # 0
    BY <1>1, <1>2, <1>3, <1>5, <2>1, <2>3
  <2>. QED
    BY <2>2, <2>3
<1>7. Leads(F, q)
  <2>. SUFFICES ASSUME NEW i \in 1..Len(q)
                PROVE  Fits(F[i - 1], q[i]) /\ F[i] = After(F[i - 1], q[i])
    BY DEF Leads
  <2>1. CASE i <= Len(s)
    <3>1. i \in 1..Len(s) /\ F[i - 1] = D[i - 1] /\ F[i] = D[i] /\ q[i] = s[i]
      BY <1>3, <1>5, <2>1
    <3>. QED
      BY <1>1, <3>1, Zenon DEF Leads
  <2>2. CASE i > Len(s)
    <3>. DEFINE j == i - Len(s)
    <3>1. j \in 1..Len(r) /\ F[i] = E[j] /\ q[i] = r[j]
      BY <1>3, <1>5, <2>2
    <3>2. F[i - 1] = E[j - 1]
      BY <1>1, <1>2, <1>3, <1>5, <2>2
    <3>. HIDE DEF j
    <3>. QED
      BY <1>2, <3>1, <3>2, Zenon DEF Leads
  <2>. QED
    BY <1>3, <2>1, <2>2
<1>. QED
  BY <1>4, <1>6, <1>7 DEF Trace, q

-----------------------------------------------------------------------------
(* What the kernel sends leads from the disk it had to the disk it has.     *)

Announced == [minor |-> plugged, num |-> kernelParts]

(* The disk that is plugged in is one, or none.                             *)
LEMMA AnnouncedTyped ==
  ASSUME TypeOK
  PROVE  Announced \in Disk /\ kernelParts \in Nat /\ (plugged # -1 => plugged \in Nat)
  BY ParameterAssumption DEF TypeOK, Announced, Disk

(* The events of the partitions of a disk make no difference to it.         *)
LEMMA PartsTrace ==
  ASSUME NEW d \in Nat, NEW n \in Nat, NEW action \in {"add", "remove", "change"}
  PROVE  Trace([minor |-> d, num |-> n], PartEvents(action, d, n), [minor |-> d, num |-> n])
<1>. DEFINE a == [minor |-> d, num |-> n]
            s == PartEvents(action, d, n)
<1>1. a \in Disk /\ s \in Seq(Uevent)
  BY PartEventsTyped DEF Disk
<1>2. Len(s) = n /\ \A i \in 1..n : s[i].type = "partition" /\ s[i].num = i
  BY DEF PartEvents
<1>3. \A i \in 1..Len(s) : Fits(a, s[i]) /\ After(a, s[i]) = a
  BY <1>2 DEF Fits, After, Takes, Loses
<1>. HIDE DEF a, s
<1>4. Trace(a, s, a)
  BY <1>1, <1>3, TraceSteady
<1>. QED
  BY <1>4 DEF a, s

(* An event of a disk that fits whatever disk there is.                     *)
LEMMA DiskTrace ==
  ASSUME NEW a \in Disk, NEW d \in Nat, NEW n \in Nat, NEW action \in {"add", "remove", "change"}
  PROVE  Trace(a, <<DiskEvent(action, d, n)>>, After(a, DiskEvent(action, d, n)))
<1>1. DiskEvent(action, d, n) \in Uevent /\ Fits(a, DiskEvent(action, d, n))
  BY DEF DiskEvent, Uevent, Fits
<1>. QED
  BY <1>1, TraceSingle

(* The additions of a disk, when there is none or when it is there already. *)
LEMMA AddTrace ==
  ASSUME NEW a \in Disk, NEW d \in Nat, NEW n \in Nat,
         a.minor = -1 \/ a = [minor |-> d, num |-> n]
  PROVE  Trace(a, AddEvents(d, n), [minor |-> d, num |-> n])
<1>1. After(a, DiskEvent("add", d, n)) = [minor |-> d, num |-> n]
  BY DEF After, Takes, Loses, DiskEvent
<1>2. Trace(a, <<DiskEvent("add", d, n)>>, [minor |-> d, num |-> n])
  BY <1>1, DiskTrace
<1>3. Trace([minor |-> d, num |-> n], PartEvents("add", d, n), [minor |-> d, num |-> n])
  BY PartsTrace
<1>4. <<DiskEvent("add", d, n)>> \in Seq(Uevent) /\ PartEvents("add", d, n) \in Seq(Uevent)
  BY DiskEventTyped, PartEventsTyped
<1>. QED
  BY <1>2, <1>3, <1>4, TraceConcat DEF AddEvents

(* The events of a disk that is added, one by one.                          *)
LEMMA AddEventsAt ==
  ASSUME NEW d \in Nat, NEW n \in Nat, NEW j \in 1..(n + 1)
  PROVE  AddEvents(d, n)[j] =
           IF j = 1 THEN DiskEvent("add", d, n)
           ELSE [action |-> "add", type |-> "partition", minor |-> d + (j - 1), num |-> j - 1]
<1>. DEFINE s == <<DiskEvent("add", d, n)>>
            r == PartEvents("add", d, n)
<1>1. s \in Seq(Uevent) /\ r \in Seq(Uevent)
  BY DiskEventTyped, PartEventsTyped
<1>2. /\ Len(s) = 1 /\ s[1] = DiskEvent("add", d, n) /\ Len(r) = n
      /\ \A p \in 1..n : r[p] = [action |-> "add", type |-> "partition", minor |-> d + p, num |-> p]
  BY DEF PartEvents
<1>. HIDE DEF s, r
<1>3. \A i \in 1..(Len(s) + Len(r)) : (s \o r)[i] = IF i <= Len(s) THEN s[i] ELSE r[i - Len(s)]
  BY <1>1, ConcatProperties
<1>4. j \in 1..(Len(s) + Len(r)) /\ (j <= Len(s) <=> j = 1) /\ (j # 1 => j - 1 \in 1..n)
  BY <1>2
<1>5. (s \o r)[j] = IF j = 1 THEN s[1] ELSE r[j - 1]
  BY <1>2, <1>3, <1>4
<1>6. AddEvents(d, n) = s \o r
  BY DEF AddEvents, s, r
<1>7. CASE j = 1
  BY <1>2, <1>5, <1>6, <1>7
<1>8. CASE j # 1
  <2>1. AddEvents(d, n)[j] = r[j - 1]
    BY <1>5, <1>6, <1>8
  <2>2. r[j - 1] = [action |-> "add", type |-> "partition", minor |-> d + (j - 1), num |-> j - 1]
    BY <1>2, <1>4, <1>8
  <2>. QED
    BY <1>8, <2>1, <2>2, Zenon
<1>. QED
  BY <1>7, <1>8

(* The additions sent twice at once: until the first event of the disk      *)
(* there is none, from then on there is this one.                           *)
LEMMA TwiceTrace ==
  ASSUME NEW a \in Disk, a.minor = -1, NEW d \in Nat, NEW n \in Nat, NEW f \in Merges(n + 1)
  PROVE  /\ AnnouncedTwice(d, n, f) \in Seq(Uevent)
         /\ Trace(a, AnnouncedTwice(d, n, f), [minor |-> d, num |-> n])
<1>. DEFINE k == 2 * (n + 1)
            b == [minor |-> d, num |-> n]
            s == AnnouncedTwice(d, n, f)
            D == [i \in 0..k |-> IF \E h \in 1..i : f[h] = 1 THEN b ELSE a]
<1>1. /\ f \in [1..k -> 1..(n + 1)] /\ k \in Nat
      /\ Cardinality({i \in DOMAIN f : f[i] = 1}) = 2
  <2>1. 1 \in 1..(n + 1)
    OBVIOUS
  <2>. QED
    BY <2>1 DEF Merges
<1>2. s \in Seq(Uevent) /\ Len(s) = k /\ \A i \in 1..k : s[i] = AddEvents(d, n)[f[i]]
  <2>1. f \in [1..(2 * (n + 1)) -> 1..(n + 1)]
    BY <1>1
  <2>2. s \in Seq(Uevent)
    BY <2>1, AnnouncedTwiceTyped
  <2>. QED
    BY <1>1, <2>2 DEF AnnouncedTwice
<1>3. \E h \in 1..k : f[h] = 1
  <2>. DEFINE T == {i \in DOMAIN f : f[i] = 1}
  <2>1. T # {}
    <3>1. Cardinality(T) = 2
      BY <1>1
    <3>. HIDE DEF T
    <3>. QED
      BY <3>1, FS_EmptySet
  <2>. QED
    BY <1>1, <2>1
<1>4. b \in Disk /\ b.minor = d /\ b.num = n
  BY DEF Disk
<1>. HIDE DEF k, b, s
<1>5. D \in [0..k -> Disk] /\ \A i \in 0..k : D[i] = IF \E h \in 1..i : f[h] = 1 THEN b ELSE a
  BY <1>4
<1>. HIDE DEF D
<1>6. D[0] = a /\ D[k] = b
  <2>1. 1..0 = {}
    OBVIOUS
  <2>. QED
    BY <1>1, <1>3, <1>5, <2>1
<1>7. Leads(D, s)
  <2>. SUFFICES ASSUME NEW i \in 1..k
                PROVE  Fits(D[i - 1], s[i]) /\ D[i] = After(D[i - 1], s[i])
    BY <1>2 DEF Leads
  <2>1. i \in 0..k /\ i - 1 \in 0..k /\ f[i] \in 1..(n + 1) /\ 1..i = 1..(i - 1) \cup {i}
    BY <1>1
  <2>2. D[i - 1] = a \/ D[i - 1] = b
    BY <1>5, <2>1
  <2>3. CASE f[i] = 1
    <3>1. s[i] = DiskEvent("add", d, n)
      BY <1>2, <2>1, <2>3, AddEventsAt
    <3>2. D[i] = b
      BY <1>5, <2>1, <2>3
    <3>3. After(a, s[i]) = b /\ After(b, s[i]) = b
      BY <1>4, <3>1 DEF After, Takes, Loses, DiskEvent, b
    <3>4. Fits(D[i - 1], s[i])
      BY <3>1 DEF Fits, DiskEvent
    <3>. QED
      BY <2>2, <3>2, <3>3, <3>4
  <2>4. CASE f[i] # 1
    <3>1. s[i].type = "partition" /\ s[i].num = f[i] - 1 /\ f[i] - 1 \in 1..n
      <4>1. s[i] = [action |-> "add", type |-> "partition",
                    minor |-> d + (f[i] - 1), num |-> f[i] - 1]
        BY <1>2, <2>1, <2>4, AddEventsAt, Zenon
      <4>. QED
        BY <2>1, <2>4, <4>1
    <3>2. D[i] = D[i - 1]
      BY <1>5, <2>1, <2>4
    <3>3. After(D[i - 1], s[i]) = D[i - 1]
      BY <3>1 DEF After, Takes, Loses
    <3>4. Fits(D[i - 1], s[i])
      BY <1>4, <2>2, <3>1 DEF Fits
    <3>. QED
      BY <3>2, <3>3, <3>4
  <2>. QED
    BY <2>3, <2>4
<1>8. Trace(a, s, b)
  BY <1>2, <1>5, <1>6, <1>7 DEF Trace
<1>. QED
  BY <1>2, <1>8 DEF s, b

(* Every step of the kernel prolongs the trace to the disk it leaves.       *)
LEMMA KernelTrace ==
  ASSUME TypeOK, Kernel, NEW a, Trace(a, uevents, Announced)
  PROVE  Trace(a, uevents', Announced')
<1>. USE AnnouncedTyped
<1>1. uevents \in Seq(Uevent) /\ DiskMinors \subseteq Nat /\ MaxKernelParts \in Nat
  BY ParameterAssumption DEF TypeOK
<1>2. ASSUME NEW d \in DiskMinors, NEW n \in 0..MaxKernelParts, DiskAppears(d, n)
      PROVE  d \in Nat /\ n \in Nat /\ Announced.minor = -1 /\ Announced' = [minor |-> d, num |-> n]
  BY <1>1, <1>2 DEF DiskAppears, Announced
<1>3. CASE PlugDisk
  <2>1. PICK d \in DiskMinors, n \in 0..MaxKernelParts :
          DiskAppears(d, n) /\ uevents' = uevents \o AddEvents(d, n)
    BY <1>3 DEF PlugDisk
  <2>2. Trace(Announced, AddEvents(d, n), Announced')
    BY <1>2, <2>1, AddTrace
  <2>3. AddEvents(d, n) \in Seq(Uevent)
    BY <1>2, <2>1, AddEventsTyped
  <2>. QED
    BY <1>1, <2>1, <2>2, <2>3, TraceConcat
<1>4. CASE UnplugDisk
  <2>. DEFINE p == PartEvents("remove", plugged, kernelParts)
              e == DiskEvent("remove", plugged, 0)
  <2>1. plugged \in Nat /\ kernelParts \in Nat
    BY <1>4 DEF UnplugDisk
  <2>2. uevents' = (uevents \o p) \o <<e>> /\ Announced' = NoDisk
    BY <1>4 DEF UnplugDisk, Announced, NoDisk
  <2>3. p \in Seq(Uevent) /\ <<e>> \in Seq(Uevent)
    BY <2>1, DiskEventTyped, PartEventsTyped
  <2>4. Trace(Announced, p, Announced)
    BY <2>1, PartsTrace DEF Announced
  <2>5. After(Announced, e) = NoDisk
    BY <2>1 DEF After, Takes, Loses, DiskEvent, Announced
  <2>6. Trace(Announced, <<e>>, NoDisk)
    BY <2>1, <2>5, DiskTrace
  <2>. HIDE DEF p, e
  <2>7. uevents \o p \in Seq(Uevent) /\ Trace(a, uevents \o p, Announced)
    BY <1>1, <2>3, <2>4, TraceConcat, ConcatProperties
  <2>. QED
    BY <2>2, <2>3, <2>6, <2>7, TraceConcat
<1>5. CASE RepartitionDisk
  <2>1. PICK n \in 0..MaxKernelParts :
          /\ kernelParts' = n
          /\ uevents' = uevents \o PartEvents("remove", plugged, kernelParts)
                                \o <<DiskEvent("change", plugged, n)>>
                                \o PartEvents("add", plugged, n)
    BY <1>5 DEF RepartitionDisk
  <2>. DEFINE p == PartEvents("remove", plugged, kernelParts)
              e == DiskEvent("change", plugged, n)
              q == PartEvents("add", plugged, n)
  <2>2. plugged \in Nat /\ kernelParts \in Nat /\ n \in Nat /\ plugged' = plugged
    BY <1>1, <1>5 DEF RepartitionDisk
  <2>3. p \in Seq(Uevent) /\ <<e>> \in Seq(Uevent) /\ q \in Seq(Uevent)
    BY <2>2, DiskEventTyped, PartEventsTyped
  <2>4. Trace(Announced, p, Announced)
    BY <2>2, PartsTrace DEF Announced
  <2>5. After(Announced, e) = Announced'
    BY <2>1, <2>2 DEF After, Takes, Loses, DiskEvent, Announced
  <2>6. Trace(Announced, <<e>>, Announced')
    BY <2>2, <2>5, DiskTrace
  <2>7. Trace(Announced', q, Announced')
    BY <2>1, <2>2, PartsTrace DEF Announced
  <2>. HIDE DEF p, e, q
  <2>8. uevents' = ((uevents \o p) \o <<e>>) \o q
    BY <2>1 DEF p, e, q
  <2>9. uevents \o p \in Seq(Uevent) /\ Trace(a, uevents \o p, Announced)
    BY <1>1, <2>3, <2>4, TraceConcat, ConcatProperties
  <2>10. /\ (uevents \o p) \o <<e>> \in Seq(Uevent)
         /\ Trace(a, (uevents \o p) \o <<e>>, Announced')
    BY <2>3, <2>6, <2>9, TraceConcat, ConcatProperties
  <2>. QED
    BY <2>3, <2>7, <2>8, <2>10, TraceConcat
<1>6. CASE MediaChange
  <2>. DEFINE e == DiskEvent("change", plugged, kernelParts)
  <2>1. plugged \in Nat /\ kernelParts \in Nat /\ Announced' = Announced
    BY <1>6 DEF MediaChange, Announced
  <2>2. e \in Uevent /\ <<e>> \in Seq(Uevent)
    BY <2>1, DiskEventTyped
  <2>3. After(Announced, e) = Announced
    BY <2>1 DEF After, Takes, Loses, DiskEvent, Announced
  <2>4. Trace(Announced, <<e>>, Announced)
    BY <2>1, <2>3, DiskTrace
  <2>5. uevents' = Append(uevents, e)
    BY <1>6 DEF MediaChange
  <2>. HIDE DEF e
  <2>6. Append(uevents, e) = uevents \o <<e>>
    BY <1>1, <2>2, AppendIsConcat
  <2>. QED
    BY <1>1, <2>1, <2>2, <2>4, <2>5, <2>6, TraceConcat
<1>7. CASE Coldboot
  <2>1. plugged \in Nat /\ kernelParts \in Nat /\ Announced' = Announced
        /\ uevents' = uevents \o AddEvents(plugged, kernelParts)
    BY <1>7 DEF Coldboot, Announced
  <2>2. Trace(Announced, AddEvents(plugged, kernelParts), Announced)
    BY <2>1, AddTrace DEF Announced
  <2>3. AddEvents(plugged, kernelParts) \in Seq(Uevent)
    BY <2>1, AddEventsTyped
  <2>. QED
    BY <1>1, <2>1, <2>2, <2>3, TraceConcat
<1>8. CASE PlugDuringColdboot
  <2>1. PICK d \in DiskMinors, n \in 0..MaxKernelParts :
          DiskAppears(d, n) /\ \E f \in MergesOf[n + 1] : uevents' = uevents \o AnnouncedTwice(d, n, f)
    BY <1>8 DEF PlugDuringColdboot
  <2>2. MergesOf[n + 1] = Merges(n + 1)
    BY <1>1 DEF MergesOf
  <2>3. PICK f \in Merges(n + 1) : uevents' = uevents \o AnnouncedTwice(d, n, f)
    BY <2>1, <2>2
  <2>4. /\ AnnouncedTwice(d, n, f) \in Seq(Uevent)
        /\ Trace(Announced, AnnouncedTwice(d, n, f), Announced')
    BY <1>2, <2>1, TwiceTrace
  <2>. QED
    BY <1>1, <2>3, <2>4, TraceConcat
<1>. QED
  BY <1>3, <1>4, <1>5, <1>6, <1>7, <1>8 DEF Kernel

-----------------------------------------------------------------------------
(* What the volume has taken, while the framework only mounts.              *)

\* The command thread is between two commands or in mountVolume.
Calls == pc["cmd"] \in {"idle", "mount_lock"} \cup MountPoints

\* From reading its removal on, the disk is as good as gone.
LeavesDisk == evt.type = "disk" /\ pc["net"] \in (Handling \cup {"rm_lock"}) \ {"rm_unlock"}

\* The disk the volume will have when the uevents not yet read come to it.
Now == IF LeavesDisk THEN NoDisk ELSE [minor |-> mDiskMinor, num |-> mDiskNumParts]

\* They lead from there to the disk that is plugged in.
QueueInv == Trace(Now, uevents, Announced)

\* Points of the net thread that a volume without a disk does not get to.
DiskPoints == {"init", "mount_lock", "rm_lock"} \cup (Handling \ {"rm_unlock"})

\* Without a disk the volume says so, and no call is under way that would
\* say something else later.
AbsentInv ==
  mDiskMinor = -1 => mState = "NoMedia" /\ mLock = "none" /\ pc["net"] \notin DiskPoints

EventInv == Calls /\ AbsentInv /\ QueueInv

\* A step that leaves both ends of the trace and the uevents between them.
Steady ==
  /\ UNCHANGED <<mDiskMinor, mDiskNumParts, uevents, plugged, kernelParts>>
  /\ LeavesDisk' <=> LeavesDisk

(* Such a step keeps the trace.                                             *)
LEMMA SteadyQueue ==
  ASSUME QueueInv, Steady
  PROVE  QueueInv'
<1>1. Now' = Now /\ Announced' = Announced /\ uevents' = uevents
  BY DEF Steady, Now, Announced
<1>. QED
  BY <1>1 DEF QueueInv, Trace, Leads

(* A volume that is not ready only turns the framework's mounts away.       *)
LEMMA RefusedCall ==
  ASSUME IInv, Calls, mState # "Idle", mLock = "none", pc["net"] \notin DiskPoints \ {"init"},
         NEW t \in Thread, MountOrUnmount(t)
  PROVE  t = "cmd" /\ MountRefused(t)
<1>1. \A u \in Thread : pc[u] \notin MountPoints \cup UnmountPoints
  BY DEF IInv, Control, LockHeld, Thread
<1>2. pc[t] = "mount_lock"
  <2>1. pc[t] \in {"mount_lock", "unmount_lock", "unshare_lun", "rm_unshare", "uu_unshare"}
                  \cup MountPoints \cup UnmountPoints
    BY DEF MountOrUnmount, MountRefused, MountBegin, MountClearsStale, MountTryFails,
           MountTryMounts, MountAsecFails, MountFinish, UnmountRefused, UnmountBegin,
           UnmountSucceeds, UnmountFails, UnshareWritesLun, MountPoints, UnmountPoints
  <2>2. pc[t] \in {"mount_lock", "unmount_lock", "unshare_lun", "rm_unshare", "uu_unshare"}
    BY <1>1, <2>1, Zenon
  <2>3. CASE t = "cmd"
    BY <2>2, <2>3 DEF Calls, MountPoints
  <2>4. CASE t = "net"
    <3>1. pc["net"] # "unshare_lun"
      BY DEF IInv, TypeOK, NetPoints, RemovalPoints, MountPoints, UnmountPoints
    <3>. QED
      BY <1>1, <2>2, <2>4, <3>1 DEF DiskPoints, Handling, RemovalPoints
  <2>. QED
    BY <2>3, <2>4 DEF Thread
<1>3. t = "cmd"
  BY <1>1, <1>2 DEF Thread, DiskPoints
<1>4. ~MayMount
  BY <1>1 DEF MayMount
<1>. QED
  BY <1>1, <1>2, <1>3, <1>4
     DEF MountOrUnmount, MountBegin, MountClearsStale, MountTryFails,
         MountTryMounts, MountAsecFails, MountFinish, UnmountRefused, UnmountBegin,
         UnmountSucceeds, UnmountFails, UnshareWritesLun

(* Where a call may go.                                                     *)
LEMMA CallMoves ==
  ASSUME IInv, NEW t \in Thread, MountOrUnmount(t)
  PROVE  /\ \A u \in Thread : u # t => pc'[u] = pc[u]
         /\ t = "cmd" /\ pc[t] \in {"idle", "mount_lock"} \cup MountPoints
              => pc'[t] \in {"idle", "mount_lock"} \cup MountPoints
         /\ t = "net" /\ pc[t] \in Handling \cup {"rm_lock"} => pc'[t] \in Handling \ {"rm_unlock"}
         /\ t = "net" /\ pc[t] \notin Handling \cup {"rm_lock"} => pc'[t] \notin Handling \cup {"rm_lock"}
         /\ t = "net" => pc[t] # "rm_unlock"
         /\ UNCHANGED <<mDiskMinor, mDiskNumParts, uevents, plugged, kernelParts, evt>>
<1>. USE DEF Handling, RemovalPoints, MountPoints, UnmountPoints, Goto, Thread, diskVars,
             volumeVars, kernelVars, workVars
<1>1. pc \in [Thread -> CmdPoints \cup NetPoints]
  BY DEF IInv, TypeOK
<1>2. CASE MountRefused(t)
  BY <1>1, <1>2 DEF MountRefused, MountReturns
<1>3. CASE MountBegin(t)
  BY <1>1, <1>3 DEF MountBegin, ConsiderNodes
<1>4. CASE MountClearsStale(t)
  BY <1>1, <1>4 DEF MountClearsStale, ConsiderNodes
<1>5. CASE MountTryFails(t)
  BY <1>1, <1>5 DEF MountTryFails, MountReturns
<1>6. CASE MountTryMounts(t)
  BY <1>1, <1>6 DEF MountTryMounts
<1>7. CASE MountAsecFails(t)
  BY <1>1, <1>7 DEF MountAsecFails, MountReturns
<1>8. CASE MountFinish(t)
  BY <1>1, <1>8 DEF MountFinish, MountReturns
<1>9. CASE UnmountRefused(t)
  BY <1>1, <1>9 DEF UnmountRefused, UnmountReturns
<1>10. CASE UnmountBegin(t)
  BY <1>1, <1>10 DEF UnmountBegin
<1>11. CASE UnmountSucceeds(t)
  BY <1>1, <1>11 DEF UnmountSucceeds, UnmountReturns
<1>12. CASE UnmountFails(t)
  BY <1>1, <1>12 DEF UnmountFails, UnmountReturns
<1>13. CASE UnshareWritesLun(t)
  BY <1>1, <1>13 DEF UnshareWritesLun, AfterUnshare
<1>. QED
  BY <1>2, <1>3, <1>4, <1>5, <1>6, <1>7, <1>8, <1>9, <1>10, <1>11, <1>12, <1>13
     DEF MountOrUnmount

(* A step of mountVol, of unmountVol or of an unshare by either thread.     *)
LEMMA EventCall ==
  ASSUME IInv, EventInv, NEW t \in Thread, MountOrUnmount(t)
  PROVE  EventInv'
<1>. USE DEF EventInv
<1>1. Calls'
  BY CallMoves DEF Calls, Thread
<1>2. AbsentInv'
  <2>1. CASE mDiskMinor = -1
    <3>1. t = "cmd" /\ MountRefused(t)
      BY <2>1, RefusedCall DEF AbsentInv
    <3>2. mState' = mState /\ mLock' = mLock /\ pc'["net"] = pc["net"]
      BY <3>1, CallMoves DEF MountRefused, lockVars, Thread
    <3>. QED
      BY <2>1, <3>2 DEF AbsentInv
  <2>2. CASE mDiskMinor # -1
    BY <2>2, CallMoves DEF AbsentInv
  <2>. QED
    BY <2>1, <2>2
<1>3. Steady
  BY CallMoves DEF Steady, LeavesDisk, Thread
<1>. QED
  BY <1>1, <1>2, <1>3, SteadyQueue

(* The net thread reads an event: the trace is that much shorter.           *)
LEMMA EventRead ==
  ASSUME IInv, EventInv, pc["net"] = "idle", uevents # <<>>, uevents' = Tail(uevents),
         UNCHANGED <<plugged, kernelParts>>,
         Now' = After([minor |-> mDiskMinor, num |-> mDiskNumParts], Head(uevents))
  PROVE  QueueInv'
<1>1. Now = [minor |-> mDiskMinor, num |-> mDiskNumParts]
  BY DEF Now, LeavesDisk, Handling, RemovalPoints
<1>2. Trace(After(Now, Head(uevents)), Tail(uevents), Announced)
  BY TraceTail DEF EventInv, QueueInv, IInv, TypeOK
<1>3. Announced' = Announced
  BY DEF Announced
<1>4. Trace(Now', uevents', Announced')
  BY <1>1, <1>2, <1>3, Zenon
<1>. QED
  BY <1>4 DEF QueueInv, Trace, Leads

(* The events of a disk.                                                    *)
LEMMA EventDisk ==
  ASSUME IInv, EventInv, DiskAdded \/ DiskChanged \/ DiskRemoved
  PROVE  EventInv'
<1>. DEFINE e == Head(uevents)
            a == [minor |-> mDiskMinor, num |-> mDiskNumParts]
<1>. USE DEF EventInv, Thread, Goto
<1>1. pc \in [Thread -> CmdPoints \cup NetPoints] /\ e \in Uevent
      /\ pc["net"] = "idle" /\ uevents # <<>> /\ uevents' = Tail(uevents)
      /\ e.type = "disk" /\ ~Filtered(e) /\ evt' = e
      /\ UNCHANGED <<plugged, kernelParts>>
  BY TailTyped
     DEF IInv, TypeOK, DiskAdded, DiskChanged, DiskRemoved, Removed, Reading, kernelVars
<1>2. e.minor \in Nat
  BY <1>1 DEF Uevent
<1>. HIDE DEF e
<1>3. CASE DiskAdded
  <2>1. e.action = "add" /\ mDiskMinor = -1
    BY <1>1, <1>3 DEF DiskAdded, Reading, Filtered, e
  <2>2. mState = "NoMedia"
    BY <2>1 DEF AbsentInv
  <2>3. mDiskMinor' = e.minor /\ mDiskNumParts' = e.num /\ pc'["net"] \in {"init", "notify"}
        /\ pc'["cmd"] = pc["cmd"]
    BY <1>1, <1>3, <2>2 DEF DiskAdded, e
  <2>4. Now' = After(a, e)
    BY <1>1, <2>1, <2>3 DEF Now, LeavesDisk, After, Takes, Handling, RemovalPoints
  <2>5. QueueInv'
    BY <1>1, <2>4, EventRead DEF e
  <2>. QED
    BY <1>2, <2>3, <2>5 DEF Calls, AbsentInv
<1>4. CASE DiskChanged
  <2>1. e.action = "change" /\ mDiskMinor = e.minor
    BY <1>1, <1>4 DEF DiskChanged, Reading, Filtered, e
  <2>2. mDiskMinor' = e.minor /\ mDiskNumParts' = e.num /\ pc'["net"] \in {"init", "idle"}
        /\ pc'["cmd"] = pc["cmd"]
    BY <1>1, <1>4, <2>1 DEF DiskChanged, e
  <2>3. Now' = After(a, e)
    BY <1>1, <2>1, <2>2 DEF Now, LeavesDisk, After, Takes, Handling, RemovalPoints
  <2>4. QueueInv'
    BY <1>1, <2>3, EventRead DEF e
  <2>. QED
    BY <1>2, <2>2, <2>4 DEF Calls, AbsentInv
<1>5. CASE DiskRemoved
  <2>1. e.action = "remove" /\ mDiskMinor = e.minor
    BY <1>1, <1>5 DEF DiskRemoved, Removed, Reading, Filtered, e
  <2>2. mDiskMinor' = e.minor /\ pc'["net"] = "rm_lock" /\ pc'["cmd"] = pc["cmd"]
    BY <1>1, <1>5, <2>1 DEF DiskRemoved, Removed, volumeVars
  <2>3. Now' = After(a, e)
    BY <1>1, <2>1, <2>2 DEF Now, LeavesDisk, After, Takes, Loses
  <2>4. QueueInv'
    BY <1>1, <2>3, EventRead DEF e
  <2>. QED
    BY <1>2, <2>2, <2>4 DEF Calls, AbsentInv
<1>. QED
  BY <1>3, <1>4, <1>5

(* The events of a partition, and those no handler runs for.                *)
LEMMA EventPartition ==
  ASSUME IInv, EventInv, PartitionAdded \/ PartitionRemoved \/ EventIgnored
  PROVE  EventInv'
<1>. DEFINE e == Head(uevents)
            a == [minor |-> mDiskMinor, num |-> mDiskNumParts]
<1>. USE DEF EventInv, Thread, Goto
<1>1. pc \in [Thread -> CmdPoints \cup NetPoints] /\ e \in Uevent
      /\ pc["net"] = "idle" /\ uevents # <<>> /\ uevents' = Tail(uevents)
      /\ UNCHANGED <<plugged, kernelParts, mState, mLock>> /\ mDiskMinor' = mDiskMinor
  BY TailTyped
     DEF IInv, TypeOK, PartitionAdded, PartitionRemoved, EventIgnored, Removed, Reading,
         kernelVars, stateVars, volumeVars, lockVars
<1>. HIDE DEF e
<1>2. CASE EventIgnored
  <2>1. pc' = pc /\ mDiskNumParts' = mDiskNumParts
    BY <1>2 DEF EventIgnored, volumeVars
  <2>2. Filtered(e)
    BY <1>2 DEF EventIgnored, e
  <2>3. After(a, e) = a
    BY <2>2 DEF Filtered, After, Takes, Loses
  <2>4. Now' = a
    BY <1>1, <2>1 DEF Now, LeavesDisk, Handling, RemovalPoints
  <2>5. QueueInv'
    BY <1>1, <2>3, <2>4, EventRead DEF e
  <2>. QED
    BY <1>1, <2>1, <2>5 DEF Calls, AbsentInv
<1>3. CASE PartitionAdded \/ PartitionRemoved
  <2>1. e.type = "partition" /\ InRange(e.minor) /\ evt' = e /\ pc'["cmd"] = pc["cmd"]
    BY <1>1, <1>3 DEF PartitionAdded, PartitionRemoved, Removed, Reading, Filtered, e
  <2>2. mDiskMinor # -1 /\ After(a, e) = a
    BY <2>1 DEF InRange, After, Takes, Loses
  <2>3. Now = a /\ Fits(a, e)
    <3>1. Now = a
      BY <1>1 DEF Now, LeavesDisk, Handling, RemovalPoints
    <3>2. Fits(Now, e)
      BY <1>1, TraceTail DEF QueueInv, IInv, TypeOK, e
    <3>. QED
      BY <3>1, <3>2
  <2>4. mDiskNumParts' = mDiskNumParts
    <3>1. CASE PartitionAdded
      <4>1. e.num \in 1..mDiskNumParts
        BY <2>1, <2>3 DEF Fits, InRange
      <4>2. mDiskNumParts \in Nat
        BY DEF IInv, TypeOK
      <4>. QED
        BY <3>1, <4>1, <4>2 DEF PartitionAdded, e
    <3>2. CASE PartitionRemoved
      BY <3>2 DEF PartitionRemoved, Removed, volumeVars
    <3>. QED
      BY <1>3, <3>1, <3>2
  <2>5. Now' = a
    <3>1. e.type # "disk"
      BY <2>1
    <3>. QED
      BY <1>1, <2>1, <2>4, <3>1 DEF Now, LeavesDisk
  <2>6. QueueInv'
    BY <1>1, <2>2, <2>5, EventRead DEF e
  <2>. QED
    BY <1>1, <2>1, <2>2, <2>6 DEF Calls, AbsentInv
<1>. QED
  BY <1>2, <1>3

(* The steps of the net thread that read no event.                          *)
LEMMA EventHandler ==
  ASSUME IInv, EventInv,
         \/ InitMountpoint \/ NotifyInserted \/ RemoveBegin \/ RemoveChecksShare
         \/ UnmountUnshare \/ RemoveEnd \/ RemoveUnlock
  PROVE  EventInv'
<1>. USE DEF EventInv, Thread, Goto, Handling, RemovalPoints, volumeVars, stateVars, lockVars,
             kernelVars, workVars
<1>1. pc \in [Thread -> CmdPoints \cup NetPoints]
  BY DEF IInv, TypeOK
<1>2. CASE RemoveEnd
  <2>1. mLock = "none"
    <3>1. /\ pc["net"] = "rm_end"
          /\ \A t \in Thread : pc[t] \notin MountPoints
      BY <1>2 DEF RemoveEnd, IInv, Control, RemovalExcludesMount
    <3>2. \A t \in Thread : pc[t] \notin UnmountPoints
      BY <3>1 DEF Calls, MountPoints, UnmountPoints
    <3>. QED
      BY <3>1, <3>2 DEF IInv, TypeOK, Control, LockHeld
  <2>2. pc'["net"] = "rm_unlock" /\ pc'["cmd"] = pc["cmd"] /\ mLock' = mLock
        /\ UNCHANGED <<uevents, plugged, kernelParts, evt>>
    BY <1>1, <1>2 DEF RemoveEnd
  <2>3. Now' = Now
    <3>1. Now' = [minor |-> mDiskMinor', num |-> mDiskNumParts']
      BY <2>2 DEF Now, LeavesDisk
    <3>2. CASE evt.type = "disk"
      BY <1>2, <3>1, <3>2 DEF RemoveEnd, Now, LeavesDisk, NoDisk
    <3>3. CASE evt.type # "disk"
      BY <1>2, <3>1, <3>3 DEF RemoveEnd, Now, LeavesDisk
    <3>. QED
      BY <3>2, <3>3
  <2>4. QueueInv'
    BY <2>2, <2>3 DEF QueueInv, Announced, Trace, Leads
  <2>5. AbsentInv'
    <3>1. CASE evt.type = "disk"
      <4>1. mState' = "NoMedia"
        BY <1>2, <3>1, MovedState DEF RemoveEnd
      <4>. QED
        BY <2>1, <2>2, <4>1 DEF AbsentInv, DiskPoints
    <3>2. CASE evt.type # "disk"
      BY <1>2, <3>2 DEF RemoveEnd, AbsentInv, DiskPoints
    <3>. QED
      BY <3>1, <3>2
  <2>. QED
    BY <2>2, <2>4, <2>5 DEF Calls
<1>3. CASE RemoveUnlock \/ NotifyInserted
  <2>1. Steady
    BY <1>1, <1>3 DEF Steady, LeavesDisk, RemoveUnlock, NotifyInserted
  <2>2. AbsentInv'
    BY <1>1, <1>3 DEF AbsentInv, DiskPoints, RemoveUnlock, NotifyInserted
  <2>3. Calls'
    BY <1>1, <1>3 DEF Calls, RemoveUnlock, NotifyInserted
  <2>. QED
    BY <2>1, <2>2, <2>3, SteadyQueue
<1>4. CASE InitMountpoint
  <2>1. mDiskMinor # -1 /\ mDiskMinor' = mDiskMinor
    BY <1>4 DEF InitMountpoint, AbsentInv, DiskPoints
  <2>2. pc'["net"] \in {"mount_lock", "notify", "idle"} /\ pc'["cmd"] = pc["cmd"]
    BY <1>1, <1>4 DEF InitMountpoint
  <2>3. Steady
    BY <1>4, <2>2 DEF Steady, LeavesDisk, InitMountpoint
  <2>. QED
    BY <2>1, <2>2, <2>3, SteadyQueue DEF Calls, AbsentInv
<1>5. CASE RemoveBegin \/ RemoveChecksShare \/ UnmountUnshare
  <2>1. mDiskMinor # -1 /\ mDiskMinor' = mDiskMinor
    BY <1>5 DEF RemoveBegin, RemoveChecksShare, UnmountUnshare, AbsentInv, DiskPoints
  <2>2. /\ pc["net"] \in {"rm_lock", "rm_share", "rm_unmount"}
        /\ pc'["net"] \in Handling \ {"rm_unlock"} /\ pc'["cmd"] = pc["cmd"]
    BY <1>1, <1>5 DEF RemoveBegin, RemoveChecksShare, UnmountUnshare, AfterUnshare
  <2>3. Steady
    BY <1>5, <2>2 DEF Steady, LeavesDisk, RemoveBegin, RemoveChecksShare, UnmountUnshare
  <2>. QED
    BY <2>1, <2>2, <2>3, SteadyQueue DEF Calls, AbsentInv
<1>. QED
  BY <1>2, <1>3, <1>4, <1>5

(* Every step keeps the volume in touch with the kernel, when the framework *)
(* only mounts.                                                             *)
LEMMA EventNext ==
  ASSUME Commands \subseteq {"mount"}, IInv, EventInv, [Next]_vars
  PROVE  EventInv'
<1>. USE DEF EventInv
<1>1. pc \in [Thread -> CmdPoints \cup NetPoints]
  BY DEF IInv, TypeOK
<1>2. CASE StartCommand
  <2>1. StartMount
    BY <1>2 DEF StartCommand, StartUnmount, StartFormat, StartShare, StartUnshare
  <2>2. Calls' /\ AbsentInv'
    BY <1>1, <2>1 DEF StartMount, Calls, AbsentInv, Goto, Thread, volumeVars, lockVars
  <2>3. Steady
    BY <1>1, <2>1 DEF StartMount, Steady, LeavesDisk, Goto, Thread, volumeVars, kernelVars
  <2>. QED
    BY <2>2, <2>3, SteadyQueue
<1>3. CASE CmdStep
  <2>1. MountOrUnmount("cmd")
    BY <1>3 DEF CmdStep, Calls, FormatChecksMounts, FormatEnds, ShareWritesLun, MountPoints
  <2>. QED
    BY <2>1, EventCall DEF Thread
<1>4. CASE NetStep
  BY <1>4, EventCall, EventDisk, EventPartition, EventHandler DEF NetStep, Thread
<1>5. CASE Kernel
  <2>1. UNCHANGED <<mDiskMinor, mDiskNumParts, mState, mLock, pc, evt>>
    BY <1>5
       DEF Kernel, PlugDisk, UnplugDisk, RepartitionDisk, MediaChange, Coldboot,
           PlugDuringColdboot, KernelStep, volumeVars, lockVars, workVars
  <2>2. Now' = Now
    BY <2>1 DEF Now, LeavesDisk
  <2>3. Trace(Now, uevents', Announced')
    BY <1>5, KernelTrace DEF QueueInv, IInv
  <2>4. QueueInv'
    BY <2>2, <2>3 DEF QueueInv, Trace, Leads
  <2>. QED
    BY <2>1, <2>4 DEF Calls, AbsentInv
<1>6. CASE UNCHANGED vars
  <2>1. Steady /\ Calls' /\ AbsentInv'
    BY <1>6 DEF vars, Steady, Calls, AbsentInv, LeavesDisk, volumeVars, lockVars, kernelVars, workVars
  <2>. QED
    BY <2>1, SteadyQueue
<1>. QED
  BY <1>2, <1>3, <1>4, <1>5, <1>6 DEF Next

(* At first there is neither a disk nor an event.                           *)
LEMMA EventInit == Init => EventInv
<1>. SUFFICES ASSUME Init PROVE EventInv
  OBVIOUS
<1>1. Calls /\ AbsentInv
  BY DEF Init, Calls, AbsentInv, Thread, DiskPoints, Handling, RemovalPoints
<1>2. Now = NoDisk /\ Announced = NoDisk /\ uevents = <<>>
  BY DEF Init, Now, Announced, NoDisk, LeavesDisk, Thread, Handling, RemovalPoints
<1>3. Trace(NoDisk, <<>>, NoDisk)
  <2>1. NoDisk \in Disk /\ <<>> \in Seq(Uevent) /\ Len(<<>>) = 0
    BY DEF NoDisk, Disk
  <2>2. \A i \in 1..Len(<<>>) : FALSE
    BY <2>1
  <2>. QED
    BY <2>1, <2>2, TraceSteady, Zenon
<1>. QED
  BY <1>1, <1>2, <1>3 DEF EventInv, QueueInv

(* Once everything is handled a volume without a disk says NoMedia: every   *)
(* uevent of its disk was for it, the removal came last, and no mount that  *)
(* was under way has set mState since.  With an unmount, a format or a      *)
(* share this is false: they end without asking whether the disk is there.  *)
THEOREM EmptyVolumeSaysSo ==
  ASSUME Commands \subseteq {"mount"}
  PROVE  Spec => []NoDiskNoMedia
<1>1. IInv /\ EventInv /\ [Next]_vars => EventInv'
  BY EventNext
<1>2. EventInv => NoDiskNoMedia
  <2>. SUFFICES ASSUME EventInv, Quiescent, plugged = -1 PROVE mState = "NoMedia"
    BY DEF NoDiskNoMedia
  <2>1. uevents = <<>> /\ pc["net"] = "idle"
    BY DEF Quiescent, Thread
  <2>2. Now = Announced
    BY <2>1, TraceEmpty DEF EventInv, QueueInv
  <2>3. Now = [minor |-> mDiskMinor, num |-> mDiskNumParts]
    BY <2>1 DEF Now, LeavesDisk, Handling, RemovalPoints
  <2>4. mDiskMinor = -1
    BY <2>2, <2>3 DEF Announced
  <2>. QED
    BY <2>4 DEF EventInv, AbsentInv
<1>. QED
  BY <1>1, <1>2, EventInit, Invariance, PTL DEF Spec

-----------------------------------------------------------------------------
(* The partitions still to come.                                            *)

Slots  == 1..Smaller(mDiskNumParts, MAX_PARTITIONS)
Unseen == {p \in Slots : mPartMinors[p] = -1}

\* mPendingPartMap counts them, or more: getDeviceNodes may give the chosen
\* partition a minor before its event comes.  The last slot is never filled.
SlotInv ==
  /\ Cardinality(Unseen) <= mPendingPartMap
  /\ pc["net"] = "init" => Unseen = {}
  /\ mPartIdx # MAX_PARTITIONS /\ mPartMinors[MAX_PARTITIONS] = -1

(* Some of the slots are finitely many, and no more than are waited for.    *)
LEMMA SomeSlots ==
  ASSUME NEW parts \in Nat, NEW T \in SUBSET (1..Smaller(parts, MAX_PARTITIONS))
  PROVE  /\ IsFiniteSet(T) /\ Cardinality(T) \in Nat
         /\ Cardinality(T) <= PartsToCome(parts)
         /\ Cardinality(T) = 0 => T = {}
<1>. DEFINE n == Smaller(parts, MAX_PARTITIONS)
<1>1. n \in Nat
  BY ParameterAssumption DEF Smaller
<1>2. PartsToCome(parts) = n
  BY DEF PartsToCome
<1>. HIDE DEF n
<1>3. IsFiniteSet(1..n) /\ Cardinality(1..n) = n
  <2>1. /\ IsFiniteSet(1..n)
        /\ Cardinality(1..n) = IF 1 > n THEN 0 ELSE n - 1 + 1
    BY <1>1, FS_Interval
  <2>. QED
    BY <1>1, <2>1
<1>4. T \in SUBSET (1..n)
  BY DEF n
<1>5. IsFiniteSet(T) /\ Cardinality(T) <= n
  BY <1>3, <1>4, FS_Subset
<1>. QED
  BY <1>2, <1>5, FS_CardinalityType, FS_EmptySet

(* So are the partitions still to come, before and after a step.            *)
LEMMA UnseenFinite ==
  ASSUME TypeOK
  PROVE  /\ IsFiniteSet(Unseen) /\ Cardinality(Unseen) \in Nat
         /\ Cardinality(Unseen) <= PartsToCome(mDiskNumParts)
         /\ Cardinality(Unseen) = 0 => Unseen = {}
<1>1. mDiskNumParts \in Nat /\ Unseen \in SUBSET (1..Smaller(mDiskNumParts, MAX_PARTITIONS))
  BY DEF TypeOK, Unseen, Slots
<1>. QED
  BY <1>1, SomeSlots

(* The same in the state that a step leads to.                              *)
LEMMA UnseenFiniteNext ==
  ASSUME TypeOK'
  PROVE  /\ IsFiniteSet(Unseen') /\ Cardinality(Unseen)' \in Nat
         /\ Cardinality(Unseen)' <= PartsToCome(mDiskNumParts')
         /\ Cardinality(Unseen)' = 0 => Unseen' = {}
<1>1. mDiskNumParts' \in Nat /\ Unseen' \in SUBSET (1..Smaller(mDiskNumParts', MAX_PARTITIONS))
  BY DEF TypeOK, Unseen, Slots
<1>. QED
  BY <1>1, SomeSlots

(* A step after which no more slots are empty, and no more are counted.     *)
LEMMA FewerUnseen ==
  ASSUME TypeOK, SlotInv, Unseen' \subseteq Unseen, mPendingPartMap' = mPendingPartMap
  PROVE  /\ Cardinality(Unseen)' <= mPendingPartMap'
         /\ Unseen = {} => Unseen' = {}
<1>1. IsFiniteSet(Unseen) /\ Cardinality(Unseen) \in Nat
  BY UnseenFinite
<1>2. IsFiniteSet(Unseen') /\ Cardinality(Unseen') <= Cardinality(Unseen)
  BY <1>1, FS_Subset
<1>3. Cardinality(Unseen') \in Nat
  BY <1>2, FS_CardinalityType
<1>4. mPendingPartMap \in Nat
  BY ParameterAssumption DEF TypeOK
<1>. QED
  BY <1>1, <1>2, <1>3, <1>4 DEF SlotInv

(* A step that leaves the partitions as they are.                           *)
LEMMA SameUnseen ==
  ASSUME TypeOK, SlotInv, UNCHANGED <<mDiskNumParts, mPartMinors, mPendingPartMap, mPartIdx>>,
         pc'["net"] = "init" => pc["net"] = "init"
  PROVE  SlotInv'
<1>1. Unseen' = Unseen
  BY DEF Unseen, Slots
<1>. QED
  BY <1>1 DEF SlotInv

(* A step of mountVol, of unmountVol or of an unshare: the chosen partition *)
(* may be given a minor.                                                    *)
LEMMA SlotCall ==
  ASSUME IInv, SlotInv, NEW t \in Thread, MountOrUnmount(t)
  PROVE  SlotInv'
<1>. USE DEF Goto, Thread
<1>1. pc \in [Thread -> CmdPoints \cup NetPoints] /\ TypeOK
  BY DEF IInv, TypeOK
<1>2. pc'["net"] = "init" => pc["net"] = "init"
  BY <1>1
     DEF MountOrUnmount, MountRefused, MountBegin, MountClearsStale, MountTryFails,
         MountTryMounts, MountAsecFails, MountFinish, UnmountRefused, UnmountBegin,
         UnmountSucceeds, UnmountFails, UnshareWritesLun, ConsiderNodes, MountReturns,
         UnmountReturns, AfterUnshare
<1>3. UNCHANGED <<mDiskNumParts, mPendingPartMap, mPartIdx>>
      /\ (mPartMinors' = mPartMinors \/ mPartMinors' = RepairedMinors)
  BY DEF MountOrUnmount, MountRefused, MountBegin, MountClearsStale, MountTryFails,
         MountTryMounts, MountAsecFails, MountFinish, UnmountRefused, UnmountBegin,
         UnmountSucceeds, UnmountFails, UnshareWritesLun, ConsiderNodes, diskVars, volumeVars
<1>4. CASE mPartMinors' = mPartMinors
  BY <1>1, <1>2, <1>3, <1>4, SameUnseen
<1>5. CASE mPartMinors' = RepairedMinors
  <2>1. /\ mPartMinors \in [1..MAX_PARTITIONS -> Nat \cup {-1}]
        /\ mPartIdx \in -1..MAX_PARTITIONS /\ MAX_PARTITIONS \in Nat \ {0}
        /\ mDiskNumParts \in Nat
    BY <1>1, ParameterAssumption DEF TypeOK
  <2>2. \A p \in 1..MAX_PARTITIONS : mPartMinors'[p] = -1 => mPartMinors[p] = -1
    BY <1>5, <2>1 DEF RepairedMinors
  <2>3. mPartMinors'[MAX_PARTITIONS] = mPartMinors[MAX_PARTITIONS]
    BY <1>5, <2>1 DEF RepairedMinors, SlotInv
  <2>4. Slots' = Slots /\ Slots \subseteq 1..MAX_PARTITIONS
    BY <1>3, <2>1 DEF Slots, Smaller
  <2>5. Unseen' \subseteq Unseen
    BY <2>2, <2>4 DEF Unseen
  <2>6. Cardinality(Unseen)' <= mPendingPartMap' /\ (Unseen = {} => Unseen' = {})
    BY <1>1, <1>3, <2>5, FewerUnseen
  <2>. QED
    BY <1>2, <1>3, <2>3, <2>6 DEF SlotInv
<1>. QED
  BY <1>3, <1>4, <1>5

(* A disk comes or changes: its partitions are counted anew.                *)
LEMMA SlotDisk ==
  ASSUME IInv, TypeOK', EventInv, SlotInv, DiskAdded \/ DiskChanged
  PROVE  SlotInv'
<1>1. UNCHANGED mPartIdx /\ mPartMinors'[MAX_PARTITIONS] = -1
  <2>1. MAX_PARTITIONS \in 1..MAX_PARTITIONS
    BY ParameterAssumption
  <2>. QED
    BY <2>1 DEF DiskAdded, DiskChanged, SlotInv
<1>2. mPendingPartMap' = PartsToCome(mDiskNumParts') /\ (pc'["net"] = "init" => mDiskNumParts' = 0)
  <2>1. pc \in [Thread -> CmdPoints \cup NetPoints] /\ "net" \in Thread
    BY DEF IInv, TypeOK, Thread
  <2>2. CASE DiskAdded
    <3>1. mState \notin {"Mounted", "Checking"}
      BY <2>2 DEF DiskAdded, Reading, Filtered, EventInv, AbsentInv
    <3>. QED
      BY <2>1, <2>2, <3>1 DEF DiskAdded, Goto
  <2>3. CASE DiskChanged
    BY <2>1, <2>3 DEF DiskChanged, Reading, Goto
  <2>. QED
    BY <2>2, <2>3
<1>3. /\ Cardinality(Unseen)' \in Nat /\ Cardinality(Unseen)' <= PartsToCome(mDiskNumParts')
      /\ Cardinality(Unseen)' = 0 => Unseen' = {}
  BY UnseenFiniteNext
<1>4. mDiskNumParts' = 0 => Unseen' = {}
  <2>1. PartsToCome(0) = 0
    BY ParameterAssumption DEF PartsToCome, Smaller
  <2>. QED
    BY <1>3, <2>1
<1>. QED
  BY <1>1, <1>2, <1>3, <1>4 DEF SlotInv

(* A partition comes: seen before or not, it is counted down at most once.  *)
LEMMA SlotPartition ==
  ASSUME IInv, TypeOK', EventInv, SlotInv, PartitionAdded
  PROVE  SlotInv'
<1>. DEFINE e == Head(uevents)
<1>1. /\ e \in Uevent /\ pc \in [Thread -> CmdPoints \cup NetPoints] /\ "net" \in Thread
      /\ pc["net"] = "idle" /\ uevents # <<>> /\ uevents \in Seq(Uevent)
      /\ e.type = "partition" /\ InRange(e.minor) /\ UNCHANGED mPartIdx
  BY TailTyped DEF IInv, TypeOK, PartitionAdded, Reading, Filtered, Thread
<1>2. /\ e.minor \in Nat /\ mDiskNumParts \in Nat /\ mPendingPartMap \in Nat
      /\ MAX_PARTITIONS \in Nat \ {0}
      /\ mPartMinors \in [1..MAX_PARTITIONS -> Nat \cup {-1}] /\ TypeOK
  <2>1. TypeOK
    BY DEF IInv
  <2>2. e.minor \in Nat
    BY <1>1 DEF Uevent
  <2>3. /\ mDiskNumParts \in Nat /\ mPendingPartMap \in Nat /\ MAX_PARTITIONS \in Nat \ {0}
        /\ mPartMinors \in [1..MAX_PARTITIONS -> Nat \cup {-1}]
    BY <2>1, ParameterAssumption DEF TypeOK
  <2>. QED
    BY <2>1, <2>2, <2>3, Zenon
<1>. HIDE DEF e
<1>3. e.num \in 1..mDiskNumParts
  <2>1. Now = [minor |-> mDiskMinor, num |-> mDiskNumParts]
    BY <1>1 DEF Now, LeavesDisk, Handling, RemovalPoints
  <2>2. Fits(Now, e)
    BY <1>1, TraceTail DEF EventInv, QueueInv, e
  <2>. QED
    BY <1>1, <2>1, <2>2 DEF Fits, InRange
<1>4. mDiskNumParts' = mDiskNumParts
  BY <1>2, <1>3 DEF PartitionAdded, e
<1>5. CASE UNCHANGED <<mPartMinors, mPendingPartMap>>
  <2>1. Unseen' = Unseen
    BY <1>4, <1>5 DEF Unseen, Slots
  <2>2. pc'["net"] = "init" => mPendingPartMap = 0
    BY <1>1, <1>5 DEF PartitionAdded, Goto
  <2>3. Cardinality(Unseen) \in Nat /\ (Cardinality(Unseen) = 0 => Unseen = {})
    BY <1>2, UnseenFinite
  <2>. QED
    BY <1>1, <1>2, <1>5, <2>1, <2>2, <2>3 DEF SlotInv
<1>6. CASE ~UNCHANGED <<mPartMinors, mPendingPartMap>>
  <2>. DEFINE p == e.num
  <2>1. /\ p \in 1..MAX_PARTITIONS /\ p < MAX_PARTITIONS /\ mPartMinors[p] < 0
        /\ mPartMinors' = [mPartMinors EXCEPT ![p] = e.minor]
        /\ mPendingPartMap' = IF mPendingPartMap = 0 THEN 0 ELSE mPendingPartMap - 1
    BY <1>6 DEF PartitionAdded, PartitionCounted, e
  <2>2. pc'["net"] = "init" => mPendingPartMap' = 0
    BY <1>1, <2>1 DEF PartitionAdded, Goto, e
  <2>. HIDE DEF p
  <2>3. mPartMinors[p] = -1 /\ p \in Slots /\ Slots' = Slots /\ Slots \subseteq 1..MAX_PARTITIONS
    BY <1>2, <1>3, <1>4, <2>1 DEF Slots, Smaller, p
  <2>4. p \in Unseen /\ Unseen' = Unseen \ {p}
    BY <1>2, <2>1, <2>3 DEF Unseen
  <2>5. /\ Cardinality(Unseen) \in Nat /\ IsFiniteSet(Unseen)
        /\ Cardinality(Unseen)' \in Nat /\ (Cardinality(Unseen)' = 0 => Unseen' = {})
    BY <1>2, UnseenFinite, UnseenFiniteNext
  <2>6. Cardinality(Unseen)' = Cardinality(Unseen) - 1
    BY <2>4, <2>5, FS_RemoveElement
  <2>7. Cardinality(Unseen)' <= mPendingPartMap'
    BY <1>2, <2>1, <2>5, <2>6 DEF SlotInv
  <2>8. pc'["net"] = "init" => Unseen' = {}
    BY <2>2, <2>5, <2>7
  <2>9. mPartMinors'[MAX_PARTITIONS] = -1
    BY <1>2, <2>1 DEF SlotInv
  <2>. QED
    BY <1>1, <2>7, <2>8, <2>9 DEF SlotInv
<1>. QED
  BY <1>5, <1>6

(* initMountpoint chooses a partition that was seen, and a removal empties  *)
(* all slots.                                                               *)
LEMMA SlotHandler ==
  ASSUME IInv, TypeOK', SlotInv, InitMountpoint \/ RemoveEnd
  PROVE  SlotInv'
<1>1. /\ pc \in [Thread -> CmdPoints \cup NetPoints] /\ "net" \in Thread /\ TypeOK
      /\ filesystems \subseteq Nat /\ MAX_PARTITIONS \in Nat \ {0}
  BY ParameterAssumption DEF IInv, TypeOK, Thread
<1>2. pc'["net"] # "init"
  BY <1>1 DEF InitMountpoint, RemoveEnd, Goto
<1>3. CASE InitMountpoint
  <2>1. UNCHANGED <<mDiskNumParts, mPartMinors, mPendingPartMap>>
    BY <1>3 DEF InitMountpoint
  <2>2. mPartIdx' # MAX_PARTITIONS
    <3>1. PICK sized \in SUBSET filesystems :
            mPartIdx' \in IF mPartIdx = -1 /\ mDiskNumParts # 0
                          THEN PrimaryPartition(sized) ELSE {mPartIdx}
      BY <1>3 DEF InitMountpoint
    <3>2. mPartMinors[MAX_PARTITIONS] \notin sized
      BY <1>1, <3>1 DEF SlotInv
    <3>3. MAX_PARTITIONS \notin PrimaryPartition(sized)
      BY <1>1, <3>2 DEF PrimaryPartition
    <3>. QED
      BY <3>1, <3>3 DEF SlotInv
  <2>3. Unseen' = Unseen
    BY <2>1 DEF Unseen, Slots
  <2>. QED
    BY <1>2, <2>1, <2>2, <2>3 DEF SlotInv
<1>4. CASE RemoveEnd
  <2>1. CASE evt.type = "disk"
    <3>1. /\ mDiskNumParts' = 0 /\ mPartIdx' = -1
          /\ mPartMinors' = [i \in 1..MAX_PARTITIONS |-> -1] /\ mPendingPartMap' = mPendingPartMap
      BY <1>4, <2>1 DEF RemoveEnd
    <3>2. Unseen' = {}
      <4>1. PartsToCome(0) = 0
        BY ParameterAssumption DEF PartsToCome, Smaller
      <4>. QED
        BY <3>1, <4>1, UnseenFiniteNext
    <3>3. Cardinality(Unseen)' = 0
      BY <3>2, FS_EmptySet
    <3>4. mPendingPartMap \in Nat
      BY <1>1 DEF TypeOK
    <3>. QED
      BY <1>1, <1>2, <3>1, <3>2, <3>3, <3>4 DEF SlotInv
  <2>2. CASE evt.type # "disk"
    BY <1>1, <1>2, <1>4, <2>2, SameUnseen DEF RemoveEnd
  <2>. QED
    BY <2>1, <2>2
<1>. QED
  BY <1>3, <1>4

(* Every step keeps the count of the partitions still to come.              *)
LEMMA SlotNext ==
  ASSUME IInv, TypeOK', EventInv, SlotInv, [Next]_vars
  PROVE  SlotInv'
<1>. USE DEF Goto, Thread, diskVars, volumeVars
<1>1. pc \in [Thread -> CmdPoints \cup NetPoints] /\ TypeOK
  BY DEF IInv, TypeOK
<1>2. CASE StartCommand
  BY <1>1, <1>2, SameUnseen
     DEF StartCommand, StartMount, StartUnmount, StartFormat, StartShare, StartUnshare
<1>3. CASE CmdStep
  <2>1. CASE MountOrUnmount("cmd")
    BY <2>1, SlotCall
  <2>2. CASE FormatChecksMounts \/ FormatEnds \/ ShareWritesLun
    BY <1>1, <2>2, SameUnseen DEF FormatChecksMounts, FormatEnds, ShareWritesLun
  <2>. QED
    BY <1>3, <2>1, <2>2 DEF CmdStep
<1>4. CASE NetStep
  <2>1. CASE MountOrUnmount("net")
    BY <2>1, SlotCall
  <2>2. CASE DiskAdded \/ DiskChanged
    BY <2>2, SlotDisk
  <2>3. CASE PartitionAdded
    BY <2>3, SlotPartition
  <2>4. CASE InitMountpoint \/ RemoveEnd
    BY <2>4, SlotHandler
  <2>5. CASE EventIgnored \/ NotifyInserted \/ DiskRemoved \/ PartitionRemoved
    BY <1>1, <2>5, SameUnseen
       DEF EventIgnored, NotifyInserted, DiskRemoved, PartitionRemoved, Removed
  <2>6. CASE RemoveBegin \/ RemoveChecksShare \/ UnmountUnshare \/ RemoveUnlock
    BY <1>1, <2>6, SameUnseen
       DEF RemoveBegin, RemoveChecksShare, UnmountUnshare, RemoveUnlock, AfterUnshare
  <2>. QED
    BY <1>4, <2>1, <2>2, <2>3, <2>4, <2>5, <2>6 DEF NetStep
<1>5. CASE Kernel
  BY <1>1, <1>5, SameUnseen
     DEF Kernel, PlugDisk, UnplugDisk, RepartitionDisk, MediaChange, Coldboot,
         PlugDuringColdboot, KernelStep
<1>6. CASE UNCHANGED vars
  BY <1>1, <1>6, SameUnseen DEF vars
<1>. QED
  BY <1>2, <1>3, <1>4, <1>5, <1>6 DEF Next

(* No partition is waited for at first.                                     *)
LEMMA SlotInit == Init => SlotInv
<1>. SUFFICES ASSUME Init PROVE SlotInv
  OBVIOUS
<1>1. TypeOK
  BY IInvInit DEF IInv
<1>2. mDiskNumParts = 0 /\ mPartIdx = -1 /\ mPendingPartMap = 0 /\ pc["net"] = "idle"
      /\ mPartMinors[MAX_PARTITIONS] = -1 /\ MAX_PARTITIONS # -1
  BY ParameterAssumption DEF Init, Thread
<1>3. Cardinality(Unseen) \in Nat /\ Cardinality(Unseen) <= 0
  <2>1. PartsToCome(0) = 0
    BY ParameterAssumption DEF PartsToCome, Smaller
  <2>. QED
    BY <1>1, <1>2, <2>1, UnseenFinite
<1>. QED
  BY <1>2, <1>3 DEF SlotInv

(* However often and in whatever order its uevents come, a disk is          *)
(* initialised only once every one of its partitions has its minor; one     *)
(* with more partitions than mPartMinors counts is never initialised.       *)
THEOREM ReadyIsComplete ==
  ASSUME Commands \subseteq {"mount"}
  PROVE  Spec => []ReadyWhenAllSeen
<1>1. Init => SlotInv
  BY SlotInit
<1>2. IInv /\ IInv' /\ EventInv /\ SlotInv /\ [Next]_vars => SlotInv'
  BY SlotNext DEF IInv
<1>3. IInv /\ EventInv /\ [Next]_vars => EventInv'
  BY EventNext
<1>4. IInv /\ SlotInv => ReadyWhenAllSeen
  <2>. SUFFICES ASSUME IInv, SlotInv, pc["net"] = "init", NEW p \in 1..mDiskNumParts
                PROVE  mPartMinors[p] # -1
    BY DEF ReadyWhenAllSeen
  <2>1. Unseen = {} /\ mPartMinors[MAX_PARTITIONS] = -1 /\ mDiskNumParts \in Nat
        /\ MAX_PARTITIONS \in Nat \ {0}
    BY ParameterAssumption DEF SlotInv, IInv, TypeOK
  <2>2. MAX_PARTITIONS \notin Slots
    BY <2>1 DEF Unseen
  <2>3. p \in Slots
    BY <2>1, <2>2 DEF Slots, Smaller
  <2>. QED
    BY <2>1, <2>3 DEF Unseen
<1>. QED
  BY <1>1, <1>2, <1>3, <1>4, EventInit, Invariance, PTL DEF Spec

=============================================================================
