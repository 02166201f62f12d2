--------------------------- MODULE CryptfsProofs ---------------------------
(***************************************************************************)
(* Theorems about Cryptfs, for every number of volumes and passwords and   *)
(* for every choice of calls that may fail, unless a theorem names calls   *)
(* that must not.                                                          *)
(*                                                                         *)
(* One inductive invariant, Inv, says where the running command is and     *)
(* what it holds.  What is true of the data rests on five more: VolumeInv  *)
(* and UserdataInv follow the devices over the partitions, SealInv what    *)
(* the footers and the saved key say of the data, KeyInv the key through   *)
(* the footers, ClearInv the data that is not encrypted yet.               *)
(***************************************************************************)
EXTENDS Cryptfs, TLAPS

Preparing == {"disable", "tmpfs", "key", "map"}
Writing   == {"convert", "converting", "unmap", "finish"}
Ending    == {"reboot", "error_shutting_down", "recovery"}

\* vold reboots into recovery when an encryption failed half-way.
Wipes == TRUE \in WipeOnFail

(* The device is encrypted, or cryptfs_enable may run, never both.  The     *)
(* wakelock outlasts the command only if recovery was not reached.          *)
States ==
  /\ encrypted => content[0] # Clear /\ ~wakelock
  /\ encrypted => pc \in {"idle", "check", "rewrap", "restart"}
  /\ ~encrypted => pc \notin {"check", "rewrap", "restart"}
  /\ pc \in Preparing \cup Writing \cup Ending => wakelock
  /\ pc = "recovery" => Wipes
  /\ Idle /\ wakelock => Wipes /\ MayFail("reboot")

(* From the new footer on, the footer says that an encryption is under way. *)
Flagged ==
  "put" \notin Faults /\ (pc \in {"map", "recovery"} \cup Writing \/ (Idle /\ wakelock))
    => footer.inProgress

(* The way of cryptfs_enable up to the first write.                         *)
BeforeWriting ==
  /\ pc = "disable" => part \in 1..(NumVolumes + 1) /\ mounted \subseteq part..NumVolumes
  /\ pc \in {"disable", "tmpfs", "key"} => drawn < MaxKeys

WhileWriting ==
  /\ pc \in Preparing \cup Writing => pw \in Passwords
  /\ pc \in {"tmpfs", "key", "map"} \cup Writing => mounted = {} /\ data # "fs"
  /\ pc \in {"map"} \cup Writing => drawn \in Key /\ mine = NewFooter(pw, drawn)
  /\ pc \in {"convert", "converting"} => part \in Part
  /\ pc = "converting" => dm[part] \in Key

(* Only a device whose footer is complete is unlocked.                      *)
Unlocking ==
  /\ prompted => encrypted /\ Complete(footer)
  /\ saved # NoKey => encrypted /\ Complete(footer)
  /\ pc \in {"check", "rewrap"} =>
       Complete(footer) /\ Complete(mine) /\ mine.minor = CurrentMinor /\ pw \in Passwords
  /\ pc = "check" => saved = NoKey /\ mine.fails < MaxFailed
  /\ pc \in {"rewrap", "restart"} => saved # NoKey

Inv == TypeOK /\ States /\ Flagged /\ BeforeWriting /\ WhileWriting /\ Unlocking

-----------------------------------------------------------------------------
(* The helpers.                                                             *)

\* What upgrade_crypt_ftr keeps of a footer, and that it ends at the current version.
LEMMA UpgradeKeeps ==
  ASSUME NEW f \in Footer
  PROVE  /\ Upgrade(f) \in Footer
         /\ Upgrade(f).magic = f.magic /\ Upgrade(f).inProgress = f.inProgress
         /\ Upgrade(f).key = f.key /\ Upgrade(f).fails = f.fails
         /\ f.magic => Upgrade(f).minor = CurrentMinor
         /\ Upgrade(Upgrade(f)) = Upgrade(f)
  <1>1. CASE f.magic /\ f.minor < CurrentMinor
    <2> DEFINE g == [f EXCEPT !.minor = CurrentMinor, !.kdf = "pbkdf2"]
    <2>1. Upgrade(f) = g BY <1>1 DEF Upgrade
    <2>2. g \in Footer
      <3>1. CurrentMinor \in 1..CurrentMinor /\ "pbkdf2" \in Kdf BY DEF CurrentMinor, Kdf
      <3> QED BY <3>1 DEF Footer
    <2>3. /\ g.magic = f.magic /\ g.inProgress = f.inProgress /\ g.key = f.key
          /\ g.fails = f.fails /\ g.minor = CurrentMinor
      BY DEF Footer
    <2>4. Upgrade(g) = g
      <3> HIDE DEF g
      <3> QED BY <2>3 DEF Upgrade, CurrentMinor
    <2> HIDE DEF g
    <2> QED BY <2>1, <2>2, <2>3, <2>4
  <1>2. CASE ~(f.magic /\ f.minor < CurrentMinor)
    <2>1. Upgrade(f) = f BY <1>2 DEF Upgrade
    <2>2. f.minor \in 1..CurrentMinor BY DEF Footer
    <2> QED BY <1>2, <2>1, <2>2 DEF CurrentMinor
  <1> QED BY <1>1, <1>2

\* A footer with one field written is a footer that differs in that field.
LEMMA FieldWritten ==
  ASSUME NEW f \in Footer
  PROVE  /\ \A n \in 0..MaxFailed :
              LET g == [f EXCEPT !.fails = n]
              IN  /\ g \in Footer /\ g.fails = n /\ g.key = f.key /\ g.kdf = f.kdf
                  /\ g.magic = f.magic /\ g.inProgress = f.inProgress /\ g.minor = f.minor
         /\ LET g == [f EXCEPT !.inProgress = FALSE]
            IN  /\ g \in Footer /\ g.fails = f.fails /\ g.key = f.key /\ g.kdf = f.kdf
                /\ g.magic = f.magic /\ g.inProgress = FALSE /\ g.minor = f.minor
         /\ LET g == [f EXCEPT !.kdf = "scrypt"]
            IN  /\ g \in Footer /\ g.fails = f.fails /\ g.key = f.key /\ g.kdf = "scrypt"
                /\ g.magic = f.magic /\ g.inProgress = f.inProgress /\ g.minor = f.minor
  BY DEF Footer, Kdf

\* What encrypt_master_key writes, and what it leaves.
LEMMA RewrapKeeps ==
  ASSUME NEW f \in Footer, NEW p \in Passwords, NEW k \in Key
  PROVE  LET g == Rewrap(f, p, k)
         IN  /\ g \in Footer /\ g.fails = f.fails /\ g.key = Wrap(k, p, "scrypt") /\ g.kdf = f.kdf
             /\ g.magic = f.magic /\ g.inProgress = f.inProgress /\ g.minor = f.minor
  <1>1. Wrap(k, p, "scrypt") \in Wrapped BY DEF Wrap, Wrapped, Kdf
  <1> QED BY <1>1 DEF Rewrap, Footer

\* What cryptfs_enable writes first.
LEMMA NewFooterFields ==
  ASSUME NEW p \in Passwords, NEW k \in Key
  PROVE  LET g == NewFooter(p, k)
         IN  /\ g \in Footer /\ g.fails = 0 /\ g.key = Wrap(k, p, "scrypt") /\ g.kdf = "scrypt"
             /\ g.magic = TRUE /\ g.inProgress = TRUE /\ g.minor = CurrentMinor
  <1>1. Wrap(k, p, "scrypt") \in Wrapped BY DEF Wrap, Wrapped, Kdf
  <1>2. CurrentMinor \in 1..CurrentMinor /\ "scrypt" \in Kdf /\ 0 \in 0..MaxFailed
    BY CryptAssumption DEF CurrentMinor, Kdf
  <1> QED BY <1>1, <1>2 DEF Footer, NewFooter

\* The footers a device comes with.
LEMMA InitialFooters ==
  /\ Blank \in Footer /\ ~Complete(Blank)
  /\ \A p \in Passwords : Legacy(p) \in Footer /\ Legacy(p).key = Wrap(1, p, "pbkdf2")
                          /\ Legacy(p).magic /\ Legacy(p).minor = 1
  <1>1. CurrentMinor \in 1..CurrentMinor /\ 1 \in 1..CurrentMinor /\ 0 \in 0..MaxFailed
        /\ "scrypt" \in Kdf
    BY CryptAssumption DEF CurrentMinor, Kdf
  <1>2. Wrap(NoKey, NoPassword, "scrypt") \in Wrapped BY DEF Wrap, Wrapped, Kdf
  <1>3. Blank \in Footer /\ ~Complete(Blank) BY <1>1, <1>2 DEF Footer, Blank, Complete
  <1>4. ASSUME NEW p \in Passwords
        PROVE  Legacy(p) \in Footer /\ Legacy(p).key = Wrap(1, p, "pbkdf2")
               /\ Legacy(p).magic /\ Legacy(p).minor = 1
    <2>1. Wrap(1, p, "pbkdf2") \in Wrapped BY CryptAssumption DEF Wrap, Wrapped, Kdf, Key
    <2> QED BY <1>1, <2>1 DEF Footer, Legacy
  <1> QED BY <1>3, <1>4

\* A password unwraps a key, or none.
LEMMA UnwrapType ==
  ASSUME NEW f \in Footer, NEW p
  PROVE  Unwrap(f, p) \in Key \cup {NoKey}
  BY DEF Unwrap, Footer, Wrapped

\* The key a footer holds for its password is what an upgrade of it holds.
LEMMA UpgradeOpens ==
  ASSUME NEW f \in Footer
  PROVE  /\ KeyOf(Upgrade(f)) = KeyOf(f)
         /\ KeyOf(f) \in {NoKey, f.key.mk} /\ f.key.mk \in Key \cup {NoKey}
         /\ KeyOf(f) # NoKey => f.key.pw \in Passwords
  <1>1. Upgrade(Upgrade(f)) = Upgrade(f) /\ Upgrade(f).key = f.key /\ Upgrade(f) \in Footer
    BY UpgradeKeeps
  <1>2. f.key.mk \in Key \cup {NoKey} BY DEF Footer, Wrapped
  <1>3. KeyOf(f) \in {NoKey, f.key.mk} BY <1>1 DEF KeyOf, Unwrap
  <1>4. KeyOf(Upgrade(f)) = KeyOf(f) BY <1>1 DEF KeyOf
  <1> QED BY <1>2, <1>3, <1>4 DEF KeyOf

\* Reading the footer leaves it as it was or upgrades it.
LEMMA GetKeeps ==
  ASSUME TypeOK, Get
  PROVE  /\ footer' \in Footer /\ footer' \in {footer, Upgrade(footer)}
         /\ footer'.magic = footer.magic /\ footer'.inProgress = footer.inProgress
         /\ footer'.key = footer.key /\ KeyOf(footer') = KeyOf(footer)
  <1>1. footer \in Footer BY DEF TypeOK
  <1>2. footer' \in {footer, Upgrade(footer)} BY DEF Get
  <1> QED BY <1>1, <1>2, UpgradeKeeps, UpgradeOpens

\* A footer whose failure count is written.
LEMMA FailsWritten ==
  ASSUME NEW f \in Footer, NEW n \in 0..MaxFailed, NEW g, g = [f EXCEPT !.fails = n]
  PROVE  /\ g \in Footer /\ g.key = f.key /\ g.kdf = f.kdf
         /\ g.magic = f.magic /\ g.inProgress = f.inProgress /\ g.minor = f.minor
  BY DEF Footer

-----------------------------------------------------------------------------
(* Steps that take more than one leaf: booting.                             *)

\* Whether the device is encrypted is read off userdata when it boots.
LEMMA BootStates ==
  ASSUME Boot
  PROVE  /\ encrypted' \in BOOLEAN /\ wakelock' \in BOOLEAN /\ ~wakelock' /\ ~prompted'
         /\ prompted' \in BOOLEAN /\ restarted' \in BOOLEAN
         /\ encrypted' <=> content[0] # Clear
  BY Zenon DEF Boot

\* A boot, after a power failure or cryptfs_reboot, from either copy of the footer.
LEMMA BootKeeps ==
  ASSUME Inv, Boot, footer' \in {footer, disk}, disk' \in {footer, disk}, UNCHANGED <<content, drawn>>
  PROVE  Inv'
  <1>0. footer' \in Footer /\ disk' \in Footer BY DEF Inv, TypeOK
  <1>01. /\ data' \in {"fs", "tmpfs"} /\ framework' \in {"up", "min"}
         /\ saved' = NoKey /\ dm' = [q \in Part |-> NoMap] /\ mounted' = {}
         /\ progress' = "none" /\ persist' = "none"
         /\ pc' = "idle" /\ rc' = 0 /\ how' = "none" /\ pw' = NoPassword /\ mine' = Blank /\ part' = 0
    BY DEF Boot, Return
  <1>1. TypeOK'
    BY <1>0, <1>01, BootStates, CryptAssumption, InitialFooters DEF Inv, TypeOK
  <1>2. (encrypted' <=> content[0] # Clear) /\ ~wakelock' BY BootStates
  <1>3. States' BY <1>01, <1>2 DEF States, Preparing, Writing, Ending
  <1>4. Flagged' BY <1>01, <1>2 DEF Flagged, Writing
  <1>5. BeforeWriting' BY <1>01 DEF BeforeWriting
  <1>6. WhileWriting' BY <1>01 DEF WhileWriting, Preparing, Writing
  <1>7. Unlocking' BY <1>01, BootStates DEF Unlocking
  <1> QED BY <1>1, <1>3, <1>4, <1>5, <1>6, <1>7 DEF Inv

\* error_unencrypted.
LEMMA NotEncryptedType ==
  ASSUME Inv, NotEncrypted, UNCHANGED <<diskVars, bootVars, persist>>
  PROVE  TypeOK'
  <1>1. wakelock' \in BOOLEAN BY Zenon DEF NotEncrypted
  <1> QED BY <1>1, CryptAssumption, InitialFooters
          DEF Inv, NotEncrypted, TypeOK, Return, diskVars, bootVars

-----------------------------------------------------------------------------
(* Steps that take more than one leaf: cryptfs_enable.                      *)

\* EnableStart takes the wakelock, or leaves it as it is.
LEMMA EnableStartType ==
  ASSUME Inv, NEW h \in {"wipe", "inplace"}, NEW p \in Passwords, EnableStart(h, p)
  PROVE  TypeOK'
  <1>1. wakelock' \in BOOLEAN BY Zenon DEF EnableStart, Inv, TypeOK
  <1> QED BY <1>1, CryptAssumption, InitialFooters
          DEF Inv, EnableStart, TypeOK, Return, Goto, diskVars, bootVars

\* The key is drawn and the footer is written, in progress.
LEMMA EnableMakeKeyKeeps ==
  ASSUME Inv, EnableMakeKey
  PROVE  TypeOK' /\ Flagged' /\ WhileWriting'
  <1>0. pc = "key" /\ drawn < MaxKeys /\ drawn \in 0..MaxKeys /\ pw \in Passwords
        /\ mounted = {} /\ data # "fs"
    BY DEF Inv, EnableMakeKey, BeforeWriting, WhileWriting, Preparing, TypeOK
  <1>1. drawn + 1 \in Key /\ drawn + 1 \in 0..MaxKeys BY <1>0, CryptAssumption DEF Key
  <1> DEFINE f == NewFooter(pw, drawn + 1)
  <1>2. f \in Footer /\ f.inProgress BY <1>0, <1>1, NewFooterFields
  <1>3. PICK ok \in Outcomes("put") : Put(f, ok) BY DEF EnableMakeKey
  <1>4. footer' \in {footer, f} /\ ("put" \notin Faults => footer' = f)
    BY <1>3 DEF Put, Outcomes, MayFail
  <1>5. mine' = f /\ drawn' = drawn + 1 /\ pc' = "map" BY DEF EnableMakeKey, Goto
  <1>6. UNCHANGED <<content, disk, bootVars, progress, wakelock, how, pw, part, rc>> /\ persist' = "loaded"
    BY DEF EnableMakeKey
  <1>7. mine' = NewFooter(pw', drawn') BY <1>5, <1>6
  <1> HIDE DEF f
  <1>8. TypeOK' BY <1>1, <1>2, <1>4, <1>5, <1>6 DEF Inv, TypeOK, bootVars
  <1>9. Flagged' BY <1>2, <1>4 DEF Flagged
  <1>10. WhileWriting' BY <1>0, <1>1, <1>5, <1>6, <1>7 DEF WhileWriting, bootVars
  <1> QED BY <1>8, <1>9, <1>10

\* The devices get a key or no table.
LEMMA EnableMapType ==
  ASSUME Inv, EnableMap
  PROVE  TypeOK'
  <1>1. mine \in Footer /\ Unwrap(mine, pw) \in Key \cup {NoKey}
    BY UnwrapType DEF Inv, TypeOK
  <1>2. dm' \in [Part -> {NoTable, NoMap, NoKey} \cup Key] BY <1>1 DEF EnableMap, Inv, TypeOK
  <1>3. pc' = "convert" /\ part' = 0 BY DEF EnableMap, Goto
  <1>4. UNCHANGED <<diskVars, encrypted, saved, data, mounted, framework, prompted, restarted,
                    otherVars, how, pw, mine, rc>>
    BY DEF EnableMap
  <1> QED BY <1>2, <1>3, <1>4, CryptAssumption DEF Inv, TypeOK, diskVars, otherVars

\* Where a result of a partition leads.
LEMMA AfterGoes ==
  ASSUME NEW r \in Int, After(r), part \in Part
  PROVE  /\ rc' = r
         /\ \/ pc' = "unmap" /\ part' = part
            \/ pc' = "convert" /\ part' = part + 1 /\ part' \in Part
  BY CryptAssumption DEF After, Goto, Part

\* What a partition holds after a write through the device over it.
LEMMA ContentType ==
  ASSUME content \in [Part -> (-MaxKeys)..MaxKeys], NEW q \in Part, NEW k \in Key
  PROVE  /\ [content EXCEPT ![q] = k] \in [Part -> (-MaxKeys)..MaxKeys]
         /\ [content EXCEPT ![q] = -k] \in [Part -> (-MaxKeys)..MaxKeys]
  <1>1. k \in (-MaxKeys)..MaxKeys /\ -k \in (-MaxKeys)..MaxKeys BY CryptAssumption DEF Key
  <1> QED BY <1>1

\* The first block is written, or nothing is.
LEMMA EnableConvertType ==
  ASSUME Inv, EnableConvert
  PROVE  TypeOK' /\ WhileWriting'
  <1>1. /\ pc = "convert" /\ part \in Part /\ content \in [Part -> (-MaxKeys)..MaxKeys]
        /\ dm[part] \in {NoTable, NoMap, NoKey} \cup Key
        /\ pw \in Passwords /\ mounted = {} /\ data # "fs" /\ drawn \in Key /\ mine = NewFooter(pw, drawn)
    BY DEF Inv, EnableConvert, WhileWriting, TypeOK, Writing
  <1>2. UNCHANGED <<footer, disk, drawn, bootVars, otherVars, how, pw, mine>> BY DEF EnableConvert
  <1>3. \/ /\ dm[part] \in Key /\ content' = [content EXCEPT ![part] = -dm[part]]
           /\ pc' = "converting" /\ UNCHANGED <<part, rc>>
        \/ UNCHANGED content /\ After(-1)
    BY <1>1 DEF EnableConvert, Goto, Key, NoTable, NoMap, NoKey
  <1>4. content' \in [Part -> (-MaxKeys)..MaxKeys] BY <1>1, <1>3, ContentType
  <1>5. /\ part' \in Part /\ rc' \in Int /\ pc' \in {"converting", "convert", "unmap"}
        /\ pc' = "converting" => dm'[part'] \in Key
    BY <1>1, <1>2, <1>3, AfterGoes DEF Inv, TypeOK, bootVars
  <1>6. part' \in 0..(NumVolumes + 1) BY <1>5, CryptAssumption DEF Part
  <1>7. TypeOK' BY <1>2, <1>4, <1>5, <1>6 DEF Inv, TypeOK, bootVars, otherVars
  <1>8. WhileWriting' BY <1>1, <1>2, <1>5 DEF WhileWriting, bootVars
  <1> QED BY <1>7, <1>8

\* A partition is written to its end, or given up.
LEMMA EnableConvertedKeeps ==
  ASSUME Inv, EnableConverted
  PROVE  TypeOK' /\ WhileWriting'
  <1>1. /\ pc = "converting" /\ part \in Part /\ content \in [Part -> (-MaxKeys)..MaxKeys]
        /\ dm[part] \in Key
        /\ pw \in Passwords /\ mounted = {} /\ data # "fs" /\ drawn \in Key /\ mine = NewFooter(pw, drawn)
    BY DEF Inv, EnableConverted, WhileWriting, TypeOK, Writing
  <1>2. UNCHANGED <<footer, disk, drawn, bootVars, otherVars, how, pw, mine>> BY DEF EnableConverted
  <1>3. \/ content' = [content EXCEPT ![part] = dm[part]] /\ After(0)
        \/ UNCHANGED content /\ After(-1)
    BY DEF EnableConverted
  <1>4. content' \in [Part -> (-MaxKeys)..MaxKeys] BY <1>1, <1>3, ContentType
  <1>5. part' \in Part /\ rc' \in Int /\ pc' \in {"convert", "unmap"} BY <1>1, <1>3, AfterGoes
  <1>6. part' \in 0..(NumVolumes + 1) BY <1>5, CryptAssumption DEF Part
  <1>7. TypeOK' BY <1>2, <1>4, <1>5, <1>6 DEF Inv, TypeOK, bootVars, otherVars
  <1>8. WhileWriting' BY <1>1, <1>2, <1>5 DEF WhileWriting, bootVars
  <1> QED BY <1>7, <1>8

\* Recovery is not reached.
LEMMA RecoveryFailsType ==
  ASSUME Inv, RecoveryFails
  PROVE  TypeOK'
  BY CryptAssumption, InitialFooters
     DEF Inv, RecoveryFails, TypeOK, Return, diskVars, bootVars, otherVars

\* The partially encrypted device.
LEMMA EnableFailsType ==
  ASSUME Inv, EnableFails
  PROVE  TypeOK'
  <1>1. wakelock' \in BOOLEAN BY Zenon DEF EnableFails
  <1> QED BY <1>1, CryptAssumption, InitialFooters
          DEF Inv, EnableFails, DeleteDevices, NoMap, TypeOK, Return, diskVars

\* The flag goes from the footer.
LEMMA EnableFinishType ==
  ASSUME Inv, EnableFinish
  PROVE  TypeOK'
  <1> DEFINE f == [mine EXCEPT !.inProgress = FALSE]
  <1>1. f \in Footer BY FieldWritten DEF Inv, TypeOK
  <1>2. mine' \in Footer /\ footer' \in Footer BY <1>1 DEF EnableFinish, Put, Inv, TypeOK
  <1>3. pc' = "reboot" /\ UNCHANGED <<content, disk, drawn, bootVars, otherVars, how, pw, part, rc>>
    BY DEF EnableFinish, Goto
  <1> QED BY <1>2, <1>3 DEF Inv, TypeOK, bootVars, otherVars

\* cryptfs_reboot returns.
LEMMA RebootFailsType ==
  ASSUME Inv, RebootFails
  PROVE  TypeOK'
  <1>1. wakelock' \in BOOLEAN BY Zenon DEF RebootFails
  <1> QED BY <1>1, CryptAssumption, InitialFooters
          DEF Inv, RebootFails, TypeOK, Return, diskVars, bootVars

-----------------------------------------------------------------------------
(* Steps that take more than one leaf: the password.                        *)

\* The UI asks for a password only if the footer is complete.
LEMMA CryptoCompleteUnlocks ==
  ASSUME Inv, CryptoComplete
  PROVE  Unlocking'
  <1>1. PICK readable \in {Readable} \cup {r \in {FALSE} : MayFail("get")} :
          prompted' = (CompleteCode(readable) = 0)
    BY Zenon DEF CryptoComplete
  <1>2. CompleteCode(readable) = 0 => encrypted /\ readable /\ ~footer.inProgress
    BY DEF CompleteCode
  <1>3. readable => footer.magic BY <1>1 DEF Readable
  <1>4. prompted' => encrypted /\ Complete(footer) BY Zenon, <1>1, <1>2, <1>3 DEF Complete
  <1>5. Complete(footer)' <=> Complete(footer) BY GetKeeps DEF Inv, CryptoComplete, Complete
  <1> QED BY <1>4, <1>5 DEF Inv, Unlocking, CryptoComplete, Return

\* The device over userdata gets what the password unwraps.
LEMMA CheckPasswdType ==
  ASSUME Inv, NEW p \in Passwords, CheckPasswd(p)
  PROVE  TypeOK'
  <1>1. footer \in Footer /\ Upgrade(footer) \in Footer BY UpgradeKeeps DEF Inv, TypeOK
  <1>2. footer' \in Footer BY <1>1 DEF CheckPasswd, Get
  <1>3. Unwrap(Upgrade(footer), p) \in Key \cup {NoKey} BY <1>1, UnwrapType
  <1>4. PICK d \in {NoTable, NoKey} \cup Key : dm' = dm \/ dm' = [dm EXCEPT ![0] = d]
    BY <1>3 DEF CheckPasswd
  <1>5. dm' \in [Part -> {NoTable, NoMap, NoKey} \cup Key] BY <1>4 DEF Inv, TypeOK
  <1>6. /\ mine' \in Footer /\ rc' \in Int /\ pc' \in {"idle", "check"} /\ pw' \in Passwords \cup {NoPassword}
        /\ how' \in {"none", how} /\ part' \in {0, part}
    BY <1>1, InitialFooters DEF CheckPasswd, Goto, Return, Inv, TypeOK
  <1>7. UNCHANGED <<content, disk, drawn, encrypted, saved, data, mounted, framework, prompted,
                    restarted, otherVars>>
    BY DEF CheckPasswd
  <1> QED BY <1>2, <1>5, <1>6, <1>7, CryptAssumption DEF Inv, TypeOK, otherVars

\* The right password: the key of the test mount is saved.
LEMMA CheckMountsKeeps ==
  ASSUME Inv, CheckMounts
  PROVE  TypeOK' /\ Unlocking'
  <1>1. /\ encrypted /\ Complete(footer) /\ Complete(mine) /\ mine.minor = CurrentMinor /\ pw \in Passwords
        /\ mine \in Footer /\ footer \in Footer
    BY DEF Inv, States, Unlocking, CheckMounts, TypeOK
  <1>2. dm[0] \in Key
    <2>1. dm[0] \in {NoTable, NoMap, NoKey} \cup Key /\ dm[0] > 0
      BY CryptAssumption DEF CheckMounts, Inv, TypeOK, Part
    <2> QED BY <2>1 DEF NoTable, NoMap, NoKey
  <1> DEFINE f == [mine EXCEPT !.fails = 0]
  <1>3. f \in Footer /\ Complete(f) /\ f.minor = CurrentMinor
    <2>1. 0 \in 0..MaxFailed BY CryptAssumption
    <2>2. f \in Footer /\ f.magic = mine.magic /\ f.inProgress = mine.inProgress /\ f.minor = mine.minor
      BY <2>1, <1>1, FailsWritten
    <2> HIDE DEF f
    <2> QED BY <2>2, <1>1 DEF Complete
  <1>4. footer' \in {footer, f} BY DEF CheckMounts, PutCount, Put
  <1>5. mine' \in {Blank, f} BY DEF CheckMounts, Return
  <1>6. Return(0) \/ (pc' = "rewrap" /\ mine' = f /\ UNCHANGED <<how, pw, part, rc>>)
    BY DEF CheckMounts, Goto
  <1>7. saved' = dm[0] BY DEF CheckMounts
  <1>8. UNCHANGED <<content, disk, drawn, encrypted, dm, data, mounted, framework, prompted,
                    restarted, otherVars>>
    BY DEF CheckMounts
  <1> HIDE DEF f
  <1>9. footer' \in Footer /\ mine' \in Footer BY <1>1, <1>3, <1>4, <1>5, InitialFooters
  <1>10. TypeOK'
    BY <1>2, <1>6, <1>7, <1>8, <1>9, CryptAssumption DEF Inv, TypeOK, Return, otherVars
  <1>11. Complete(footer') BY <1>1, <1>3, <1>4
  <1>12. Unlocking'
    BY <1>1, <1>2, <1>3, <1>6, <1>7, <1>8, <1>11 DEF Inv, Unlocking, Complete, Return, Key, NoKey
  <1> QED BY <1>10, <1>12

\* A wrong password: the failure is counted.
LEMMA CheckMountFailsKeeps ==
  ASSUME Inv, CheckMountFails
  PROVE  TypeOK' /\ Unlocking'
  <1>1. /\ encrypted /\ Complete(footer) /\ Complete(mine) /\ mine \in Footer /\ footer \in Footer
        /\ mine.fails < MaxFailed /\ mine.fails \in 0..MaxFailed /\ saved = NoKey
    BY DEF Inv, States, Unlocking, CheckMountFails, TypeOK, Footer
  <1> DEFINE n == mine.fails + 1
             f == [mine EXCEPT !.fails = n]
  <1>2. n \in 0..MaxFailed /\ n \in Int BY <1>1, CryptAssumption
  <1>3. footer' \in {footer, f} BY DEF CheckMountFails, PutCount, Put
  <1>4. rc' = n /\ pc' = "idle" /\ how' = "none" /\ pw' = NoPassword /\ part' = 0 /\ mine' = Blank
    BY Zenon DEF CheckMountFails, Return
  <1>5. dm' \in [Part -> {NoTable, NoMap, NoKey} \cup Key] BY DEF CheckMountFails, Inv, TypeOK
  <1>6. UNCHANGED <<content, disk, drawn, encrypted, saved, data, mounted, framework, prompted,
                    restarted, otherVars>>
    BY DEF CheckMountFails
  <1>7. f \in Footer /\ Complete(f)
    <2> HIDE DEF n
    <2>1. f \in Footer /\ f.magic = mine.magic /\ f.inProgress = mine.inProgress
      BY <1>1, <1>2, FailsWritten
    <2> HIDE DEF f
    <2> QED BY <2>1, <1>1 DEF Complete
  <1> HIDE DEF f, n
  <1>8. footer' \in Footer /\ mine' \in Footer /\ rc' \in Int
    BY <1>1, <1>2, <1>3, <1>4, <1>7, InitialFooters
  <1>9. TypeOK' BY <1>4, <1>5, <1>6, <1>8, CryptAssumption DEF Inv, TypeOK, otherVars
  <1>10. Complete(footer') BY <1>1, <1>3, <1>7
  <1>11. Unlocking' BY <1>1, <1>4, <1>6, <1>10 DEF Inv, Unlocking, Complete
  <1> QED BY <1>9, <1>11

\* The key is wrapped again, or not.
LEMMA CheckRewrapKeeps ==
  ASSUME Inv, CheckRewrap
  PROVE  TypeOK' /\ Unlocking'
  <1>1. /\ encrypted /\ Complete(footer) /\ Complete(mine) /\ mine \in Footer /\ footer \in Footer
        /\ pw \in Passwords /\ saved \in Key
    BY DEF Inv, States, Unlocking, CheckRewrap, TypeOK
  <1> DEFINE g == Rewrap(mine, pw, saved)
             f == [g EXCEPT !.kdf = "scrypt"]
  <1>2. g \in Footer /\ g.magic = mine.magic /\ g.inProgress = mine.inProgress BY <1>1, RewrapKeeps
  <1>3. f \in Footer /\ f.magic = g.magic /\ f.inProgress = g.inProgress
    <2> HIDE DEF g
    <2> QED BY <1>2, FieldWritten
  <1>4. footer' \in {footer, f} BY DEF CheckRewrap, Put
  <1>5. Return(0) \/ Return(-1) BY Zenon DEF CheckRewrap
  <1>6. UNCHANGED <<content, disk, drawn, bootVars, otherVars>> BY DEF CheckRewrap
  <1> HIDE DEF f, g
  <1>7. Complete(footer') BY <1>1, <1>2, <1>3, <1>4 DEF Complete
  <1>8. /\ rc' \in Int /\ pc' = "idle" /\ how' = "none" /\ pw' = NoPassword /\ part' = 0
        /\ mine' \in Footer /\ footer' \in Footer
    BY <1>1, <1>3, <1>4, <1>5, InitialFooters DEF Return
  <1>9. TypeOK' BY <1>6, <1>8, CryptAssumption DEF Inv, TypeOK, bootVars, otherVars
  <1>10. Unlocking' BY <1>1, <1>6, <1>7, <1>8 DEF Inv, Unlocking, Complete, bootVars
  <1> QED BY <1>9, <1>10

\* A command that changes the footer at most, and not whether it is complete.
LEMMA FooterOnly ==
  ASSUME Inv, Idle, NEW c \in Int, Return(c),
         UNCHANGED <<content, disk, drawn, bootVars, otherVars>>,
         footer' \in Footer, Complete(footer') <=> Complete(footer),
         footer'.inProgress = footer.inProgress
  PROVE  Inv'
  <1>1. TypeOK' BY CryptAssumption, InitialFooters DEF Inv, TypeOK, Return, bootVars, otherVars
  <1>2. States' /\ Flagged' /\ WhileWriting'
    BY DEF Inv, States, Flagged, WhileWriting, Return, Idle, bootVars, otherVars,
           Preparing, Writing, Ending
  <1>3. BeforeWriting' /\ Unlocking'
    BY DEF Inv, BeforeWriting, Unlocking, Return, Idle, bootVars, otherVars, Complete
  <1> QED BY <1>1, <1>2, <1>3 DEF Inv

\* cryptfs_verify_passwd reads the footer.
LEMMA VerifyPasswdKeeps ==
  ASSUME Inv, NEW p \in Passwords, VerifyPasswd(p)
  PROVE  Inv'
  <1>1. Idle /\ UNCHANGED <<content, disk, drawn, bootVars, otherVars>> BY DEF VerifyPasswd
  <1>2. UNCHANGED footer \/ Get BY DEF VerifyPasswd
  <1>3. footer' \in Footer /\ (Complete(footer') <=> Complete(footer))
        /\ footer'.inProgress = footer.inProgress
    BY <1>2, GetKeeps DEF Inv, TypeOK, Complete
  <1>4. \E c \in Int : Return(c) BY DEF VerifyPasswd
  <1> QED BY <1>1, <1>3, <1>4, FooterOnly

\* cryptfs_changepw writes a footer with the key wrapped again, or as it was.
LEMMA ChangePwKeeps ==
  ASSUME Inv, NEW p \in Passwords, ChangePw(p)
  PROVE  Inv'
  <1>1. Idle /\ UNCHANGED <<content, disk, drawn, bootVars, otherVars>> BY DEF ChangePw
  <1>2. footer \in Footer /\ saved \in Key \cup {NoKey} BY DEF Inv, TypeOK
  <1> DEFINE g == Upgrade(footer)
  <1>3. g \in Footer /\ g.magic = footer.magic /\ g.inProgress = footer.inProgress
    BY <1>2, UpgradeKeeps
  <1>4. \/ footer' \in {footer, g}
        \/ saved # NoKey /\ footer' = Rewrap(g, p, saved)
    BY DEF ChangePw, Put
  <1> HIDE DEF g
  <1>5. footer' \in Footer /\ (Complete(footer') <=> Complete(footer))
        /\ footer'.inProgress = footer.inProgress
    BY <1>2, <1>3, <1>4, RewrapKeeps DEF Complete
  <1>6. Return(0) \/ Return(-1) BY Zenon DEF ChangePw
  <1> QED BY <1>1, <1>5, <1>6, FooterOnly

\* The framework comes up, or stays down.
LEMMA RestartMountType ==
  ASSUME Inv, RestartMount
  PROVE  TypeOK'
  <1>1. restarted' \in BOOLEAN BY Zenon DEF RestartMount, Inv, TypeOK
  <1>2. PICK ok \in Outcomes("prep") :
          framework' = (IF ok THEN "up" ELSE framework) /\ Return(IF ok THEN 0 ELSE -1)
    BY DEF RestartMount
  <1>3. framework' \in {"up", "min", "down"} BY <1>2 DEF Inv, TypeOK
  <1>4. data' \in {"crypt", "none"} BY DEF RestartMount
  <1>5. /\ rc' \in Int /\ pc' = "idle" /\ how' = "none" /\ pw' = NoPassword /\ part' = 0
        /\ mine' \in Footer
    BY <1>2, InitialFooters DEF Return
  <1>6. UNCHANGED <<diskVars, encrypted, saved, dm, mounted, prompted, otherVars>>
    BY DEF RestartMount
  <1> QED BY <1>1, <1>3, <1>4, <1>5, <1>6, CryptAssumption DEF Inv, TypeOK, diskVars, otherVars

\* The answer is a number.
LEMMA CryptoCompleteType ==
  ASSUME Inv, CryptoComplete
  PROVE  TypeOK'
  <1>1. PICK readable \in {Readable} \cup {r \in {FALSE} : MayFail("get")} :
          /\ IF encrypted /\ readable THEN Get ELSE UNCHANGED footer
          /\ prompted' = (CompleteCode(readable) = 0)
          /\ Return(CompleteCode(readable))
    BY Zenon DEF CryptoComplete
  <1>2. prompted' \in BOOLEAN BY Zenon, <1>1
  <1>3. footer' \in Footer BY <1>1, GetKeeps DEF Inv, TypeOK
  <1>4. CompleteCode(readable) \in Int BY DEF CompleteCode
  <1>5. /\ rc' \in Int /\ pc' = "idle" /\ how' = "none" /\ pw' = NoPassword /\ part' = 0
        /\ mine' \in Footer
    BY <1>1, <1>4, InitialFooters DEF Return
  <1>6. UNCHANGED <<content, disk, drawn, encrypted, saved, dm, data, mounted, framework, restarted,
                    otherVars>>
    BY DEF CryptoComplete
  <1> QED BY <1>2, <1>3, <1>5, <1>6, CryptAssumption DEF Inv, TypeOK, otherVars

\* A volume gets a device with the saved key, one without a table, or none.
LEMMA MountVolumeType ==
  ASSUME Inv, NEW v \in 1..NumVolumes, MountVolume(v)
  PROVE  TypeOK'
  <1>1. footer' \in Footer BY GetKeeps DEF MountVolume, Inv, TypeOK
  <1>2. dm' \in {dm, [dm EXCEPT ![v] = saved], [dm EXCEPT ![v] = NoTable]}
    BY DEF MountVolume, SetupVolume
  <1>3. dm' \in [Part -> {NoTable, NoMap, NoKey} \cup Key] BY <1>2 DEF Inv, TypeOK
  <1>4. mounted' \subseteq 1..NumVolumes BY DEF MountVolume, Inv, TypeOK
  <1>5. UNCHANGED <<content, disk, drawn, encrypted, saved, data, framework, prompted, restarted,
                    otherVars, cmdVars>>
    BY DEF MountVolume
  <1> QED BY <1>1, <1>3, <1>4, <1>5 DEF Inv, TypeOK, otherVars, cmdVars

-----------------------------------------------------------------------------
(* Inv is inductive.                                                        *)

\* A device as it leaves the factory, or with an earlier release.
LEMMA InvInit == Init => Inv
  <1> SUFFICES ASSUME Init PROVE Inv OBVIOUS
  <1>1. PICK device \in Devices, p \in Passwords :
          /\ content = [q \in Part |-> IF device = "clear" THEN Clear ELSE 1]
          /\ footer = IF device = "clear" THEN Blank ELSE Legacy(p)
          /\ drawn = IF device = "clear" THEN 0 ELSE 1
          /\ encrypted = (device = "legacy")
          /\ data = IF device = "clear" THEN "fs" ELSE "tmpfs"
          /\ framework = IF device = "clear" THEN "up" ELSE "min"
    BY Zenon DEF Init
  <1>2. encrypted \in BOOLEAN /\ (encrypted <=> device = "legacy") BY Zenon, <1>1
  <1>3. device \in {"clear", "legacy"} BY CryptAssumption
  <1>4. footer \in Footer /\ mine \in Footer BY <1>1, InitialFooters DEF Init
  <1>5. 0 \in Part /\ NumVolumes \in Part /\ 1 \in (-MaxKeys)..MaxKeys BY CryptAssumption DEF Part
  <1>6. TypeOK
    <2>1. content \in [Part -> (-MaxKeys)..MaxKeys] BY <1>1, <1>5, CryptAssumption DEF Clear
    <2>2. drawn \in 0..MaxKeys BY <1>1, CryptAssumption
    <2>3. data \in {"fs", "tmpfs"} /\ framework \in {"up", "min"} BY <1>1
    <2>4. disk = footer /\ dm = [q \in Part |-> NoMap] /\ pc = "idle" /\ how = "none" /\ pw = NoPassword
          /\ part = 0 /\ rc = 0 /\ saved = NoKey /\ mounted = {} /\ progress = "none" /\ persist = "none"
      BY DEF Init
    <2>5. prompted \in BOOLEAN /\ restarted \in BOOLEAN /\ wakelock \in BOOLEAN BY Zenon DEF Init
    <2> QED BY <1>2, <1>4, <2>1, <2>2, <2>3, <2>4, <2>5, CryptAssumption DEF TypeOK
  <1>7. pc = "idle" /\ ~wakelock /\ ~prompted /\ saved = NoKey BY Zenon DEF Init
  <1>8. States BY <1>1, <1>2, <1>3, <1>5, <1>7 DEF States, Idle, Clear, Preparing, Writing, Ending
  <1>9. Flagged /\ BeforeWriting /\ WhileWriting
    BY <1>7 DEF Flagged, BeforeWriting, WhileWriting, Preparing, Writing
  <1>10. Unlocking BY <1>7 DEF Unlocking
  <1> QED BY <1>6, <1>8, <1>9, <1>10 DEF Inv

\* One case for each action.
LEMMA InvNext == Inv /\ [Next]_vars => Inv'
  <1> SUFFICES ASSUME Inv, [Next]_vars PROVE Inv' OBVIOUS
  <1> USE CryptAssumption
      DEF Inv, TypeOK, States, Flagged, BeforeWriting, WhileWriting, Unlocking, Complete, MayFail,
          diskVars, bootVars, otherVars, cmdVars, Idle, Goto, Return,
          Part, Key, NoKey, Clear, NoMap, NoTable, Preparing, Writing, Ending
  <1>1. ASSUME WriteBack PROVE Inv'
    BY <1>1 DEF WriteBack
  <1>2. ASSUME PowerLoss PROVE Inv'
    BY <1>2, BootKeeps DEF PowerLoss
  <1>3. ASSUME NEW h \in {"wipe", "inplace"}, NEW p \in Passwords, EnableStart(h, p) PROVE Inv'
    <2>1. TypeOK' BY <1>3, EnableStartType
    <2>2. States' /\ Flagged' /\ BeforeWriting' /\ WhileWriting' /\ Unlocking'
      BY <1>3 DEF EnableStart
    <2> QED BY <2>1, <2>2
  <1>4. ASSUME EnableDisable PROVE Inv'
    BY <1>4 DEF EnableDisable
  <1>5. ASSUME EnableDisableFails PROVE Inv'
    <2>1. TypeOK' BY <1>5, NotEncryptedType DEF EnableDisableFails
    <2>2. States' /\ Flagged' /\ BeforeWriting' /\ WhileWriting' /\ Unlocking'
      BY <1>5 DEF EnableDisableFails, NotEncrypted
    <2> QED BY <2>1, <2>2
  <1>6. ASSUME EnableShutdown PROVE Inv'
    BY <1>6 DEF EnableShutdown
  <1>7. ASSUME EnableMinFramework PROVE Inv'
    BY <1>7 DEF EnableMinFramework
  <1>8. ASSUME EnableMakeKey PROVE Inv'
    <2>1. TypeOK' /\ Flagged' /\ WhileWriting' BY <1>8, EnableMakeKeyKeeps
    <2>2. States' /\ BeforeWriting' /\ Unlocking'
      BY <1>8 DEF EnableMakeKey
    <2> QED BY <2>1, <2>2
  <1>9. ASSUME EnableKeyFails PROVE Inv'
    <2>1. TypeOK' BY <1>9, NotEncryptedType DEF EnableKeyFails
    <2>2. States' /\ Flagged' /\ BeforeWriting' /\ WhileWriting' /\ Unlocking'
      BY <1>9 DEF EnableKeyFails, NotEncrypted
    <2> QED BY <2>1, <2>2
  <1>10. ASSUME EnableMap PROVE Inv'
    <2>1. TypeOK' BY <1>10, EnableMapType
    <2>2. States' /\ Flagged' /\ BeforeWriting' /\ WhileWriting' /\ Unlocking'
      BY <1>10 DEF EnableMap
    <2> QED BY <2>1, <2>2
  <1>11. ASSUME EnableConvert PROVE Inv'
    <2>1. TypeOK' /\ WhileWriting' BY <1>11, EnableConvertType
    <2>2. States' /\ Flagged' /\ BeforeWriting' /\ Unlocking'
      BY <1>11 DEF EnableConvert, After
    <2> QED BY <2>1, <2>2
  <1>12. ASSUME EnableConverted PROVE Inv'
    <2>1. TypeOK' /\ WhileWriting' BY <1>12, EnableConvertedKeeps
    <2>2. States' /\ Flagged' /\ BeforeWriting' /\ Unlocking'
      BY <1>12 DEF EnableConverted, After
    <2> QED BY <2>1, <2>2
  <1>13. ASSUME EnableUnmap PROVE Inv'
    BY <1>13 DEF EnableUnmap, DeleteDevices
  <1>14. ASSUME EnableWipesData PROVE Inv'
    <2> HIDE DEF Inv, TypeOK
    <2>1. Wipes BY Zenon, <1>14 DEF EnableWipesData, Wipes
    <2>2. /\ pc = "unmap" /\ pc' = "recovery" /\ \E left \in SUBSET Part :
                dm' = [q \in Part |-> IF q \in left THEN dm[q] ELSE NoMap]
          /\ UNCHANGED <<diskVars, encrypted, saved, data, mounted, framework, prompted, restarted,
                         otherVars, how, pw, mine, part, rc>>
      BY Zenon, <1>14 DEF EnableWipesData, DeleteDevices
    <2> QED BY <2>1, <2>2 DEF Inv, TypeOK
  <1>15. ASSUME EnableFails PROVE Inv'
    <2>1. TypeOK' BY <1>15, EnableFailsType
    <2>2. States' /\ Flagged' /\ BeforeWriting' /\ WhileWriting' /\ Unlocking'
      BY <1>15 DEF EnableFails, DeleteDevices
    <2> QED BY <2>1, <2>2
  <1>16. ASSUME EnableFinish PROVE Inv'
    <2>1. TypeOK' BY <1>16, EnableFinishType
    <2>2. States' /\ Flagged' /\ BeforeWriting' /\ WhileWriting' /\ Unlocking'
      BY <1>16 DEF EnableFinish, Put
    <2> QED BY <2>1, <2>2
  <1>17. ASSUME Reboot PROVE Inv'
    BY <1>17, BootKeeps DEF Reboot
  <1>18. ASSUME RebootFails PROVE Inv'
    <2>1. TypeOK' BY <1>18, RebootFailsType
    <2>2. States' /\ Flagged' /\ BeforeWriting' /\ WhileWriting' /\ Unlocking'
      BY <1>18 DEF RebootFails
    <2> QED BY <2>1, <2>2
  <1>19. ASSUME CryptoComplete PROVE Inv'
    <2>1. Unlocking' BY <1>19, CryptoCompleteUnlocks
    <2>2. TypeOK' BY <1>19, CryptoCompleteType
    <2>3. States' /\ Flagged' /\ BeforeWriting' /\ WhileWriting'
      BY <1>19, GetKeeps, InitialFooters DEF CryptoComplete, Readable
    <2> QED BY <2>1, <2>2, <2>3
  <1>20. ASSUME NEW p \in Passwords, CheckPasswd(p) PROVE Inv'
    <2>1. TypeOK' BY <1>20, CheckPasswdType
    <2>2. States' /\ Flagged' /\ BeforeWriting'
      BY SMTT(20), <1>20, GetKeeps DEF CheckPasswd
    <2>3. WhileWriting' BY <1>20 DEF CheckPasswd
    <2>4. Unlocking'
      BY SMTT(20), <1>20, UpgradeKeeps, GetKeeps DEF CheckPasswd, Readable
    <2> QED BY <2>1, <2>2, <2>3, <2>4
  <1>21. ASSUME CheckMounts PROVE Inv'
    <2>1. TypeOK' /\ Unlocking' BY <1>21, CheckMountsKeeps
    <2>2. States' /\ Flagged' /\ BeforeWriting' /\ WhileWriting'
      BY <1>21, FieldWritten DEF CheckMounts, PutCount, Put
    <2> QED BY <2>1, <2>2
  <1>22. ASSUME CheckMountFails PROVE Inv'
    <2>1. TypeOK' /\ Unlocking' BY <1>22, CheckMountFailsKeeps
    <2>2. States' /\ Flagged' /\ BeforeWriting' /\ WhileWriting'
      BY <1>22, FieldWritten DEF CheckMountFails, PutCount, Put
    <2> QED BY <2>1, <2>2
  <1>23. ASSUME CheckRewrap PROVE Inv'
    <2>1. TypeOK' /\ Unlocking' BY <1>23, CheckRewrapKeeps
    <2>2. States' /\ Flagged' /\ BeforeWriting' /\ WhileWriting'
      BY <1>23, FieldWritten, RewrapKeeps DEF CheckRewrap, Put
    <2> QED BY <2>1, <2>2
  <1>24. ASSUME NEW p \in Passwords, VerifyPasswd(p) PROVE Inv' BY <1>24, VerifyPasswdKeeps
  <1>25. ASSUME NEW p \in Passwords, ChangePw(p) PROVE Inv' BY <1>25, ChangePwKeeps
  <1>26. ASSUME RestartStop PROVE Inv'
    BY <1>26, InitialFooters DEF RestartStop
  <1>27. ASSUME RestartUnmountFails PROVE Inv'
    BY <1>27, InitialFooters DEF RestartUnmountFails
  <1>28. ASSUME RestartMount PROVE Inv'
    <2>1. TypeOK' BY <1>28, RestartMountType
    <2>2. States' /\ Flagged' /\ BeforeWriting' /\ WhileWriting' /\ Unlocking'
      BY <1>28, InitialFooters DEF RestartMount
    <2> QED BY <2>1, <2>2
  <1>29. ASSUME NEW v \in 1..NumVolumes, MountVolume(v) PROVE Inv'
    <2>1. TypeOK' BY <1>29, MountVolumeType
    <2>2. States' /\ Flagged' /\ BeforeWriting' /\ WhileWriting' /\ Unlocking'
      BY <1>29, GetKeeps DEF MountVolume, SetupVolume, Readable, GetFails
    <2> QED BY <2>1, <2>2
  <1>30. ASSUME NEW v \in 1..NumVolumes, NEW revert \in BOOLEAN, UnmountVolume(v, revert) PROVE Inv'
    BY <1>30 DEF UnmountVolume
  <1>31. ASSUME GetField PROVE Inv'
    BY SMTT(20), <1>31, GetKeeps, InitialFooters DEF GetField, LoadTable, Readable, GetFails
  <1>32. ASSUME SetField PROVE Inv'
    BY SMTT(20), <1>32, GetKeeps, InitialFooters DEF SetField, LoadTable, Readable, GetFails
  <1>33. ASSUME RecoveryFails PROVE Inv'
    <2>1. TypeOK' BY <1>33, RecoveryFailsType
    <2>2. States' /\ Flagged' /\ BeforeWriting' /\ WhileWriting' /\ Unlocking'
      BY <1>33 DEF RecoveryFails
    <2> QED BY <2>1, <2>2
  <1>34. CASE UNCHANGED vars BY <1>34 DEF vars
  <1> HIDE DEF Inv
  <1> QED BY <1>1, <1>2, <1>3, <1>4, <1>5, <1>6, <1>7, <1>8, <1>9, <1>10, <1>11, <1>12, <1>13,
     <1>14, <1>15, <1>16, <1>17, <1>18, <1>19, <1>20, <1>21, <1>22, <1>23, <1>24, <1>25, <1>26,
     <1>27, <1>28, <1>29, <1>30, <1>31, <1>32, <1>33, <1>34 DEF Next

(* Whatever calls fail and wherever the power does.                         *)
THEOREM Invariance == Spec => []Inv
  BY InvInit, InvNext, PTL DEF Spec

-----------------------------------------------------------------------------
(* What follows from Inv.                                                   *)

(* The types of the variables; the keys cryptfs_enable draws and the count  *)
(* of failed passwords stay within the bounds of the model.                 *)
THEOREM TypeCorrectness == Spec => []TypeOK
  <1>1. Inv => TypeOK BY DEF Inv
  <1> QED BY <1>1, Invariance, PTL

(* cryptfs_enable writes to no partition that is mounted.                   *)
THEOREM WritesUnmounted == Spec => []NotMountedWhileConverting
  <1>1. Inv => NotMountedWhileConverting
    BY DEF Inv, WhileWriting, Writing, NotMountedWhileConverting
  <1> QED BY <1>1, Invariance, PTL

(* The wakelock is held while cryptfs_enable writes.  A command that has    *)
(* returned holds it only if the data is partly encrypted, which the footer *)
(* then says, and the device did not reboot into recovery when it should.   *)
THEOREM Awake ==
  ASSUME "put" \notin Faults
  PROVE  Spec => []AwakeWhileEncrypting
  <1>1. Inv => AwakeWhileEncrypting
    BY DEF Inv, States, Flagged, Preparing, Writing, Idle, Wipes, AwakeWhileEncrypting
  <1> QED BY <1>1, Invariance, PTL

-----------------------------------------------------------------------------
(* The devices over the partitions, when removing one does not fail.        *)

(* The states in which cryptfs_enable has devices.                          *)
Mapping == {"convert", "converting", "unmap"}

(* A volume is mapped with the saved key, and only a device that is not     *)
(* locked has a framework that asks for volumes.                            *)
VolumeInv ==
  /\ encrypted /\ framework = "up" => saved # NoKey
  /\ encrypted =>
       \A v \in 1..NumVolumes : dm[v] \in {NoTable, NoMap} \/ (saved # NoKey /\ dm[v] = saved)
  /\ ~encrypted /\ pc \notin Mapping => \A q \in Part : dm[q] = NoMap

(* The device over userdata is there only with the key, or while a password *)
(* is tried.                                                                *)
UserdataInv == encrypted /\ saved = NoKey /\ pc # "check" => dm[0] = NoMap

\* A step that leaves them alone, and the phase of the commands about them.
Elsewhere ==
  /\ UNCHANGED <<encrypted, saved, dm>>
  /\ framework' = framework \/ framework' # "up"
  /\ pc \in Mapping => pc' \in Mapping
  /\ pc = "check" => pc' = "check"

\* Every other step is one of these.
Maps ==
  \/ PowerLoss \/ Reboot
  \/ EnableMap \/ EnableUnmap \/ EnableWipesData \/ EnableFails
  \/ CheckMounts \/ CheckMountFails \/ RestartMount
  \/ \E p \in Passwords : CheckPasswd(p)
  \/ \E v \in 1..NumVolumes : MountVolume(v) \/ \E revert \in BOOLEAN : UnmountVolume(v, revert)

\* One case for each action that is none of those.
LEMMA ElsewhereOrMaps == [Next]_vars => Elsewhere \/ Maps
  <1> SUFFICES ASSUME [Next]_vars, ~Maps PROVE Elsewhere BY DEF Elsewhere
  <1> USE DEF Elsewhere, Mapping, diskVars, bootVars, otherVars, cmdVars, Idle, Goto, Return
  <1>1. ASSUME WriteBack PROVE Elsewhere BY <1>1 DEF WriteBack
  <1>2. ASSUME NEW h \in {"wipe", "inplace"}, NEW p \in Passwords, EnableStart(h, p) PROVE Elsewhere
    BY <1>2 DEF EnableStart
  <1>3. ASSUME EnableDisable PROVE Elsewhere BY <1>3 DEF EnableDisable
  <1>4. ASSUME EnableDisableFails PROVE Elsewhere BY <1>4 DEF EnableDisableFails, NotEncrypted
  <1>5. ASSUME EnableShutdown PROVE Elsewhere BY <1>5 DEF EnableShutdown
  <1>6. ASSUME EnableMinFramework PROVE Elsewhere BY <1>6 DEF EnableMinFramework
  <1>7. ASSUME EnableMakeKey PROVE Elsewhere BY <1>7 DEF EnableMakeKey
  <1>8. ASSUME EnableKeyFails PROVE Elsewhere BY <1>8 DEF EnableKeyFails, NotEncrypted
  <1>9. ASSUME EnableConvert PROVE Elsewhere BY <1>9 DEF EnableConvert, After
  <1>10. ASSUME EnableConverted PROVE Elsewhere BY <1>10 DEF EnableConverted, After
  <1>11. ASSUME EnableFinish PROVE Elsewhere BY <1>11 DEF EnableFinish
  <1>12. ASSUME RebootFails PROVE Elsewhere BY <1>12 DEF RebootFails
  <1>13. ASSUME CryptoComplete PROVE Elsewhere BY <1>13 DEF CryptoComplete
  <1>14. ASSUME CheckRewrap PROVE Elsewhere BY <1>14 DEF CheckRewrap
  <1>15. ASSUME NEW p \in Passwords, VerifyPasswd(p) PROVE Elsewhere BY <1>15 DEF VerifyPasswd
  <1>16. ASSUME NEW p \in Passwords, ChangePw(p) PROVE Elsewhere BY <1>16 DEF ChangePw
  <1>17. ASSUME RestartStop PROVE Elsewhere BY <1>17 DEF RestartStop
  <1>18. ASSUME RestartUnmountFails PROVE Elsewhere BY <1>18 DEF RestartUnmountFails
  <1>19. ASSUME GetField PROVE Elsewhere BY <1>19 DEF GetField
  <1>20. ASSUME SetField PROVE Elsewhere BY <1>20 DEF SetField
  <1>21. ASSUME RecoveryFails PROVE Elsewhere BY <1>21 DEF RecoveryFails
  <1>22. CASE UNCHANGED vars BY <1>22 DEF vars
  <1> QED BY <1>1, <1>2, <1>3, <1>4, <1>5, <1>6, <1>7, <1>8, <1>9, <1>10, <1>11, <1>12, <1>13,
     <1>14, <1>15, <1>16, <1>17, <1>18, <1>19, <1>20, <1>21, <1>22 DEF Next, Maps

\* After a boot there is no device, and a framework without the key is the small one.
LEMMA BootDevices == Boot => VolumeInv' /\ UserdataInv'
  <1> SUFFICES ASSUME Boot PROVE VolumeInv' /\ UserdataInv' OBVIOUS
  <1>1. /\ encrypted' <=> content[0] # Clear
        /\ framework' = IF content[0] = Clear THEN "up" ELSE "min"
        /\ dm' = [q \in Part |-> NoMap]
    BY DEF Boot
  <1>2. 0 \in Part /\ \A v \in 1..NumVolumes : v \in Part BY CryptAssumption DEF Part
  <1> QED BY <1>1, <1>2 DEF VolumeInv, UserdataInv

\* A device boots without mappings.
LEMMA DeviceInit == Init => VolumeInv /\ UserdataInv
  <1> SUFFICES ASSUME Init PROVE VolumeInv /\ UserdataInv OBVIOUS
  <1>1. dm = [q \in Part |-> NoMap] BY DEF Init
  <1>2. encrypted => framework # "up"
    <2>1. PICK device \in Devices :
            /\ encrypted = (device = "legacy")
            /\ framework = IF device = "clear" THEN "up" ELSE "min"
      BY Zenon DEF Init
    <2> QED BY <2>1
  <1>3. 0 \in Part /\ \A v \in 1..NumVolumes : v \in Part BY CryptAssumption DEF Part
  <1> QED BY <1>1, <1>2, <1>3 DEF VolumeInv, UserdataInv

\* The ways a device comes and goes.
LEMMA VolumeNext ==
  ASSUME "dmremove" \notin Faults, Inv, VolumeInv, [Next]_vars
  PROVE  VolumeInv'
  <1>1. 0 \in Part /\ \A v \in 1..NumVolumes : v \in Part /\ v # 0 BY CryptAssumption DEF Part
  <1>2. dm \in [Part -> {NoTable, NoMap, NoKey} \cup Key] BY DEF Inv, TypeOK
  <1>3. CASE Elsewhere
    <2> USE <1>3 DEF Elsewhere
    <2> QED BY DEF VolumeInv
  <1>4. CASE PowerLoss \/ Reboot BY <1>4, BootDevices DEF PowerLoss, Reboot
  <1>5. CASE EnableMap
    <2>1. ~encrypted /\ pc' = "convert" /\ UNCHANGED encrypted
      BY <1>5 DEF EnableMap, Inv, States, Goto
    <2> QED BY <2>1 DEF VolumeInv, Mapping
  <1>6. CASE EnableUnmap \/ EnableWipesData \/ EnableFails
    <2>1. ~encrypted /\ UNCHANGED encrypted
      BY <1>6 DEF EnableUnmap, EnableWipesData, EnableFails, Inv, States
    <2>2. dm' = [q \in Part |-> NoMap]
      BY <1>6 DEF EnableUnmap, EnableWipesData, EnableFails, DeleteDevices, MayFail
    <2> QED BY <2>1, <2>2 DEF VolumeInv
  <1>7. CASE CheckMounts
    <2>1. /\ pc = "check" /\ saved = NoKey /\ saved' # NoKey /\ encrypted
          /\ UNCHANGED <<encrypted, dm, framework>>
      BY <1>7 DEF CheckMounts, Inv, States, Unlocking, NoKey
    <2> QED BY <2>1 DEF VolumeInv
  <1>8. CASE CheckMountFails
    <2>1. encrypted /\ UNCHANGED <<encrypted, saved, framework>>
      BY <1>8 DEF CheckMountFails, Inv, States, Unlocking
    <2>2. dm' = [dm EXCEPT ![0] = NoMap] BY <1>8 DEF CheckMountFails, Outcomes, MayFail
    <2>3. \A v \in 1..NumVolumes : dm'[v] = dm[v] BY <1>1, <1>2, <2>2
    <2> QED BY <2>1, <2>3 DEF VolumeInv
  <1>9. CASE RestartMount
    <2>1. saved # NoKey /\ UNCHANGED <<encrypted, saved, dm>> /\ encrypted
      BY <1>9 DEF RestartMount, Inv, Unlocking
    <2> QED BY <2>1 DEF VolumeInv
  <1>10. ASSUME NEW p \in Passwords, CheckPasswd(p) PROVE VolumeInv'
    <2>1. UNCHANGED <<encrypted, saved, framework>> /\ pc = "idle" BY <1>10 DEF CheckPasswd, Idle
    <2>2. \/ dm' = dm
          \/ encrypted /\ \E d : dm' = [dm EXCEPT ![0] = d]
      BY <1>10 DEF CheckPasswd
    <2>3. CASE dm' = dm BY <2>1, <2>3 DEF VolumeInv, Mapping
    <2>4. CASE encrypted /\ \E d : dm' = [dm EXCEPT ![0] = d]
      <3>1. \A v \in 1..NumVolumes : dm'[v] = dm[v] BY <1>1, <1>2, <2>4
      <3> QED BY <2>1, <2>4, <3>1 DEF VolumeInv
    <2> QED BY <2>2, <2>3, <2>4
  <1>11. ASSUME NEW v \in 1..NumVolumes, MountVolume(v) PROVE VolumeInv'
    <2>1. UNCHANGED <<encrypted, saved, framework, pc>> /\ framework = "up"
      BY <1>11 DEF MountVolume, cmdVars
    <2>2. \/ dm' = dm
          \/ encrypted /\ dm' = [dm EXCEPT ![v] = saved]
          \/ encrypted /\ dm' = [dm EXCEPT ![v] = NoTable]
      BY <1>11 DEF MountVolume, SetupVolume
    <2>3. CASE dm' = dm BY <2>1, <2>3 DEF VolumeInv
    <2>4. CASE encrypted /\ dm' # dm
      <3>1. saved # NoKey BY <2>1, <2>4 DEF VolumeInv
      <3>2. \A w \in 1..NumVolumes : dm'[w] \in {dm[w], saved, NoTable} BY <1>1, <1>2, <2>2
      <3> QED BY <2>1, <2>4, <3>1, <3>2 DEF VolumeInv
    <2> QED BY <2>2, <2>3, <2>4
  <1>12. ASSUME NEW v \in 1..NumVolumes, NEW revert \in BOOLEAN, UnmountVolume(v, revert)
         PROVE  VolumeInv'
    <2>1. UNCHANGED <<encrypted, saved, framework, pc>> BY <1>12 DEF UnmountVolume, cmdVars
    <2>2. dm' = dm \/ dm' = [dm EXCEPT ![v] = NoMap] BY <1>12 DEF UnmountVolume
    <2>3. \A q \in Part : dm'[q] \in {dm[q], NoMap} BY <1>1, <1>2, <2>2
    <2> QED BY <1>1, <2>1, <2>3 DEF VolumeInv
  <1> QED BY <1>3, <1>4, <1>5, <1>6, <1>7, <1>8, <1>9, <1>10, <1>11, <1>12, ElsewhereOrMaps
          DEF Maps

\* The device of userdata stays only with the key.
LEMMA UserdataNext ==
  ASSUME "dmremove" \notin Faults, "table" \notin Faults, Inv, UserdataInv, [Next]_vars
  PROVE  UserdataInv'
  <1>1. 0 \in Part /\ \A v \in 1..NumVolumes : v \in Part /\ v # 0 BY CryptAssumption DEF Part
  <1>2. dm \in [Part -> {NoTable, NoMap, NoKey} \cup Key] BY DEF Inv, TypeOK
  <1>3. CASE Elsewhere BY <1>3 DEF Elsewhere, UserdataInv
  <1>4. CASE PowerLoss \/ Reboot BY <1>4, BootDevices DEF PowerLoss, Reboot
  <1>5. CASE EnableMap \/ EnableUnmap \/ EnableWipesData \/ EnableFails
    <2>1. ~encrypted /\ UNCHANGED encrypted
      BY <1>5 DEF EnableMap, EnableUnmap, EnableWipesData, EnableFails, Inv, States
    <2> QED BY <2>1 DEF UserdataInv
  <1>6. CASE CheckMounts
    <2>1. saved' # NoKey BY <1>6 DEF CheckMounts, NoKey
    <2> QED BY <2>1 DEF UserdataInv
  <1>7. CASE CheckMountFails
    <2>1. dm' = [dm EXCEPT ![0] = NoMap] BY <1>7 DEF CheckMountFails, Outcomes, MayFail
    <2>2. dm'[0] = NoMap BY <1>1, <1>2, <2>1
    <2> QED BY <2>2 DEF UserdataInv
  <1>8. CASE RestartMount
    <2>1. saved # NoKey /\ UNCHANGED saved BY <1>8 DEF RestartMount, Inv, Unlocking
    <2> QED BY <2>1 DEF UserdataInv
  <1>9. ASSUME NEW p \in Passwords, CheckPasswd(p) PROVE UserdataInv'
    <2>1. UNCHANGED <<encrypted, saved>> /\ pc = "idle" BY <1>9 DEF CheckPasswd, Idle
    <2>2. dm' = dm \/ pc' = "check" BY <1>9 DEF CheckPasswd, MayFail, Goto
    <2> QED BY <2>1, <2>2 DEF UserdataInv
  <1>10. ASSUME NEW v \in 1..NumVolumes, MountVolume(v) PROVE UserdataInv'
    <2>1. UNCHANGED <<encrypted, saved, pc>> BY <1>10 DEF MountVolume, cmdVars
    <2>2. dm' = dm \/ \E d : dm' = [dm EXCEPT ![v] = d] BY <1>10 DEF MountVolume, SetupVolume
    <2>3. dm'[0] = dm[0] BY <1>1, <1>2, <2>2
    <2> QED BY <2>1, <2>3 DEF UserdataInv
  <1>11. ASSUME NEW v \in 1..NumVolumes, NEW revert \in BOOLEAN, UnmountVolume(v, revert)
         PROVE  UserdataInv'
    <2>1. UNCHANGED <<encrypted, saved, pc>> BY <1>11 DEF UnmountVolume, cmdVars
    <2>2. dm' = dm \/ dm' = [dm EXCEPT ![v] = NoMap] BY <1>11 DEF UnmountVolume
    <2>3. dm'[0] = dm[0] BY <1>1, <1>2, <2>2
    <2> QED BY <2>1, <2>3 DEF UserdataInv
  <1> QED BY <1>3, <1>4, <1>5, <1>6, <1>7, <1>8, <1>9, <1>10, <1>11, ElsewhereOrMaps DEF Maps

(* A volume is only ever mapped with the key userdata was unlocked with,    *)
(* although cryptfs_setup_volume asks neither for the key nor for the       *)
(* device: no framework is up that could ask for a volume before            *)
(* cryptfs_restart, and none of cryptfs_enable's devices stays behind.      *)
THEOREM VolumesHaveKey ==
  ASSUME "dmremove" \notin Faults
  PROVE  Spec => []VolumeHasKey
  <1>1. Inv /\ VolumeInv /\ [Next]_vars => VolumeInv' BY VolumeNext
  <1>2. Inv /\ VolumeInv => VolumeHasKey
    <2> SUFFICES ASSUME Inv, VolumeInv, NEW v \in 1..NumVolumes, dm[v] >= NoKey, Idle
                 PROVE  dm[v] = saved /\ saved # NoKey
      BY DEF VolumeHasKey
    <2>1. v \in Part BY CryptAssumption DEF Part
    <2>2. dm[v] # NoMap /\ dm[v] # NoTable BY DEF NoKey, NoMap, NoTable
    <2> QED BY <2>1, <2>2 DEF VolumeInv, Idle, Mapping
  <1>3. Init => VolumeInv BY DeviceInit
  <1> QED BY <1>1, <1>2, <1>3, Invariance, PTL DEF Spec

(* After a wrong password no device is left over userdata that would make   *)
(* the next checkpw fail.  With a device that was created but got no table, *)
(* or one that could not be removed, this is false: it stays in the way     *)
(* until the next boot.                                                     *)
THEOREM RetryIsPossible ==
  ASSUME "dmremove" \notin Faults, "table" \notin Faults
  PROVE  Spec => []RetryPossible
  <1>1. Inv /\ UserdataInv /\ [Next]_vars => UserdataInv' BY UserdataNext
  <1>2. UserdataInv => RetryPossible BY DEF UserdataInv, RetryPossible, Idle
  <1>3. Init => UserdataInv BY DeviceInit
  <1> QED BY <1>1, <1>2, <1>3, Invariance, PTL DEF Spec

-----------------------------------------------------------------------------
(* Footers and keys.                                                        *)

\* A footer of the current version, wrapped and marked with the same function.
LEMMA CurrentOpens ==
  ASSUME NEW f \in Footer, NEW k, NEW p \in Passwords, f.minor = CurrentMinor, f.kdf = "scrypt",
         f.key = Wrap(k, p, "scrypt")
  PROVE  KeyOf(f) = k /\ f.key.pw = p /\ f.key.mk = k
  <1>1. Upgrade(f) = f BY DEF Upgrade, CurrentMinor
  <1> QED BY <1>1 DEF KeyOf, Unwrap, Wrap

\* The failure count does not matter to the key.
LEMMA SameKey ==
  ASSUME NEW f \in Footer, NEW g \in Footer, f.minor = CurrentMinor, g.minor = CurrentMinor,
         g.key = f.key, g.kdf = f.kdf
  PROVE  KeyOf(g) = KeyOf(f)
  <1>1. Upgrade(f) = f /\ Upgrade(g) = g BY DEF Upgrade, CurrentMinor
  <1> QED BY <1>1 DEF KeyOf, Unwrap

\* A step that leaves the key alone, or at most reads the footer between commands.
Quiet ==
  /\ UNCHANGED <<content, disk, drawn, saved>>
  /\ UNCHANGED encrypted
  /\ UNCHANGED footer \/ (Get /\ Idle)
  /\ mine' \in {mine, Blank}
  /\ pc' \in {"check", "map"} \cup Writing => UNCHANGED <<pc, mine, pw, footer, dm, part, rc>>
  /\ pc = "rewrap" => pc' = "rewrap"

\* Every other step is one of these.
Loud ==
  \/ WriteBack \/ PowerLoss \/ Reboot
  \/ EnableMakeKey \/ EnableMap \/ EnableConvert \/ EnableConverted \/ EnableUnmap \/ EnableFinish
  \/ CheckMounts \/ CheckMountFails \/ CheckRewrap
  \/ \E p \in Passwords : CheckPasswd(p) \/ ChangePw(p)

\* One case for each action that is none of those.
LEMMA QuietOrLoud == [Next]_vars => Quiet \/ Loud
  <1> SUFFICES ASSUME [Next]_vars, ~Loud PROVE Quiet BY DEF Quiet
  <1> USE DEF Quiet, Writing, diskVars, bootVars, otherVars, cmdVars, Idle, Goto, Return
  <1>1. ASSUME NEW h \in {"wipe", "inplace"}, NEW p \in Passwords, EnableStart(h, p) PROVE Quiet
    BY <1>1 DEF EnableStart
  <1>2. ASSUME EnableDisable PROVE Quiet BY <1>2 DEF EnableDisable
  <1>3. ASSUME EnableDisableFails PROVE Quiet BY <1>3 DEF EnableDisableFails, NotEncrypted
  <1>4. ASSUME EnableShutdown PROVE Quiet BY <1>4 DEF EnableShutdown
  <1>5. ASSUME EnableMinFramework PROVE Quiet BY <1>5 DEF EnableMinFramework
  <1>6. ASSUME EnableKeyFails PROVE Quiet BY <1>6 DEF EnableKeyFails, NotEncrypted
  <1>7. ASSUME RecoveryFails PROVE Quiet BY <1>7 DEF RecoveryFails
  <1>8. ASSUME EnableWipesData PROVE Quiet BY <1>8 DEF EnableWipesData
  <1>9. ASSUME EnableFails PROVE Quiet BY <1>9 DEF EnableFails
  <1>10. ASSUME RebootFails PROVE Quiet BY <1>10 DEF RebootFails
  <1>11. ASSUME CryptoComplete PROVE Quiet BY <1>11 DEF CryptoComplete
  <1>12. ASSUME NEW p \in Passwords, VerifyPasswd(p) PROVE Quiet BY <1>12 DEF VerifyPasswd
  <1>13. ASSUME RestartStop PROVE Quiet BY <1>13 DEF RestartStop
  <1>14. ASSUME RestartUnmountFails PROVE Quiet BY <1>14 DEF RestartUnmountFails
  <1>15. ASSUME RestartMount PROVE Quiet BY <1>15 DEF RestartMount
  <1>16. ASSUME NEW v \in 1..NumVolumes, MountVolume(v) PROVE Quiet BY <1>16 DEF MountVolume
  <1>17. ASSUME NEW v \in 1..NumVolumes, NEW revert \in BOOLEAN, UnmountVolume(v, revert) PROVE Quiet
    BY <1>17 DEF UnmountVolume
  <1>18. ASSUME GetField PROVE Quiet BY <1>18 DEF GetField, LoadTable
  <1>19. ASSUME SetField PROVE Quiet BY <1>19 DEF SetField, LoadTable
  <1>20. CASE UNCHANGED vars BY <1>20 DEF vars
  <1> QED BY <1>1, <1>2, <1>3, <1>4, <1>5, <1>6, <1>7, <1>8, <1>9, <1>10, <1>11, <1>12, <1>13,
     <1>14, <1>15, <1>16, <1>17, <1>18, <1>19, <1>20 DEF Next, Loud

\* What cryptfs_enable starts with, and what it writes at the end.
LEMMA FinishFooter ==
  ASSUME NEW p \in Passwords, NEW k \in Key
  PROVE  LET g == NewFooter(p, k)
             f == [g EXCEPT !.inProgress = FALSE]
         IN  /\ g \in Footer /\ ~Complete(g) /\ g.key.mk = k /\ Unwrap(g, p) = k
             /\ f \in Footer /\ Complete(f) /\ f.key.mk = k /\ f.key.pw = p /\ KeyOf(f) = k
  <1> DEFINE g == NewFooter(p, k)
             f == [g EXCEPT !.inProgress = FALSE]
  <1>1. /\ g \in Footer /\ g.key = Wrap(k, p, "scrypt") /\ g.kdf = "scrypt"
        /\ g.magic = TRUE /\ g.inProgress = TRUE /\ g.minor = CurrentMinor
    BY NewFooterFields
  <1> HIDE DEF g
  <1>2. /\ f \in Footer /\ f.key = Wrap(k, p, "scrypt") /\ f.kdf = "scrypt"
        /\ f.minor = CurrentMinor /\ f.magic = TRUE /\ f.inProgress = FALSE
    BY <1>1, FieldWritten
  <1> HIDE DEF f
  <1>3. ~Complete(g) /\ g.key.mk = k /\ Unwrap(g, p) = k BY <1>1 DEF Complete, Unwrap, Wrap
  <1>4. Complete(f) /\ f.key.mk = k /\ f.key.pw = p /\ KeyOf(f) = k
    BY <1>2, CurrentOpens DEF Complete
  <1> QED BY <1>1, <1>2, <1>3, <1>4 DEF f, g

\* What is written when the failure count changes.
LEMMA CountFooter ==
  ASSUME NEW f \in Footer, NEW n \in 0..MaxFailed, f.minor = CurrentMinor
  PROVE  LET g == [f EXCEPT !.fails = n]
         IN  /\ g \in Footer /\ g.key = f.key /\ KeyOf(g) = KeyOf(f)
             /\ g.minor = f.minor /\ g.kdf = f.kdf /\ (Complete(g) <=> Complete(f))
  <1> DEFINE g == [f EXCEPT !.fails = n]
  <1>1. /\ g \in Footer /\ g.key = f.key /\ g.kdf = f.kdf /\ g.minor = f.minor
        /\ g.magic = f.magic /\ g.inProgress = f.inProgress
    BY FailsWritten
  <1> HIDE DEF g
  <1>2. KeyOf(g) = KeyOf(f) BY <1>1, SameKey
  <1>3. Complete(g) <=> Complete(f) BY <1>1 DEF Complete
  <1> QED BY <1>1, <1>2, <1>3 DEF g

-----------------------------------------------------------------------------
(* What the footers say of the data, when removing a device does not fail.  *)

(* Of a footer: a key that only part of userdata is encrypted with is in no *)
(* complete one, and a complete one that opens userdata opens the last      *)
(* volume.                                                                  *)
Truthful(f) ==
  /\ f.key.mk <= drawn
  /\ Complete(f) /\ content[0] < 0 => f.key.mk # -content[0]
  /\ Complete(f) /\ Opens(f) => content[NumVolumes] = content[0]

(* Keys are drawn in order, and the one that is being written with is in no *)
(* complete footer.                                                         *)
FootersTrue ==
  /\ content[0] <= drawn
  /\ Truthful(footer) /\ Truthful(disk) /\ Truthful(mine)
  /\ pc \in {"map"} \cup Writing =>
       (Complete(footer) => footer.key.mk < drawn) /\ (Complete(disk) => disk.key.mk < drawn)

(* The partitions that cryptfs_enable has come past.                        *)
Converted ==
  /\ pc \in {"convert", "converting"} =>
       /\ \A q \in Part : dm[q] \in {NoTable, drawn}
       /\ part > 0 => content[0] = drawn
  /\ (pc = "unmap" /\ rc = 0) \/ pc = "finish" => content[0] = drawn /\ content[NumVolumes] = drawn

(* What a test mount that succeeds says of the data.                        *)
Unlocked ==
  /\ saved # NoKey => saved = content[0] /\ content[NumVolumes] = content[0]
  /\ pc = "check" => dm[0] = Unwrap(mine, pw)

SealInv == FootersTrue /\ Converted /\ Unlocked

\* The truth of a footer depends on its key alone.
LEMMA SameTruth ==
  ASSUME NEW f, NEW g, Truthful(f), g.key = f.key, KeyOf(g) = KeyOf(f), Complete(g) => Complete(f)
  PROVE  Truthful(g)
  BY DEF Truthful, Opens

\* An area without a footer says nothing.
LEMMA BlankTruth == drawn \in Nat => Truthful(Blank)
  <1>1. ~Complete(Blank) /\ Blank.key.mk = NoKey BY InitialFooters DEF Blank, Wrap
  <1> QED BY <1>1 DEF Truthful, NoKey

\* A footer that holds the saved key, or none.
LEMMA SavedTruth ==
  ASSUME Inv, SealInv, saved # NoKey, NEW f, f.key.mk = saved
  PROVE  Truthful(f)
  <1>1. saved \in Key /\ saved = content[0] /\ content[NumVolumes] = content[0] /\ content[0] <= drawn
    BY DEF Inv, TypeOK, SealInv, FootersTrue, Unlocked
  <1> QED BY <1>1 DEF Truthful, Key

\* Of a device with a clear footer, or with one of an earlier release.
LEMMA SealInit == Init => SealInv
  <1> SUFFICES ASSUME Init PROVE SealInv OBVIOUS
  <1>1. PICK device \in Devices, p \in Passwords :
          /\ content = [q \in Part |-> IF device = "clear" THEN Clear ELSE 1]
          /\ footer = IF device = "clear" THEN Blank ELSE Legacy(p)
          /\ drawn = IF device = "clear" THEN 0 ELSE 1
    BY Zenon DEF Init
  <1>2. disk = footer /\ saved = NoKey /\ pc = "idle" /\ mine = Blank BY DEF Init
  <1>3. 0 \in Part /\ NumVolumes \in Part BY CryptAssumption DEF Part
  <1>4. content[0] = content[NumVolumes] /\ content[0] <= drawn /\ drawn \in Nat /\ ~(content[0] < 0)
    BY <1>1, <1>3 DEF Clear
  <1>5. Legacy(p).key.mk = 1
    <2>1. Legacy(p).key = Wrap(1, p, "pbkdf2") BY InitialFooters
    <2> QED BY <2>1 DEF Wrap
  <1>6. Truthful(Blank) BY <1>4, BlankTruth
  <1>7. Truthful(footer)
    <2>1. CASE device = "clear" BY <1>1, <1>6, <2>1
    <2>2. CASE device # "clear" BY <1>1, <1>4, <1>5, <2>2 DEF Truthful
    <2> QED BY <2>1, <2>2
  <1> QED BY <1>2, <1>4, <1>6, <1>7 DEF SealInv, FootersTrue, Converted, Unlocked, Writing

\* A step that at most reads the footer.
LEMMA QuietSeal ==
  ASSUME Inv, SealInv, Quiet
  PROVE  SealInv'
  <1>1. UNCHANGED <<content, disk, drawn, saved>> /\ mine' \in {mine, Blank} BY DEF Quiet
  <1>2. drawn \in Nat BY CryptAssumption DEF Inv, TypeOK
  <1>3. Truthful(footer') /\ Truthful(disk) /\ Truthful(mine')
    <2>1. Truthful(footer) /\ Truthful(disk) /\ Truthful(mine) BY DEF SealInv, FootersTrue
    <2>2. Truthful(Blank) BY <1>2, BlankTruth
    <2>3. footer'.key = footer.key /\ KeyOf(footer') = KeyOf(footer)
          /\ (Complete(footer') => Complete(footer))
      BY GetKeeps DEF Quiet, Inv, Complete
    <2> QED BY <1>1, <2>1, <2>2, <2>3, SameTruth
  <1>4. Truthful(footer)' /\ Truthful(disk)' /\ Truthful(mine)'
    BY <1>1, <1>3 DEF Truthful, Opens
  <1>5. CASE pc' \in {"check", "map"} \cup Writing
    <2>1. UNCHANGED <<pc, mine, pw, footer, dm, part, rc>> BY <1>5 DEF Quiet
    <2> QED BY <1>1, <1>4, <2>1 DEF SealInv, FootersTrue, Converted, Unlocked, Writing
  <1>6. CASE pc' \notin {"check", "map"} \cup Writing
    BY <1>1, <1>4, <1>6 DEF SealInv, FootersTrue, Converted, Unlocked, Writing
  <1> QED BY <1>5, <1>6

\* A boot, from either copy of the footer.
LEMMA BootSeal ==
  ASSUME Inv, SealInv, Boot, footer' \in {footer, disk}, disk' \in {footer, disk},
         UNCHANGED <<content, drawn>>
  PROVE  SealInv'
  <1>1. saved' = NoKey /\ pc' = "idle" /\ mine' = Blank BY DEF Boot, Return
  <1>2. Truthful(footer') /\ Truthful(disk') /\ Truthful(mine')
    BY <1>1, BlankTruth, CryptAssumption DEF Inv, TypeOK, SealInv, FootersTrue
  <1> QED BY <1>1, <1>2 DEF SealInv, FootersTrue, Converted, Unlocked, Writing, Truthful, Opens

\* No footer is complete with the key that is drawn.
LEMMA MakeKeySeal ==
  ASSUME Inv, SealInv, EnableMakeKey
  PROVE  SealInv'
  <1>1. pc = "key" /\ pw \in Passwords /\ drawn \in 0..MaxKeys /\ drawn < MaxKeys
    BY DEF EnableMakeKey, Inv, TypeOK, BeforeWriting, WhileWriting, Preparing
  <1> DEFINE k == drawn + 1
             g == NewFooter(pw, k)
  <1>2. k \in Key /\ k \in Int BY <1>1, CryptAssumption DEF Key
  <1>3. g \in Footer /\ ~Complete(g) /\ g.key.mk = k BY <1>1, <1>2, FinishFooter
  <1>4. footer' \in {footer, g} /\ mine' = g /\ drawn' = k /\ pc' = "map"
        /\ UNCHANGED <<content, disk, saved>>
    BY DEF EnableMakeKey, Put, Goto, bootVars
  <1> HIDE DEF g
  <1>5. footer.key.mk \in Int /\ disk.key.mk \in Int
    BY UpgradeOpens DEF Inv, TypeOK, Key, NoKey
  <1>6. /\ content[0] <= drawn /\ content[0] \in Int
        /\ Truthful(footer) /\ Truthful(disk)
    BY CryptAssumption DEF SealInv, FootersTrue, Inv, TypeOK, Part
  <1>7. Truthful(footer)' /\ Truthful(disk)' /\ Truthful(mine)'
    BY <1>1, <1>3, <1>4, <1>5, <1>6 DEF Truthful, Opens
  <1>8. (Complete(footer') => footer'.key.mk < k) /\ (Complete(disk') => disk'.key.mk < k)
    BY <1>1, <1>3, <1>4, <1>5, <1>6 DEF Truthful
  <1>9. FootersTrue' BY <1>1, <1>4, <1>6, <1>7, <1>8 DEF FootersTrue
  <1>10. Converted' /\ Unlocked' BY <1>4 DEF SealInv, Converted, Unlocked
  <1> QED BY <1>9, <1>10 DEF SealInv

\* Every device gets the key that was drawn: none was left.
LEMMA MapSeal ==
  ASSUME Inv, VolumeInv, SealInv, EnableMap
  PROVE  SealInv'
  <1>1. /\ pc = "map" /\ pw \in Passwords /\ drawn \in Key /\ mine = NewFooter(pw, drawn)
        /\ \A q \in Part : dm[q] = NoMap
    BY DEF EnableMap, Inv, States, WhileWriting, Preparing, VolumeInv, Mapping
  <1>2. Unwrap(mine, pw) = drawn BY <1>1, FinishFooter
  <1>3. \A q \in Part : dm'[q] \in {NoTable, drawn} BY <1>1, <1>2 DEF EnableMap
  <1>4. pc' = "convert" /\ part' = 0 /\ UNCHANGED <<content, footer, disk, drawn, saved, mine, pw>>
    BY DEF EnableMap, Goto, diskVars
  <1>5. Truthful(footer)' /\ Truthful(disk)' /\ Truthful(mine)'
    BY <1>4 DEF SealInv, FootersTrue, Truthful, Opens
  <1>6. FootersTrue' BY <1>1, <1>4, <1>5 DEF SealInv, FootersTrue
  <1> QED BY <1>3, <1>4, <1>6 DEF SealInv, Converted, Unlocked

\* Writing a partition makes no footer untrue.
LEMMA WriteTruth ==
  ASSUME Inv, SealInv, pc \in {"convert", "converting"}, UNCHANGED <<footer, disk, drawn, mine>>,
         UNCHANGED content \/ content'[0] \in {drawn, -drawn}
  PROVE  FootersTrue'
  <1>1. /\ pw \in Passwords /\ drawn \in Key /\ mine = NewFooter(pw, drawn)
        /\ footer \in Footer /\ disk \in Footer
    BY DEF Inv, TypeOK, WhileWriting, Preparing, Writing
  <1>2. ~Complete(mine) /\ mine.key.mk = drawn BY <1>1, FinishFooter
  <1>3. /\ Complete(footer) => footer.key.mk < drawn
        /\ Complete(disk) => disk.key.mk < drawn
        /\ content[0] <= drawn /\ Truthful(footer) /\ Truthful(disk) /\ Truthful(mine)
    BY DEF SealInv, FootersTrue, Writing
  <1>4. /\ footer.key.mk \in Int /\ KeyOf(footer) \in {0, footer.key.mk}
        /\ disk.key.mk \in Int /\ KeyOf(disk) \in {0, disk.key.mk}
    BY <1>1, UpgradeOpens DEF Key, NoKey
  <1>5. Truthful(footer)' /\ Truthful(disk)' /\ Truthful(mine)' /\ content'[0] <= drawn
    <2>1. CASE UNCHANGED content BY <1>3, <2>1 DEF Truthful, Opens
    <2>2. CASE content'[0] \in {drawn, -drawn}
      BY <1>1, <1>2, <1>3, <1>4, <2>2 DEF Truthful, Opens, Key
    <2> QED BY <2>1, <2>2
  <1> QED BY <1>3, <1>5 DEF FootersTrue

\* What a step of the conversion does to userdata.
LEMMA ConvertWrites ==
  ASSUME Inv, SealInv, EnableConvert \/ EnableConverted
  PROVE  /\ pc \in {"convert", "converting"} /\ drawn \in Key
         /\ UNCHANGED <<footer, disk, drawn, bootVars, mine, pw>>
         /\ \/ UNCHANGED content
            \/ content'[0] = content[0] /\ part > 0
            \/ content'[0] \in {drawn, -drawn}
         /\ part > 0 => content[0] = drawn
  <1>1. /\ pc \in {"convert", "converting"} /\ drawn \in Key /\ part \in Part /\ 0 \in Part
        /\ content \in [Part -> (-MaxKeys)..MaxKeys] /\ dm[part] \in {NoTable, drawn}
        /\ part > 0 => content[0] = drawn
    BY CryptAssumption
       DEF EnableConvert, EnableConverted, Inv, TypeOK, WhileWriting, Writing, SealInv, Converted, Part
  <1>2. UNCHANGED <<footer, disk, drawn, bootVars, mine, pw>>
    BY DEF EnableConvert, EnableConverted
  <1>3. \/ UNCHANGED content
        \/ content' = [content EXCEPT ![part] = drawn]
        \/ content' = [content EXCEPT ![part] = -drawn]
    <2>1. CASE EnableConvert BY <1>1, <2>1 DEF EnableConvert, NoTable
    <2>2. CASE EnableConverted
      <3>1. dm[part] = drawn
        BY <1>1, <2>2 DEF EnableConverted, Inv, WhileWriting, Key, NoTable
      <3> QED BY <2>2, <3>1 DEF EnableConverted
    <2> QED BY <2>1, <2>2
  <1>4. part = 0 \/ part > 0 BY <1>1, CryptAssumption DEF Part
  <1> QED BY <1>1, <1>2, <1>3, <1>4

\* The first block of a partition is written, or it is passed over.
LEMMA ConvertSeal ==
  ASSUME Inv, SealInv, EnableConvert
  PROVE  SealInv'
  <1>1. /\ pc = "convert" /\ part \in Part /\ dm[part] \in {NoTable, drawn} /\ drawn \in Key
        /\ content \in [Part -> (-MaxKeys)..MaxKeys] /\ 0 \in Part
        /\ \A q \in Part : dm[q] \in {NoTable, drawn}
        /\ part > 0 => content[0] = drawn
    BY CryptAssumption
       DEF EnableConvert, Inv, TypeOK, WhileWriting, Writing, SealInv, Converted, Part
  <1>2. UNCHANGED <<footer, disk, drawn, mine, dm, saved, pw, encrypted>>
    BY DEF EnableConvert, bootVars
  <1>3. FootersTrue' BY <1>1, ConvertWrites, WriteTruth
  <1>4. ~encrypted /\ saved = NoKey BY <1>1 DEF Inv, States, Unlocking
  <1>5. CASE content' = [content EXCEPT ![part] = -dm[part]] /\ pc' = "converting" /\ UNCHANGED part
    BY <1>1, <1>2, <1>3, <1>4, <1>5, CryptAssumption DEF SealInv, Converted, Unlocked, Part
  <1>6. CASE After(-1) /\ UNCHANGED content
    BY <1>1, <1>2, <1>3, <1>4, <1>6, CryptAssumption DEF SealInv, Converted, Unlocked, After, Goto, Part
  <1> QED BY <1>5, <1>6 DEF EnableConvert, Goto

\* All of it is written, or it is given up.
LEMMA ConvertedSeal ==
  ASSUME Inv, SealInv, EnableConverted
  PROVE  SealInv'
  <1>1. /\ pc = "converting" /\ part \in Part /\ dm[part] = drawn /\ drawn \in Key
        /\ content \in [Part -> (-MaxKeys)..MaxKeys] /\ 0 \in Part
        /\ \A q \in Part : dm[q] \in {NoTable, drawn}
        /\ part > 0 => content[0] = drawn
    BY CryptAssumption
       DEF EnableConverted, Inv, TypeOK, WhileWriting, Writing, SealInv, Converted, Part, Key, NoTable
  <1>2. UNCHANGED <<footer, disk, drawn, mine, dm, saved, pw, encrypted>>
    BY DEF EnableConverted, bootVars
  <1>3. FootersTrue' BY <1>1, ConvertWrites, WriteTruth
  <1>4. ~encrypted /\ saved = NoKey BY <1>1 DEF Inv, States, Unlocking
  <1>5. CASE content' = [content EXCEPT ![part] = dm[part]] /\ After(0)
    <2>1. content'[0] = drawn /\ content'[part] = drawn BY <1>1, <1>5, CryptAssumption DEF Part
    <2> QED BY <1>1, <1>2, <1>3, <1>4, <1>5, <2>1, CryptAssumption
            DEF SealInv, Converted, Unlocked, After, Goto, Part
  <1>6. CASE After(-1) /\ UNCHANGED content
    BY <1>1, <1>2, <1>3, <1>4, <1>6, CryptAssumption DEF SealInv, Converted, Unlocked, After, Goto, Part
  <1> QED BY <1>5, <1>6 DEF EnableConverted

\* The flag goes from a footer that holds the key just used.
LEMMA FinishSeal ==
  ASSUME Inv, SealInv, EnableFinish
  PROVE  SealInv'
  <1>1. /\ pc = "finish" /\ drawn \in Key /\ mine = NewFooter(pw, drawn) /\ pw \in Passwords
        /\ content[0] = drawn /\ content[NumVolumes] = drawn
    BY DEF Inv, EnableFinish, WhileWriting, Preparing, Writing, SealInv, Converted
  <1> DEFINE g == NewFooter(pw, drawn)
             f == [g EXCEPT !.inProgress = FALSE]
  <1>2. f.key.mk = drawn BY <1>1, FinishFooter
  <1>3. footer' \in {footer, f} /\ mine' = f /\ pc' = "reboot"
        /\ UNCHANGED <<content, disk, drawn, saved>>
    BY <1>1 DEF EnableFinish, Put, Goto, bootVars
  <1> HIDE DEF f
  <1>4. Truthful(f) BY <1>1, <1>2 DEF Truthful, Key
  <1>5. Truthful(footer') /\ Truthful(disk') /\ Truthful(mine')
    BY <1>3, <1>4 DEF SealInv, FootersTrue
  <1> QED BY <1>3, <1>5 DEF SealInv, FootersTrue, Converted, Unlocked, Truthful, Opens, Writing

\* The command keeps the footer it read, and the device what the password unwraps.
LEMMA CheckPasswdSeal ==
  ASSUME Inv, SealInv, NEW p \in Passwords, CheckPasswd(p)
  PROVE  SealInv'
  <1>1. /\ UNCHANGED <<content, disk, drawn, saved>> /\ (UNCHANGED footer \/ Get)
        /\ footer \in Footer /\ drawn \in Nat /\ 0 \in Part
        /\ dm \in [Part -> {NoTable, NoMap, NoKey} \cup Key]
    BY CryptAssumption DEF CheckPasswd, Inv, TypeOK, Part
  <1>2. \/ pc' = "idle" /\ mine' = Blank
        \/ pc' = "check" /\ mine' = Upgrade(footer) /\ dm'[0] = Unwrap(mine', pw')
    BY <1>1 DEF CheckPasswd, Return, Goto
  <1>3. Truthful(footer') /\ Truthful(disk) /\ Truthful(mine')
    <2>1. Truthful(footer) /\ Truthful(disk) BY DEF SealInv, FootersTrue
    <2>2. footer'.key = footer.key /\ KeyOf(footer') = KeyOf(footer)
          /\ (Complete(footer') => Complete(footer))
      BY <1>1, GetKeeps DEF Inv, Complete
    <2>3. Truthful(Upgrade(footer))
      BY <1>1, <2>1, UpgradeKeeps, UpgradeOpens, SameTruth DEF Complete
    <2> QED BY <1>1, <1>2, <2>1, <2>2, <2>3, SameTruth, BlankTruth
  <1> QED BY <1>1, <1>2, <1>3 DEF SealInv, FootersTrue, Converted, Unlocked, Truthful, Opens, Writing

\* The test mount succeeds only on userdata that is encrypted to the end.
LEMMA MountOpens ==
  ASSUME Inv, SealInv, CheckMounts
  PROVE  content[0] = dm[0] /\ content[NumVolumes] = content[0] /\ Opens(mine) /\ mine.key.pw = pw
  <1>1. /\ pc = "check" /\ Complete(mine) /\ mine \in Footer /\ mine.minor = CurrentMinor
        /\ pw \in Passwords /\ dm[0] = Unwrap(mine, pw) /\ Truthful(mine)
        /\ dm[0] > 0 /\ content[0] \in {dm[0], -dm[0]}
    BY DEF CheckMounts, Inv, TypeOK, Unlocking, SealInv, FootersTrue, Unlocked
  <1>2. dm[0] = mine.key.mk /\ mine.key.pw = pw BY <1>1 DEF Unwrap, NoKey
  <1>3. Upgrade(mine) = mine BY <1>1 DEF Upgrade, CurrentMinor
  <1>4. KeyOf(mine) = dm[0] BY <1>1, <1>2, <1>3 DEF KeyOf
  <1>5. mine.key.mk \in Int BY <1>1, UpgradeOpens DEF Key, NoKey
  <1>6. content[0] = dm[0] BY <1>1, <1>2, <1>5 DEF Truthful
  <1> QED BY <1>1, <1>2, <1>4, <1>6 DEF Truthful, Opens

\* The key is saved.
LEMMA CheckMountsSeal ==
  ASSUME Inv, SealInv, CheckMounts
  PROVE  SealInv'
  <1>1. /\ mine \in Footer /\ mine.minor = CurrentMinor /\ drawn \in Nat /\ 0 \in 0..MaxFailed
    BY CryptAssumption DEF CheckMounts, Inv, TypeOK, Unlocking
  <1> DEFINE f == [mine EXCEPT !.fails = 0]
  <1>2. f.key = mine.key /\ KeyOf(f) = KeyOf(mine) /\ (Complete(f) <=> Complete(mine))
    BY <1>1, CountFooter
  <1>3. footer' \in {footer, f} /\ mine' \in {Blank, f} /\ pc' \in {"idle", "rewrap"}
        /\ UNCHANGED <<content, disk, drawn>> /\ saved' = dm[0]
    BY DEF CheckMounts, PutCount, Put, Return, Goto
  <1> HIDE DEF f
  <1>4. Truthful(footer') /\ Truthful(disk) /\ Truthful(mine')
    BY <1>1, <1>2, <1>3, SameTruth, BlankTruth DEF SealInv, FootersTrue
  <1> QED BY <1>3, <1>4, MountOpens
          DEF SealInv, FootersTrue, Converted, Unlocked, Truthful, Opens, Writing

\* The failure is counted.
LEMMA CheckMountFailsSeal ==
  ASSUME Inv, SealInv, CheckMountFails
  PROVE  SealInv'
  <1>1. /\ mine \in Footer /\ mine.minor = CurrentMinor /\ drawn \in Nat
        /\ mine.fails < MaxFailed /\ mine.fails \in 0..MaxFailed
    BY CryptAssumption DEF CheckMountFails, Inv, TypeOK, Unlocking, Footer
  <1> DEFINE n == mine.fails + 1
             f == [mine EXCEPT !.fails = n]
  <1>2. n \in 0..MaxFailed BY <1>1, CryptAssumption
  <1>3. footer' \in {footer, f} /\ mine' = Blank /\ pc' = "idle"
        /\ UNCHANGED <<content, disk, drawn, saved>>
    BY DEF CheckMountFails, PutCount, Put, Return
  <1> HIDE DEF n
  <1>4. f.key = mine.key /\ KeyOf(f) = KeyOf(mine) /\ (Complete(f) <=> Complete(mine))
    BY <1>1, <1>2, CountFooter
  <1> HIDE DEF f
  <1>5. Truthful(footer') /\ Truthful(disk) /\ Truthful(mine')
    BY <1>1, <1>3, <1>4, SameTruth, BlankTruth DEF SealInv, FootersTrue
  <1> QED BY <1>3, <1>5 DEF SealInv, FootersTrue, Converted, Unlocked, Truthful, Opens, Writing

\* The saved key is wrapped again.
LEMMA CheckRewrapSeal ==
  ASSUME Inv, SealInv, CheckRewrap
  PROVE  SealInv'
  <1>1. mine \in Footer /\ pw \in Passwords /\ saved # NoKey /\ saved \in Key /\ drawn \in Nat
    BY CryptAssumption DEF CheckRewrap, Inv, TypeOK, Unlocking
  <1> DEFINE g == Rewrap(mine, pw, saved)
             f == [g EXCEPT !.kdf = "scrypt"]
  <1>2. g \in Footer /\ g.key = Wrap(saved, pw, "scrypt") BY <1>1, RewrapKeeps
  <1>3. f.key.mk = saved
    <2> HIDE DEF g
    <2> QED BY <1>2, FieldWritten DEF Wrap
  <1>4. footer' \in {footer, f} /\ mine' = Blank /\ pc' = "idle"
        /\ UNCHANGED <<content, disk, drawn, saved>>
    BY DEF CheckRewrap, Put, Return, bootVars
  <1> HIDE DEF f
  <1>5. Truthful(footer') /\ Truthful(disk) /\ Truthful(mine')
    BY <1>1, <1>3, <1>4, SavedTruth, BlankTruth DEF SealInv, FootersTrue
  <1> QED BY <1>4, <1>5 DEF SealInv, FootersTrue, Converted, Unlocked, Truthful, Opens, Writing

LEMMA ChangePwSeal ==
  ASSUME Inv, SealInv, NEW p \in Passwords, ChangePw(p)
  PROVE  SealInv'
  <1>1. footer \in Footer /\ drawn \in Nat /\ saved \in Key \cup {NoKey}
    BY CryptAssumption DEF Inv, TypeOK
  <1> DEFINE g == Upgrade(footer)
             f == Rewrap(g, p, saved)
  <1>2. g \in Footer /\ Truthful(g)
    BY <1>1, UpgradeKeeps, UpgradeOpens, SameTruth DEF SealInv, FootersTrue, Complete
  <1>3. ASSUME saved # NoKey PROVE Truthful(f)
    <2> HIDE DEF g
    <2>1. saved \in Key BY <1>1, <1>3
    <2>2. f.key = Wrap(saved, p, "scrypt") BY <1>2, <2>1, RewrapKeeps
    <2>3. f.key.mk = saved BY <2>2 DEF Wrap
    <2> HIDE DEF f
    <2> QED BY <1>3, <2>3, SavedTruth
  <1>4. /\ footer' \in {footer, g} \/ (saved # NoKey /\ footer' = f)
        /\ mine' = Blank /\ pc' = "idle" /\ UNCHANGED <<content, disk, drawn, saved>>
    BY DEF ChangePw, Put, Return, bootVars
  <1> HIDE DEF f, g
  <1>5. Truthful(footer') /\ Truthful(disk) /\ Truthful(mine')
    BY <1>1, <1>2, <1>3, <1>4, BlankTruth DEF SealInv, FootersTrue
  <1> QED BY <1>4, <1>5 DEF SealInv, FootersTrue, Converted, Unlocked, Truthful, Opens, Writing

\* One case for each action that may change a footer, the data or the key.
LEMMA SealNext ==
  ASSUME Inv, VolumeInv, SealInv, [Next]_vars
  PROVE  SealInv'
  <1>1. CASE Quiet BY <1>1, QuietSeal
  <1>2. CASE WriteBack
    BY <1>2 DEF WriteBack, SealInv, FootersTrue, Converted, Unlocked, Truthful, Opens, bootVars, cmdVars
  <1>3. CASE PowerLoss BY <1>3, BootSeal DEF PowerLoss
  <1>4. CASE Reboot BY <1>4, BootSeal DEF Reboot
  <1>5. CASE EnableMakeKey BY <1>5, MakeKeySeal
  <1>6. CASE EnableMap BY <1>6, MapSeal
  <1>7. CASE EnableConvert BY <1>7, ConvertSeal
  <1>8. CASE EnableConverted BY <1>8, ConvertedSeal
  <1>9. CASE EnableUnmap
    <2>1. pc = "unmap" /\ rc = 0 /\ pc' = "finish"
          /\ UNCHANGED <<content, footer, disk, drawn, saved, mine>>
      BY <1>9 DEF EnableUnmap, Goto, diskVars
    <2> QED BY <2>1 DEF SealInv, FootersTrue, Converted, Unlocked, Truthful, Opens, Writing
  <1>10. CASE EnableFinish BY <1>10, FinishSeal
  <1>11. CASE CheckMounts BY <1>11, CheckMountsSeal
  <1>12. CASE CheckMountFails BY <1>12, CheckMountFailsSeal
  <1>13. CASE CheckRewrap BY <1>13, CheckRewrapSeal
  <1>14. CASE \E p \in Passwords : CheckPasswd(p) BY <1>14, CheckPasswdSeal
  <1>15. CASE \E p \in Passwords : ChangePw(p) BY <1>15, ChangePwSeal
  <1> QED BY <1>1, <1>2, <1>3, <1>4, <1>5, <1>6, <1>7, <1>8, <1>9, <1>10, <1>11, <1>12, <1>13,
             <1>14, <1>15, QuietOrLoud DEF Loud

\* The invariants of the devices and of the footers together.
LEMMA Sealed ==
  ASSUME "dmremove" \notin Faults
  PROVE  Spec => [](Inv /\ VolumeInv /\ SealInv)
  <1>1. Inv /\ VolumeInv /\ [Next]_vars => VolumeInv' BY VolumeNext
  <1>2. Inv /\ VolumeInv /\ SealInv /\ [Next]_vars => SealInv' BY SealNext
  <1>3. Init => VolumeInv /\ SealInv BY DeviceInit, SealInit
  <1> QED BY <1>1, <1>2, <1>3, Invariance, PTL DEF Spec

(* A footer without the in-progress flag that opens userdata means that the *)
(* last volume is encrypted with the same key: rc can only become 0 again   *)
(* with the volume it is set for.                                           *)
THEOREM LastVolume ==
  ASSUME "dmremove" \notin Faults
  PROVE  Spec => []LastVolumeDone
  <1>1. SealInv => LastVolumeDone BY DEF SealInv, FootersTrue, Truthful, LastVolumeDone
  <1> QED BY <1>1, Sealed, PTL

(* The saved master key is the one all of userdata is encrypted with: a     *)
(* test mount that succeeds on half-encrypted data is never tried with its  *)
(* key, as no footer that holds it is complete.                             *)
THEOREM UnlocksItsData ==
  ASSUME "dmremove" \notin Faults
  PROVE  Spec => []SavedKeyIsRight
  <1>1. SealInv => SavedKeyIsRight BY DEF SealInv, Unlocked, SavedKeyIsRight
  <1> QED BY <1>1, Sealed, PTL

-----------------------------------------------------------------------------
(* The key, when writing a footer, wrapping a key and removing a device do  *)
(* not fail.                                                                *)

(* The complete footers hold the key of the data, or an older one that was  *)
(* overwritten; the footer of unlocked data is at the current version with  *)
(* the current key derivation.                                              *)
KeyInv ==
  /\ \A f \in {footer, disk} :
       Complete(f) => KeyOf(f) # NoKey /\ (KeyOf(f) = content[0] \/ Overwritten(KeyOf(f)))
  /\ saved # NoKey /\ pc # "rewrap" => footer.minor = CurrentMinor /\ footer.kdf = "scrypt"
  /\ pc = "check" => mine = footer

\* The theorems of this section assume it.
FootersWritten == "put" \notin Faults /\ "rewrap" \notin Faults

\* Reading the footer upgrades it to one that opens the same data.
LEMMA GetUpgrades ==
  ASSUME FootersWritten, TypeOK, Get
  PROVE  /\ footer' = Upgrade(footer) /\ footer'.key = footer.key /\ KeyOf(footer') = KeyOf(footer)
         /\ footer.minor = CurrentMinor => footer' = footer
         /\ Complete(footer') <=> Complete(footer)
  <1>1. footer' = Upgrade(footer) BY DEF Get, MayFail, FootersWritten
  <1>2. footer'.key = footer.key /\ KeyOf(footer') = KeyOf(footer) /\ (Complete(footer') <=> Complete(footer))
    BY GetKeeps DEF Complete
  <1>3. footer.minor = CurrentMinor => footer' = footer BY <1>1 DEF Upgrade, CurrentMinor
  <1> QED BY <1>1, <1>2, <1>3

\* A step that at most reads the footer keeps KeyInv, and what the footer opens.
LEMMA QuietKey ==
  ASSUME FootersWritten, Inv, KeyInv, Quiet
  PROVE  /\ KeyInv'
         /\ footer'.key = footer.key /\ KeyOf(footer') = KeyOf(footer)
         /\ Complete(footer') <=> Complete(footer)
  <1>1. UNCHANGED <<content, disk, saved>> BY DEF Quiet
  <1>2. pc' = "check" => UNCHANGED <<pc, mine, footer>> BY DEF Quiet
  <1>3. /\ footer'.key = footer.key /\ KeyOf(footer') = KeyOf(footer)
        /\ Complete(footer') <=> Complete(footer)
        /\ footer.minor = CurrentMinor => footer' = footer
    BY GetUpgrades DEF Quiet, Inv
  <1>4. pc = "rewrap" => pc' = "rewrap" BY DEF Quiet
  <1> QED BY <1>1, <1>2, <1>3, <1>4 DEF KeyInv, Overwritten

\* An earlier release left the password that opens the data.
LEMMA KeyInit == Init => KeyInv
  <1> SUFFICES ASSUME Init PROVE KeyInv OBVIOUS
  <1>1. PICK device \in Devices, p \in Passwords :
          /\ content = [q \in Part |-> IF device = "clear" THEN Clear ELSE 1]
          /\ footer = IF device = "clear" THEN Blank ELSE Legacy(p)
    BY Zenon DEF Init
  <1>2. disk = footer /\ saved = NoKey /\ pc = "idle" BY DEF Init
  <1>3. CASE device = "clear" BY <1>1, <1>2, <1>3, InitialFooters DEF KeyInv
  <1>4. CASE device # "clear"
    <2>1. 0 \in Part BY CryptAssumption DEF Part
    <2>2. footer = Legacy(p) /\ content[0] = 1 BY <1>1, <1>4, <2>1
    <2>3. Legacy(p).key = Wrap(1, p, "pbkdf2") /\ Legacy(p).minor = 1 /\ Legacy(p).magic
      BY InitialFooters
    <2>4. Upgrade(Legacy(p)).key = Wrap(1, p, "pbkdf2") /\ Upgrade(Legacy(p)).kdf = "pbkdf2"
      <3>1. Upgrade(Legacy(p)) = [Legacy(p) EXCEPT !.minor = CurrentMinor, !.kdf = "pbkdf2"]
        BY <2>3 DEF Upgrade, CurrentMinor
      <3> QED BY <2>3, <3>1, InitialFooters DEF Footer
    <2>5. KeyOf(Legacy(p)) = 1 BY <2>3, <2>4 DEF KeyOf, Unwrap, Wrap
    <2> QED BY <1>2, <2>2, <2>5 DEF KeyInv, NoKey
  <1> QED BY <1>3, <1>4

\* While it writes, the footer is not complete and no key is saved.
LEMMA NothingSealed ==
  ASSUME FootersWritten, Inv, pc \in {"map"} \cup Writing
  PROVE  ~Complete(footer) /\ saved = NoKey /\ ~encrypted
  <1>1. footer.inProgress BY DEF Inv, Flagged, FootersWritten
  <1>2. ~encrypted BY DEF Inv, States, Writing
  <1> QED BY <1>1, <1>2 DEF Inv, Unlocking, Complete

\* The footer of the key that is drawn is not complete.
LEMMA MakeKeyKey ==
  ASSUME FootersWritten, Inv, KeyInv, EnableMakeKey
  PROVE  /\ KeyInv' /\ UNCHANGED <<content, disk, saved, encrypted>>
         /\ ~encrypted /\ ~Complete(footer')
  <1>1. pc = "key" /\ pw \in Passwords /\ drawn + 1 \in Key /\ ~encrypted /\ saved = NoKey
    <2>1. pc = "key" /\ pw \in Passwords /\ drawn \in 0..MaxKeys /\ drawn < MaxKeys /\ ~encrypted
      BY DEF EnableMakeKey, Inv, TypeOK, States, BeforeWriting, WhileWriting, Preparing
    <2>2. saved = NoKey BY <2>1 DEF Inv, Unlocking
    <2> QED BY <2>1, <2>2, CryptAssumption DEF Key
  <1>2. footer' = NewFooter(pw, drawn + 1)
    BY DEF EnableMakeKey, Put, Outcomes, MayFail, FootersWritten
  <1>3. ~Complete(footer') BY <1>1, <1>2, FinishFooter
  <1>4. UNCHANGED <<content, disk, saved, encrypted>> /\ pc' = "map"
    BY DEF EnableMakeKey, Goto, bootVars
  <1> QED BY <1>1, <1>3, <1>4 DEF KeyInv, Overwritten

\* A footer that is complete loses its data only to a newer key.
LEMMA ConvertKey ==
  ASSUME FootersWritten, Inv, SealInv, KeyInv, EnableConvert \/ EnableConverted
  PROVE  /\ KeyInv' /\ UNCHANGED <<footer, disk, saved, encrypted>>
         /\ ~encrypted /\ ~Complete(footer)
         /\ \/ content'[0] = content[0]
            \/ content'[0] # Clear /\ ~(Complete(disk) /\ content'[0] = KeyOf(disk))
  <1>1. /\ UNCHANGED <<footer, disk, saved, encrypted>> /\ drawn \in Key
        /\ content'[0] = content[0] \/ content'[0] \in {drawn, -drawn}
        /\ pc \in Writing /\ pc' # "check"
    BY ConvertWrites DEF EnableConvert, EnableConverted, After, Goto, bootVars, Writing
  <1>2. ~encrypted /\ ~Complete(footer) /\ saved = NoKey BY <1>1, NothingSealed
  <1>3. Complete(disk) => disk.key.mk < drawn /\ KeyOf(disk) # NoKey
    BY <1>1 DEF SealInv, FootersTrue, KeyInv
  <1>4. KeyOf(disk) \in {NoKey, disk.key.mk} /\ disk.key.mk \in Key \cup {NoKey}
    BY UpgradeOpens DEF Inv, TypeOK
  <1>5. content'[0] = content[0] \/
          (content'[0] \in {drawn, -drawn} /\ (Complete(disk) => KeyOf(disk) < drawn /\ KeyOf(disk) \in Key))
    BY <1>1, <1>3, <1>4
  <1>6. KeyInv'
    <2>1. Complete(disk) => KeyOf(disk) # NoKey /\
            (KeyOf(disk) = content'[0] \/ content'[0] > KeyOf(disk) \/ content'[0] < -KeyOf(disk))
      BY <1>1, <1>5 DEF KeyInv, Overwritten, Key, NoKey
    <2> QED BY <1>1, <1>2, <2>1 DEF KeyInv, Overwritten
  <1> QED BY <1>1, <1>2, <1>5, <1>6 DEF Key, Clear

\* The in-progress flag goes from a footer that holds the key just used.
LEMMA FinishKey ==
  ASSUME FootersWritten, Inv, SealInv, KeyInv, EnableFinish
  PROVE  /\ KeyInv' /\ footer'.key.pw = pw /\ Complete(footer')
         /\ KeyOf(footer') = content[0] /\ content[0] > 0 /\ pw \in Passwords
  <1>1. /\ drawn \in Key /\ mine = NewFooter(pw, drawn) /\ pw \in Passwords
        /\ content[0] = drawn /\ pc = "finish"
    BY DEF Inv, EnableFinish, WhileWriting, Preparing, Writing, SealInv, Converted
  <1> DEFINE g == NewFooter(pw, drawn)
             f == [g EXCEPT !.inProgress = FALSE]
  <1>2. footer' = f BY <1>1 DEF EnableFinish, Put, Outcomes, MayFail, FootersWritten
  <1>3. Complete(f) /\ f.key.pw = pw /\ KeyOf(f) = drawn BY <1>1, FinishFooter
  <1> HIDE DEF f
  <1>4. saved = NoKey BY <1>1, NothingSealed DEF Writing
  <1>5. UNCHANGED <<content, disk, saved>> /\ pc' = "reboot"
    BY DEF EnableFinish, Goto, bootVars
  <1>6. KeyInv' BY <1>1, <1>2, <1>3, <1>4, <1>5 DEF KeyInv, Overwritten, Key, NoKey
  <1> QED BY <1>1, <1>2, <1>3, <1>6 DEF Key

\* The right password: the failure count goes, and the key is saved.
LEMMA CheckMountsKey ==
  ASSUME FootersWritten, Inv, KeyInv, CheckMounts
  PROVE  /\ KeyInv' /\ mine = footer
         /\ footer'.key = footer.key /\ KeyOf(footer') = KeyOf(footer)
         /\ Complete(footer) /\ Complete(footer')
  <1>1. /\ pc = "check" /\ mine = footer /\ mine \in Footer /\ mine.minor = CurrentMinor
        /\ Complete(mine) /\ 0 \in 0..MaxFailed
    BY CryptAssumption DEF Inv, TypeOK, KeyInv, Unlocking, CheckMounts
  <1> DEFINE f == [mine EXCEPT !.fails = 0]
  <1>2. /\ f \in Footer /\ f.key = mine.key /\ KeyOf(f) = KeyOf(mine) /\ f.minor = mine.minor
        /\ f.kdf = mine.kdf /\ Complete(f)
    BY <1>1, CountFooter
  <1>3. footer' \in {footer, f} BY DEF CheckMounts, PutCount, Put
  <1>4. (mine.kdf = "scrypt" /\ pc' = "idle") \/ pc' = "rewrap"
    BY DEF CheckMounts, Return, Goto
  <1>5. UNCHANGED <<content, disk>> BY DEF CheckMounts
  <1> HIDE DEF f
  <1>6. KeyInv' BY <1>1, <1>2, <1>3, <1>4, <1>5 DEF KeyInv, Overwritten
  <1> QED BY <1>1, <1>2, <1>3, <1>6

\* A wrong one: the failure count grows.
LEMMA CheckMountFailsKey ==
  ASSUME FootersWritten, Inv, KeyInv, CheckMountFails
  PROVE  /\ KeyInv' /\ footer'.key = footer.key /\ KeyOf(footer') = KeyOf(footer)
         /\ Complete(footer) /\ Complete(footer')
  <1>1. /\ pc = "check" /\ mine = footer /\ mine \in Footer /\ mine.minor = CurrentMinor
        /\ Complete(mine) /\ saved = NoKey /\ mine.fails < MaxFailed /\ mine.fails \in 0..MaxFailed
    BY DEF Inv, TypeOK, KeyInv, Unlocking, CheckMountFails, Footer
  <1> DEFINE n == mine.fails + 1
             f == [mine EXCEPT !.fails = n]
  <1>2. n \in 0..MaxFailed BY <1>1, CryptAssumption
  <1>3. footer' \in {footer, f} BY DEF CheckMountFails, PutCount, Put
  <1> HIDE DEF n
  <1>4. f \in Footer /\ f.key = mine.key /\ KeyOf(f) = KeyOf(mine) /\ Complete(f)
    BY <1>1, <1>2, CountFooter
  <1>5. UNCHANGED <<content, disk, saved>> /\ pc' = "idle" BY DEF CheckMountFails, Return
  <1> HIDE DEF f
  <1>6. KeyInv' BY <1>1, <1>3, <1>4, <1>5 DEF KeyInv, Overwritten
  <1> QED BY <1>1, <1>3, <1>4, <1>6

\* The footer is wrapped again, and marked with the function it is wrapped with.
LEMMA CheckRewrapKey ==
  ASSUME FootersWritten, Inv, SealInv, KeyInv, CheckRewrap
  PROVE  /\ KeyInv' /\ footer'.key.pw = pw /\ Complete(footer') /\ KeyOf(footer') = content[0]
         /\ content[0] > 0 /\ pw \in Passwords
  <1>1. /\ pc = "rewrap" /\ mine \in Footer /\ mine.minor = CurrentMinor /\ Complete(mine)
        /\ saved \in Key /\ saved = content[0] /\ pw \in Passwords
    BY DEF Inv, TypeOK, Unlocking, CheckRewrap, SealInv, Unlocked
  <1> DEFINE g == Rewrap(mine, pw, saved)
             f == [g EXCEPT !.kdf = "scrypt"]
  <1>2. /\ g \in Footer /\ g.key = Wrap(saved, pw, "scrypt") /\ g.minor = mine.minor
        /\ g.magic = mine.magic /\ g.inProgress = mine.inProgress
    BY <1>1, RewrapKeeps
  <1>3. footer' = f BY DEF CheckRewrap, Put, MayFail, FootersWritten
  <1>4. UNCHANGED <<content, disk, saved>> /\ pc' = "idle"
    BY DEF CheckRewrap, Return, bootVars
  <1> HIDE DEF g
  <1>5. /\ f \in Footer /\ f.key = Wrap(saved, pw, "scrypt") /\ f.kdf = "scrypt"
        /\ f.minor = CurrentMinor /\ f.magic = mine.magic /\ f.inProgress = mine.inProgress
    BY <1>1, <1>2, FieldWritten
  <1> HIDE DEF f
  <1>6. KeyOf(f) = saved /\ f.key.pw = pw BY <1>1, <1>5, CurrentOpens
  <1>7. KeyInv' BY <1>1, <1>3, <1>4, <1>5, <1>6 DEF KeyInv, Overwritten, Key, NoKey
  <1> QED BY <1>1, <1>3, <1>5, <1>6, <1>7 DEF Complete, Key

\* cryptfs_changepw wraps with scrypt and relies on the footer to say so.
LEMMA ChangePwKey ==
  ASSUME FootersWritten, Inv, SealInv, KeyInv, NEW p \in Passwords, ChangePw(p)
  PROVE  /\ KeyInv'
         /\ \/ UNCHANGED footer
            \/ /\ saved # NoKey /\ footer'.key.pw = p /\ Complete(footer')
               /\ KeyOf(footer') = content[0] /\ content[0] > 0
  <1>1. UNCHANGED <<content, disk, saved>> /\ pc = "idle" /\ pc' = "idle"
    BY DEF ChangePw, Return, Idle, bootVars
  <1>2. ASSUME UNCHANGED footer PROVE KeyInv' BY <1>1, <1>2 DEF KeyInv, Overwritten
  <1>3. ASSUME footer' # footer
        PROVE  /\ KeyInv' /\ saved # NoKey /\ footer'.key.pw = p /\ Complete(footer')
               /\ KeyOf(footer') = content[0] /\ content[0] > 0
    <2>1. saved # NoKey /\ footer' = Rewrap(Upgrade(footer), p, saved)
      BY <1>3 DEF ChangePw, Put, MayFail, FootersWritten
    <2>2. /\ footer \in Footer /\ footer.minor = CurrentMinor /\ footer.kdf = "scrypt"
          /\ saved \in Key /\ saved = content[0] /\ Complete(footer)
      BY <1>1, <2>1 DEF Inv, TypeOK, KeyInv, Unlocking, SealInv, Unlocked
    <2>3. Upgrade(footer) = footer BY <2>2 DEF Upgrade, CurrentMinor
    <2>4. /\ footer' \in Footer /\ footer'.key = Wrap(saved, p, "scrypt") /\ footer'.kdf = "scrypt"
          /\ footer'.minor = CurrentMinor /\ footer'.magic = footer.magic
          /\ footer'.inProgress = footer.inProgress
      BY <2>1, <2>2, <2>3, RewrapKeeps
    <2>5. KeyOf(footer') = saved /\ footer'.key.pw = p BY <2>4, CurrentOpens
    <2>6. KeyInv' BY <1>1, <2>2, <2>4, <2>5 DEF KeyInv, Overwritten, Key, NoKey
    <2>7. Complete(footer') BY Zenon, <2>2, <2>4 DEF Complete
    <2>8. content[0] > 0 BY <2>2 DEF Key
    <2> QED BY Zenon, <2>1, <2>2, <2>5, <2>6, <2>7, <2>8
  <1> QED BY Zenon, <1>2, <1>3

\* The command keeps the footer it read.
LEMMA CheckPasswdKey ==
  ASSUME FootersWritten, Inv, KeyInv, NEW p \in Passwords, CheckPasswd(p)
  PROVE  /\ KeyInv' /\ footer'.key = footer.key /\ KeyOf(footer') = KeyOf(footer)
         /\ Complete(footer') <=> Complete(footer)
  <1>1. UNCHANGED <<content, disk, saved>> /\ pc = "idle" /\ (UNCHANGED footer \/ Get)
    BY DEF CheckPasswd, Idle
  <1>2. /\ footer'.key = footer.key /\ KeyOf(footer') = KeyOf(footer)
        /\ Complete(footer') <=> Complete(footer)
        /\ footer.minor = CurrentMinor => footer' = footer
    BY <1>1, GetUpgrades DEF Inv
  <1>3. pc' = "check" => mine' = footer'
    <2>1. pc' = "check" => Get /\ mine' = Upgrade(footer) BY DEF CheckPasswd, Return
    <2> QED BY <2>1, GetUpgrades DEF Inv
  <1>4. pc' \in {"idle", "check"} BY DEF CheckPasswd, Return, Goto
  <1> QED BY <1>1, <1>2, <1>3, <1>4 DEF KeyInv, Overwritten

\* One case for each action that may change a footer or the key.
LEMMA KeyNext ==
  ASSUME FootersWritten, Inv, SealInv, KeyInv, [Next]_vars
  PROVE  KeyInv'
  <1>1. CASE Quiet BY <1>1, QuietKey
  <1>2. CASE WriteBack BY <1>2 DEF WriteBack, KeyInv, Overwritten, bootVars, cmdVars
  <1>3. CASE PowerLoss BY <1>3 DEF PowerLoss, Boot, Return, KeyInv, Overwritten
  <1>4. CASE Reboot BY <1>4 DEF Reboot, Boot, Return, KeyInv, Overwritten
  <1>5. CASE EnableMakeKey BY <1>5, MakeKeyKey
  <1>6. CASE EnableConvert \/ EnableConverted BY <1>6, ConvertKey
  <1>7. CASE EnableMap \/ EnableUnmap
    <2>1. UNCHANGED <<content, footer, disk, saved>> /\ pc # "rewrap" /\ pc' # "check"
      BY <1>7 DEF EnableMap, EnableUnmap, Goto, diskVars
    <2> QED BY <2>1 DEF KeyInv, Overwritten
  <1>8. CASE EnableFinish BY <1>8, FinishKey
  <1>9. CASE CheckMounts BY <1>9, CheckMountsKey
  <1>10. CASE CheckMountFails BY <1>10, CheckMountFailsKey
  <1>11. CASE CheckRewrap BY <1>11, CheckRewrapKey
  <1>12. CASE \E p \in Passwords : CheckPasswd(p) BY <1>12, CheckPasswdKey
  <1>13. CASE \E p \in Passwords : ChangePw(p) BY <1>13, ChangePwKey
  <1> QED BY <1>1, <1>2, <1>3, <1>4, <1>5, <1>6, <1>7, <1>8, <1>9, <1>10, <1>11, <1>12, <1>13,
             QuietOrLoud DEF Loud

(* When the footer can be written, the key wrapped and a device removed, a  *)
(* footer that is complete opens userdata with some password, wherever the  *)
(* power fails, unless a later enablecrypto of the same boot has overwritten *)
(* userdata with a newer key.  Without the assumption this is false: the    *)
(* violation is the run keylost.                                            *)
THEOREM KeyIsKept ==
  ASSUME FootersWritten, "dmremove" \notin Faults
  PROVE  Spec => []KeyKept
  <1>1. Inv /\ SealInv /\ KeyInv /\ [Next]_vars => KeyInv' BY KeyNext
  <1>2. Spec => []KeyInv BY <1>1, KeyInit, Sealed, PTL DEF Spec
  <1>3. Inv /\ KeyInv => KeyKept
    <2> SUFFICES ASSUME Inv, KeyInv, NEW f \in {footer, disk}, Complete(f)
                 PROVE  KeyOf(f) # NoKey /\ (Opens(f) \/ Overwritten(KeyOf(f)))
      BY DEF KeyKept
    <2>1. KeyOf(f) # NoKey /\ (KeyOf(f) = content[0] \/ Overwritten(KeyOf(f))) BY DEF KeyInv
    <2>2. KeyOf(f) \in Key \cup {NoKey} BY UpgradeOpens DEF Inv, TypeOK
    <2> QED BY <2>1, <2>2 DEF Opens, Key, NoKey
  <1> QED BY <1>2, <1>3, Sealed, PTL

-----------------------------------------------------------------------------
(* Cryptfs implements DiskEncryption.                                       *)

\* What a footer accepts depends on its key and on userdata alone.
LEMMA SameAccepts ==
  ASSUME content'[0] = content[0], footer'.key = footer.key, KeyOf(footer') = KeyOf(footer),
         Complete(footer') <=> Complete(footer)
  PROVE  Accepts(footer)' = Accepts(footer)
  BY DEF Accepts, Opens

LEMMA SameDurable ==
  ASSUME content'[0] = content[0], UNCHANGED disk
  PROVE  Accepts(disk)' = Accepts(disk)
  BY DEF Accepts, Opens

\* A complete footer that opens userdata accepts its password.
LEMMA AcceptsPassword ==
  ASSUME NEW f \in Footer
  PROVE  /\ Complete(f) /\ Opens(f) => Accepts(f) = f.key.pw /\ Accepts(f) \in Passwords
         /\ ~Complete(f) \/ ~Opens(f) => Accepts(f) = NoPassword
  <1>1. Opens(f) => f.key.pw \in Passwords BY UpgradeOpens DEF Opens, NoKey
  <1> QED BY <1>1 DEF Accepts

\* In the clear with no password, or encrypted with one.
LEMMA PromiseInit == Init => Promise!Init
  <1> SUFFICES ASSUME Init PROVE Promise!Init OBVIOUS
  <1>1. PICK device \in Devices, p \in Passwords :
          /\ content = [q \in Part |-> IF device = "clear" THEN Clear ELSE 1]
          /\ footer = IF device = "clear" THEN Blank ELSE Legacy(p)
          /\ encrypted = (device = "legacy")
    BY Zenon DEF Init
  <1>2. disk = footer /\ saved = NoKey /\ 0 \in Part BY CryptAssumption DEF Init, Part
  <1>3. device \in {"clear", "legacy"} BY <1>1, CryptAssumption
  <1>4. footer \in Footer BY <1>1, InitialFooters
  <1>5. CASE device = "clear"
    <2>1. content[0] = Clear /\ ~Complete(footer) BY <1>1, <1>2, <1>5, InitialFooters
    <2>2. Accepts(footer) = NoPassword BY <1>4, <2>1, AcceptsPassword
    <2>3. encrypted = FALSE BY Zenon, <1>1, <1>5
    <2>4. ((content[0] = Clear) = TRUE) /\ ((saved # NoKey) = FALSE)
      BY Zenon, <1>2, <2>1
    <2>5. encrypted = (~(content[0] = Clear)) BY Zenon, <2>1, <2>3
    <2>6. Accepts(disk) = Accepts(footer) BY <1>2 DEF Accepts, Opens
    <2> QED BY Zenon, <2>2, <2>4, <2>5, <2>6 DEF Promise!Init
  <1>6. CASE device = "legacy"
    <2>1. content[0] # Clear /\ content[0] > 0 BY <1>1, <1>2, <1>6 DEF Clear
    <2>2. Complete(footer) BY <1>1, <1>6, InitialFooters DEF Complete, Legacy
    <2>3. KeyOf(footer) # NoKey /\ (KeyOf(footer) = content[0] \/ Overwritten(KeyOf(footer)))
      BY <2>2, KeyInit DEF KeyInv
    <2>4. KeyOf(footer) = content[0]
      <3>1. content[0] = 1 BY <1>1, <1>2, <1>6
      <3>2. KeyOf(footer) \in Key \cup {NoKey} BY <1>4, UpgradeOpens
      <3> QED BY <2>3, <3>1, <3>2 DEF Overwritten, Key, NoKey
    <2>5. Accepts(footer) \in Passwords BY <1>4, <2>1, <2>2, <2>4, AcceptsPassword DEF Opens
    <2>6. encrypted BY Zenon, <1>1, <1>6
    <2> QED BY <1>2, <2>1, <2>5, <2>6 DEF Promise!Init
  <1> QED BY <1>3, <1>5, <1>6

\* Every step is one of the promise, or changes none of its five variables.
LEMMA PromiseNext ==
  ASSUME FootersWritten, Inv, SealInv, KeyInv, [Next]_vars, Inv'
  PROVE  [Promise!Next]_Promise!vars
  <1>1. footer \in Footer /\ disk \in Footer /\ footer' \in Footer /\ disk' \in Footer
    BY DEF Inv, TypeOK
  <1>2. encrypted \in BOOLEAN /\ encrypted' \in BOOLEAN BY DEF Inv, TypeOK
  <1>3. ASSUME UNCHANGED <<disk, saved, encrypted>>, content'[0] = content[0],
               Accepts(footer)' = Accepts(footer)
        PROVE  UNCHANGED Promise!vars
    BY <1>3, SameDurable DEF Promise!vars
  <1>4. CASE Quiet
    <2>1. Accepts(footer)' = Accepts(footer) BY <1>4, QuietKey, SameAccepts DEF Quiet
    <2> QED BY <1>3, <1>4, <2>1 DEF Quiet
  <1>5. CASE WriteBack
    <2>1. disk' = footer /\ UNCHANGED <<footer, content, saved, encrypted>>
      BY <1>5 DEF WriteBack, bootVars
    <2>2. Accepts(disk)' = Accepts(footer) /\ Accepts(footer)' = Accepts(footer)
      BY <2>1 DEF Accepts, Opens
    <2>3. Promise!Sync BY <2>1, <2>2 DEF Promise!Sync
    <2> QED BY <2>3 DEF Promise!Next
  <1>6. ASSUME Boot, UNCHANGED content PROVE Promise!Boot
    <2>1. encrypted' = (content[0] # Clear) /\ saved' = NoKey BY Zenon, <1>6 DEF Boot
    <2>2. encrypted' = ~(content[0] = Clear) BY Zenon, <2>1
    <2>3. encrypted' = ~(content'[0] = Clear) BY Zenon, <1>6, <2>2
    <2> QED BY Zenon, <1>6, <2>1, <2>2 DEF Promise!Boot
  <1>7. CASE PowerLoss
    <2>1. footer' = disk /\ UNCHANGED <<content, disk>> BY <1>7 DEF PowerLoss
    <2>2. Accepts(footer)' = Accepts(disk) /\ Accepts(disk)' = Accepts(disk)
      BY <2>1 DEF Accepts, Opens
    <2>3. Promise!PowerLoss BY <1>6, <1>7, <2>1, <2>2 DEF Promise!PowerLoss, PowerLoss
    <2> QED BY <2>3 DEF Promise!Next
  <1>8. CASE Reboot
    <2>1. disk' = footer /\ UNCHANGED <<content, footer>> BY <1>8 DEF Reboot
    <2>2. Accepts(disk)' = Accepts(footer) /\ Accepts(footer)' = Accepts(footer)
      BY <2>1 DEF Accepts, Opens
    <2>3. Promise!Reboot BY <1>6, <1>8, <2>1, <2>2 DEF Promise!Reboot, Reboot
    <2> QED BY <2>3 DEF Promise!Next
  <1>9. CASE EnableMakeKey
    <2>1. UNCHANGED <<content, disk, saved, encrypted>> /\ ~encrypted /\ ~Complete(footer')
      BY <1>9, MakeKeyKey
    <2>2. Accepts(footer)' = NoPassword BY <2>1 DEF Accepts, Complete
    <2>3. Promise!Begin BY <2>1, <2>2, SameDurable DEF Promise!Begin
    <2> QED BY <2>3 DEF Promise!Next
  <1>10. CASE EnableConvert \/ EnableConverted
    <2>1. /\ UNCHANGED <<footer, disk, saved, encrypted>> /\ ~encrypted /\ ~Complete(footer)
          /\ \/ content'[0] = content[0]
             \/ content'[0] # Clear /\ ~(Complete(disk) /\ content'[0] = KeyOf(disk))
      BY <1>10, ConvertKey
    <2>2. Accepts(footer) = NoPassword /\ Accepts(footer)' = NoPassword
      BY <2>1 DEF Accepts, Complete
    <2>3. CASE content'[0] = content[0] BY <1>3, <2>1, <2>2, <2>3
    <2>4. CASE content'[0] # Clear /\ ~(Complete(disk) /\ content'[0] = KeyOf(disk))
      <3>1. Accepts(disk)' = NoPassword BY <2>1, <2>4 DEF Accepts, Opens
      <3>2. Promise!Overwrite BY <2>1, <2>2, <2>4, <3>1 DEF Promise!Overwrite
      <3> QED BY <3>2 DEF Promise!Next
    <2> QED BY <2>1, <2>3, <2>4
  <1>11. CASE EnableMap \/ EnableUnmap
    <2>1. UNCHANGED <<content, footer, disk, saved, encrypted>>
      BY <1>11 DEF EnableMap, EnableUnmap, diskVars
    <2> QED BY <1>3, <2>1, SameAccepts
  <1>12. CASE EnableFinish
    <2>1. /\ footer'.key.pw = pw /\ Complete(footer') /\ KeyOf(footer') = content[0]
          /\ content[0] > 0 /\ pw \in Passwords
      BY <1>12, FinishKey
    <2>2. UNCHANGED <<content, disk, saved, encrypted>> BY <1>12 DEF EnableFinish, bootVars
    <2>3. ~Complete(footer) /\ ~encrypted BY <1>12, NothingSealed DEF EnableFinish, Writing
    <2>4. Accepts(footer) = NoPassword /\ Accepts(footer)' = pw
      BY <2>1, <2>2, <2>3 DEF Accepts, Opens, Complete
    <2>5. Promise!Seal(pw) BY <2>1, <2>2, <2>3, <2>4, SameDurable DEF Promise!Seal, Clear
    <2> QED BY <2>1, <2>5 DEF Promise!Next
  <1>13. CASE CheckMounts
    <2>1. /\ mine = footer /\ footer'.key = footer.key /\ KeyOf(footer') = KeyOf(footer)
          /\ Complete(footer) /\ Complete(footer')
      BY <1>13, CheckMountsKey
    <2>2. Opens(footer) /\ encrypted BY <1>13, <2>1, MountOpens DEF CheckMounts, Inv, States
    <2>3. UNCHANGED <<content, disk, encrypted>> /\ saved' # NoKey
      BY <1>13 DEF CheckMounts, NoKey
    <2>4. Accepts(footer) # NoPassword
      BY <1>1, <2>1, <2>2, AcceptsPassword, CryptAssumption
    <2>5. Accepts(footer)' = Accepts(footer) /\ Accepts(disk)' = Accepts(disk)
      BY <2>1, <2>3, SameAccepts, SameDurable
    <2>6. Promise!Unlock BY <2>2, <2>3, <2>4, <2>5 DEF Promise!Unlock
    <2> QED BY <2>6 DEF Promise!Next
  <1>14. CASE CheckMountFails
    <2>1. UNCHANGED <<content, disk, saved, encrypted>> BY <1>14 DEF CheckMountFails
    <2>2. Accepts(footer)' = Accepts(footer) BY <1>14, <2>1, CheckMountFailsKey, SameAccepts
    <2> QED BY <1>3, <2>1, <2>2
  <1>15. ASSUME NEW p \in Passwords, saved # NoKey, UNCHANGED <<content, disk, saved, encrypted>>,
                footer'.key.pw = p, Complete(footer'), KeyOf(footer') = content[0], content[0] > 0
         PROVE  Promise!Next
    <2>1. Accepts(footer)' = p BY <1>15 DEF Accepts, Opens, Complete
    <2>2. Promise!ChangePassword(p) BY <1>15, <2>1, SameDurable DEF Promise!ChangePassword
    <2> QED BY <2>2 DEF Promise!Next
  <1>16. CASE CheckRewrap
    <2>1. saved # NoKey BY <1>16 DEF CheckRewrap, Inv, Unlocking
    <2>2. UNCHANGED <<content, disk, saved, encrypted>> BY <1>16 DEF CheckRewrap, bootVars
    <2> QED BY <1>15, <1>16, <2>1, <2>2, CheckRewrapKey
  <1>17. ASSUME NEW p \in Passwords, CheckPasswd(p) PROVE UNCHANGED Promise!vars
    <2>1. UNCHANGED <<content, disk, saved, encrypted>> BY <1>17 DEF CheckPasswd
    <2>2. Accepts(footer)' = Accepts(footer) BY <1>17, <2>1, CheckPasswdKey, SameAccepts
    <2> QED BY <1>3, <2>1, <2>2
  <1>18. ASSUME NEW p \in Passwords, ChangePw(p) PROVE [Promise!Next]_Promise!vars
    <2>1. UNCHANGED <<content, disk, saved, encrypted>> BY <1>18 DEF ChangePw, bootVars
    <2>2. CASE UNCHANGED footer BY <1>3, <2>1, <2>2, SameAccepts
    <2>3. CASE footer' # footer BY <1>15, <1>18, <2>1, <2>3, ChangePwKey
    <2> QED BY <2>2, <2>3
  <1> QED BY <1>4, <1>5, <1>7, <1>8, <1>9, <1>10, <1>11, <1>12, <1>13, <1>14, <1>16, <1>17, <1>18,
             QuietOrLoud DEF Loud

(* What the owner may rely on: data never goes back into the clear; once    *)
(* the device has booted from encrypted data that a password opens, some    *)
(* password keeps opening it, only an unlocked device changes it, and a     *)
(* power failure undoes no more than a change of the password.              *)
THEOREM Implements ==
  ASSUME FootersWritten, "dmremove" \notin Faults
  PROVE  Spec => KeepsPromise
  <1>1. Init => Promise!Init BY PromiseInit
  <1>2. Inv /\ SealInv /\ KeyInv /\ [Next]_vars /\ Inv' => [Promise!Next]_Promise!vars
    BY PromiseNext
  <1>3. Inv /\ SealInv /\ KeyInv /\ [Next]_vars => KeyInv' BY KeyNext
  <1>4. Spec => []KeyInv BY <1>3, KeyInit, Sealed, PTL DEF Spec
  <1> QED BY <1>1, <1>2, <1>4, Sealed, PTL DEF Spec, KeepsPromise, Promise!Spec

-----------------------------------------------------------------------------
(* The errors that cryptfs_enable reports before it has written anything,   *)
(* when a failed encryption is wiped and a reboot does not return: one that *)
(* does leaves the device as it is, and the next enablecrypto takes the     *)
(* data for unencrypted and says that nothing has been done to it.          *)
Wiped == FALSE \notin WipeOnFail /\ "reboot" \notin Faults

\* error_shutting_down, and error_not_encrypted.
NothingDone ==
  \/ pc = "error_shutting_down"
  \/ progress = "shutting_down"
  \/ Idle /\ ~encrypted /\ progress = "not_encrypted"

ErrorKeepsData == NothingDone => \A q \in Part : content[q] = Clear

ConvertsOnce == pc = "convert" => content[part] = Clear

(* Before the first write, and between commands on a device that did not    *)
(* boot encrypted, all is in the clear; from then on what is still to come. *)
ClearInv ==
  /\ content[0] = Clear => \A q \in Part : content[q] = Clear
  /\ pc \in Preparing \cup {"error_shutting_down"} => content[0] = Clear
  /\ Idle /\ ~encrypted => content[0] = Clear
  /\ progress # "shutting_down"
  /\ pc = "convert" => part = 0 \/ content[0] # Clear
  /\ pc = "converting" => content[0] # Clear
  /\ pc = "convert" => \A q \in Part : q >= part => content[q] = Clear
  /\ pc = "converting" => \A q \in Part : q > part => content[q] = Clear

\* A step that writes to no partition, and the other steps.
Still ==
  /\ UNCHANGED <<content, encrypted>>
  /\ pc' \in {"convert", "converting"} => UNCHANGED <<pc, part>>
  /\ pc' \in Preparing \cup {"error_shutting_down", "idle"} =>
       pc \in Preparing \cup {"error_shutting_down", "idle", "check", "rewrap", "restart"}
  /\ progress' # "shutting_down" \/ UNCHANGED progress
Moves == PowerLoss \/ Reboot \/ EnableMap \/ EnableConvert \/ EnableConverted

\* One case for each action that is none of those.
LEMMA StillOrMoves == Wiped /\ [Next]_vars => Still \/ Moves
  <1> SUFFICES ASSUME Wiped, [Next]_vars, ~Moves PROVE Still OBVIOUS
  <1> USE DEF Still, Preparing, diskVars, bootVars, otherVars, cmdVars, Idle, Goto, Return
  <1>1. ASSUME WriteBack PROVE Still BY <1>1 DEF WriteBack
  <1>2. ASSUME NEW h \in {"wipe", "inplace"}, NEW p \in Passwords, EnableStart(h, p) PROVE Still
    BY <1>2 DEF EnableStart
  <1>3. ASSUME EnableDisable PROVE Still BY <1>3 DEF EnableDisable
  <1>4. ASSUME EnableDisableFails PROVE Still BY <1>4 DEF EnableDisableFails, NotEncrypted
  <1>5. ASSUME EnableShutdown PROVE Still BY <1>5 DEF EnableShutdown
  <1>6. ASSUME EnableMinFramework PROVE Still BY <1>6 DEF EnableMinFramework
  <1>7. ASSUME EnableMakeKey PROVE Still BY <1>7 DEF EnableMakeKey
  <1>8. ASSUME EnableKeyFails PROVE Still BY <1>8 DEF EnableKeyFails, NotEncrypted
  <1>9. ASSUME EnableUnmap PROVE Still BY <1>9 DEF EnableUnmap
  <1>10. ASSUME EnableWipesData PROVE Still
    <2>1. pc' = "recovery" /\ UNCHANGED <<content, encrypted, progress>>
      BY Zenon, <1>10 DEF EnableWipesData
    <2> QED BY <2>1
  <1>11. ~EnableFails BY Zenon DEF EnableFails, Wiped
  <1>12. ~RecoveryFails /\ ~RebootFails BY Zenon DEF RecoveryFails, RebootFails, MayFail, Wiped
  <1>13. ASSUME EnableFinish PROVE Still BY <1>13 DEF EnableFinish
  <1>14. ASSUME CryptoComplete PROVE Still BY <1>14 DEF CryptoComplete
  <1>15. ASSUME NEW p \in Passwords, CheckPasswd(p) PROVE Still BY <1>15 DEF CheckPasswd
  <1>16. ASSUME CheckMounts PROVE Still BY <1>16 DEF CheckMounts
  <1>17. ASSUME CheckMountFails PROVE Still BY <1>17 DEF CheckMountFails
  <1>18. ASSUME CheckRewrap PROVE Still BY <1>18 DEF CheckRewrap
  <1>19. ASSUME NEW p \in Passwords, VerifyPasswd(p) PROVE Still BY <1>19 DEF VerifyPasswd
  <1>20. ASSUME NEW p \in Passwords, ChangePw(p) PROVE Still BY <1>20 DEF ChangePw
  <1>21. ASSUME RestartStop PROVE Still BY <1>21 DEF RestartStop
  <1>22. ASSUME RestartUnmountFails PROVE Still BY <1>22 DEF RestartUnmountFails
  <1>23. ASSUME RestartMount PROVE Still BY <1>23 DEF RestartMount
  <1>24. ASSUME NEW v \in 1..NumVolumes, MountVolume(v) PROVE Still BY <1>24 DEF MountVolume
  <1>25. ASSUME NEW v \in 1..NumVolumes, NEW revert \in BOOLEAN, UnmountVolume(v, revert) PROVE Still
    BY <1>25 DEF UnmountVolume
  <1>26. ASSUME GetField PROVE Still BY <1>26 DEF GetField
  <1>27. ASSUME SetField PROVE Still BY <1>27 DEF SetField
  <1>28. CASE UNCHANGED vars BY <1>28 DEF vars
  <1> HIDE DEF Still
  <1> QED BY <1>1, <1>2, <1>3, <1>4, <1>5, <1>6, <1>7, <1>8, <1>9, <1>10, <1>11, <1>12, <1>13,
     <1>14, <1>15, <1>16, <1>17, <1>18, <1>19, <1>20, <1>21, <1>22, <1>23, <1>24, <1>25, <1>26,
     <1>27, <1>28 DEF Next, Moves

LEMMA ClearInit == Init => ClearInv
  <1> SUFFICES ASSUME Init PROVE ClearInv OBVIOUS
  <1>1. PICK device \in Devices, p \in Passwords :
          /\ content = [q \in Part |-> IF device = "clear" THEN Clear ELSE 1]
          /\ encrypted = (device = "legacy")
    BY Zenon DEF Init
  <1>2. pc = "idle" /\ progress = "none" /\ 0 \in Part BY CryptAssumption DEF Init, Part
  <1>3. encrypted \/ device # "legacy" BY Zenon, <1>1
  <1>4. device \in {"clear", "legacy"} BY <1>1, CryptAssumption
  <1>5. CASE device = "clear"
    <2>1. \A q \in Part : content[q] = Clear BY <1>1, <1>5
    <2> QED BY <1>2, <2>1 DEF ClearInv
  <1>6. CASE device = "legacy"
    <2>1. content[0] # Clear BY <1>1, <1>2, <1>6 DEF Clear
    <2> QED BY <1>2, <1>3, <1>6, <2>1 DEF ClearInv, Preparing, Idle
  <1> QED BY <1>4, <1>5, <1>6

\* A device that boots takes its data for what it is.
LEMMA BootClear ==
  ASSUME ClearInv, Boot, UNCHANGED content
  PROVE  ClearInv'
  <1>1. pc' = "idle" /\ progress' = "none" BY DEF Boot, Return
  <1>2. encrypted' \/ content[0] = Clear BY Zenon DEF Boot
  <1> QED BY <1>1, <1>2 DEF ClearInv, Preparing, Idle

\* Where the loop goes, when all after the partition it was at is clear.
LEMMA AfterClear ==
  ASSUME Inv, ClearInv, pc \in {"convert", "converting"}, NEW r \in Int, After(r),
         UNCHANGED progress,
         content'[0] # Clear \/ (content' = content /\ part = 0 /\ r # 0),
         \A q \in Part : q > part => content'[q] = Clear
  PROVE  ClearInv'
  <1>1. part \in Part /\ part \in Int BY CryptAssumption DEF Inv, WhileWriting, Part
  <1>2. content'[0] = Clear => \A q \in Part : content'[q] = Clear BY DEF ClearInv
  <1>3. progress' # "shutting_down" BY DEF ClearInv
  <1>4. \/ pc' = "unmap"
        \/ pc' = "convert" /\ part' = part + 1 /\ ~(part = 0 /\ r # 0)
    BY DEF After, Goto
  <1>5. CASE pc' = "unmap" BY <1>2, <1>3, <1>5 DEF ClearInv, Preparing, Idle
  <1>6. CASE pc' = "convert" /\ part' = part + 1 /\ ~(part = 0 /\ r # 0)
    <2>1. \A q \in Part : q >= part' => q > part BY <1>1, <1>6 DEF Part
    <2>2. content'[0] # Clear BY <1>6
    <2> QED BY <1>2, <1>3, <1>6, <2>1, <2>2 DEF ClearInv, Preparing, Idle
  <1> QED BY <1>4, <1>5, <1>6

\* A partition is written: neither it nor userdata is in the clear any more.
LEMMA WriteClear ==
  ASSUME Inv, ClearInv, pc \in {"convert", "converting"}, NEW c \in Int, c # Clear,
         content' = [content EXCEPT ![part] = c]
  PROVE  /\ content'[0] # Clear
         /\ \A q \in Part : q > part => content'[q] = Clear
  <1>1. /\ part \in Part /\ 0 \in Part /\ \A q \in Part : q \in Int
        /\ DOMAIN content = Part
    BY CryptAssumption DEF Inv, TypeOK, WhileWriting, Part
  <1>2. content'[part] # Clear /\ \A q \in Part \ {part} : content'[q] = content[q] BY <1>1
  <1>3. part = 0 \/ content[0] # Clear BY DEF ClearInv
  <1>4. \A q \in Part : q > part => content[q] = Clear BY <1>1 DEF ClearInv
  <1> QED BY <1>1, <1>2, <1>3, <1>4

LEMMA ConvertClear ==
  ASSUME Inv, ClearInv, EnableConvert
  PROVE  ClearInv'
  <1>1. pc = "convert" /\ UNCHANGED progress /\ part \in Part /\ \A q \in Part : q \in Int
    BY DEF EnableConvert, Inv, WhileWriting, Part, otherVars
  <1>2. CASE dm[part] > 0 /\ content' = [content EXCEPT ![part] = -dm[part]]
             /\ Goto("converting") /\ UNCHANGED part
    <2>1. -dm[part] \in Int /\ -dm[part] # Clear
      BY <1>1, <1>2 DEF Inv, TypeOK, Clear, NoTable, NoMap, NoKey, Key
    <2>2. content'[0] # Clear /\ \A q \in Part : q > part => content'[q] = Clear
      BY <1>1, <1>2, <2>1, WriteClear
    <2>3. progress' # "shutting_down" BY <1>1 DEF ClearInv
    <2> QED BY <1>2, <2>2, <2>3 DEF ClearInv, Preparing, Idle, Goto
  <1>3. CASE After(-1) /\ UNCHANGED content
    <2>1. content'[0] # Clear \/ (content' = content /\ part = 0 /\ -1 # 0)
      BY <1>1, <1>3 DEF ClearInv
    <2>2. \A q \in Part : q > part => content'[q] = Clear BY <1>1, <1>3 DEF ClearInv
    <2> QED BY <1>1, <1>3, <2>1, <2>2, AfterClear
  <1> QED BY <1>2, <1>3 DEF EnableConvert

LEMMA ConvertedClear ==
  ASSUME Inv, ClearInv, EnableConverted
  PROVE  ClearInv'
  <1>1. pc = "converting" /\ UNCHANGED progress BY DEF EnableConverted, otherVars
  <1>2. CASE content' = [content EXCEPT ![part] = dm[part]] /\ After(0)
    <2>1. dm[part] \in Int /\ dm[part] # Clear BY <1>1 DEF Inv, WhileWriting, Key, Clear
    <2>2. content'[0] # Clear /\ \A q \in Part : q > part => content'[q] = Clear
      BY <1>1, <1>2, <2>1, WriteClear
    <2> QED BY <1>1, <1>2, <2>2, AfterClear
  <1>3. CASE After(-1) /\ UNCHANGED content
    <2>1. content'[0] # Clear /\ \A q \in Part : q > part => content'[q] = Clear
      BY <1>1, <1>3 DEF ClearInv
    <2> QED BY <1>1, <1>3, <2>1, AfterClear
  <1> QED BY <1>2, <1>3 DEF EnableConverted

LEMMA ClearNext ==
  ASSUME Wiped, Inv, Inv', ClearInv, [Next]_vars
  PROVE  ClearInv'
  <1>1. CASE Still
    <2>1. content' = content /\ encrypted' = encrypted BY <1>1 DEF Still
    <2>2. pc' \in {"convert", "converting"} => UNCHANGED <<pc, part>> BY <1>1 DEF Still
    <2>3. pc' \in Preparing \cup {"error_shutting_down"} \/ (pc' = "idle" /\ ~encrypted')
            => content[0] = Clear
      BY <1>1, <2>1 DEF Still, Inv, States, ClearInv, Preparing, Ending, Idle
    <2>4. progress' # "shutting_down" BY <1>1 DEF Still, ClearInv
    <2> QED BY <2>1, <2>2, <2>3, <2>4 DEF ClearInv, Idle
  <1>2. CASE PowerLoss BY <1>2, BootClear DEF PowerLoss
  <1>3. CASE Reboot BY <1>3, BootClear DEF Reboot
  <1>4. CASE EnableMap
    <2>1. pc = "map" /\ pc' = "convert" /\ part' = 0 /\ UNCHANGED <<content, progress>>
      BY <1>4 DEF EnableMap, Goto, diskVars, otherVars
    <2>2. \A q \in Part : content[q] = Clear BY <2>1 DEF ClearInv, Preparing
    <2> QED BY <2>1, <2>2 DEF ClearInv, Preparing, Idle
  <1>5. CASE EnableConvert BY <1>5, ConvertClear
  <1>6. CASE EnableConverted BY <1>6, ConvertedClear
  <1> QED BY <1>1, <1>2, <1>3, <1>4, <1>5, <1>6, StillOrMoves DEF Moves

LEMMA Cleared == Wiped => (Spec => []ClearInv)
  <1>1. Wiped /\ Inv /\ Inv' /\ ClearInv /\ [Next]_vars => ClearInv' BY ClearNext
  <1> SUFFICES ASSUME Wiped PROVE Spec => []ClearInv OBVIOUS
  <1>2. Inv /\ Inv' /\ ClearInv /\ [Next]_vars => ClearInv' BY <1>1
  <1> QED BY <1>2, ClearInit, Invariance, PTL DEF Spec

(* error_not_encrypted and error_shutting_down are reported only while all  *)
(* partitions are in the clear, wherever calls other than the reboot fail.  *)
THEOREM ErrorsKeepData ==
  ASSUME Wiped
  PROVE  Spec => []ErrorKeepsData
  <1>1. ClearInv => ErrorKeepsData BY DEF ClearInv, ErrorKeepsData, NothingDone
  <1>2. Spec => []ClearInv BY Cleared
  <1> QED BY <1>1, <1>2, PTL

(* No partition is encrypted over one that was encrypted before.            *)
THEOREM EncryptsOnce ==
  ASSUME Wiped
  PROVE  Spec => []ConvertsOnce
  <1>1. Inv /\ ClearInv => ConvertsOnce
    <2>1. Inv /\ pc = "convert" => part \in Part /\ part >= part BY DEF Inv, WhileWriting, Part
    <2> QED BY <2>1 DEF ClearInv, ConvertsOnce
  <1>2. Spec => []ClearInv BY Cleared
  <1> QED BY <1>1, <1>2, Invariance, PTL
=============================================================================
