----------------------------- MODULE FileProofs -----------------------------
(***************************************************************************)
(* What the index of the file store says of the directory is true, for any *)
(* identifiers, users, sizes and expiry periods.  The CFM library          *)
(* implements the server's file store, so what is proved of the store      *)
(* holds of the library; and the size the library tells is the size of the *)
(* file cfm_load will copy, unless somebody writes to it.                  *)
(***************************************************************************)
EXTENDS CFMLibrary, TLAPS

-----------------------------------------------------------------------------
(* The server's file store.                                                *)

(* The two properties need no strengthening but the types: every step that *)
(* writes a complete file writes its entry too, every step that removes a  *)
(* file removes its entry too, and a torn file is not complete.            *)
CfmInv == CfmTypeOK /\ EntriesHaveFiles /\ FileMatchesEntry

-----------------------------------------------------------------------------

LEMMA CfmInit_Inv == CfmInit => CfmInv
BY CfmAssumption
   DEF CfmInit, CfmInv, CfmTypeOK, EntriesHaveFiles, FileMatchesEntry, Indexed, OnDisk

(* What Save puts in the index and on disk has the types of the fields.    *)
LEMMA SavedTypes ==
  ASSUME now \in 0 .. LastSave, NEW user \in Uploaders, NEW expiry \in Expiries,
         NEW public \in BOOLEAN, NEW whole \in BOOLEAN
  PROVE  SavedEntry(user, public, expiry) \in Entry /\ Content(user, public, whole) \in File
<1>1. now + expiry \in Deadlines
  BY DEF Deadlines
<1> QED
  BY <1>1 DEF SavedEntry, Entry, Content, File

LEMMA SaveDonePreserves ==
  ASSUME CfmInv, now <= LastSave, NEW id \in CfmIds, NEW user \in Uploaders,
         NEW expiry \in Expiries, NEW public \in BOOLEAN,
         SaveDone(id, user, public, expiry)
  PROVE  CfmInv'
<1> DEFINE entry == SavedEntry(user, public, expiry)
           file  == Content(user, public, TRUE)
<1>0. now \in 0 .. LastSave
  BY CfmAssumption DEF CfmInv, CfmTypeOK
<1>1. entry \in Entry /\ file \in File
  BY <1>0, SavedTypes
<1>2. file = Content(entry.uploader, entry.public, TRUE)
  BY DEF SavedEntry
<1> HIDE DEF entry, file
<1>3. /\ cfms' = With(cfms, id, entry) /\ disk' = With(disk, id, file)
      /\ now' = now
  BY DEF SaveDone, entry, file
<1>4. Indexed' = Indexed \union {id} /\ OnDisk' = OnDisk \union {id}
  BY <1>3 DEF With, Indexed, OnDisk
<1>5. /\ cfms'[id] = entry /\ disk'[id] = file
      /\ \A x \in Indexed : x # id => cfms'[x] = cfms[x]
      /\ \A x \in OnDisk : x # id => disk'[x] = disk[x]
  BY <1>3 DEF With, Indexed, OnDisk
<1>6. CfmTypeOK'
  BY <1>1, <1>3, <1>4 DEF CfmInv, CfmTypeOK, With, Indexed, OnDisk
<1>7. EntriesHaveFiles'
  BY <1>4 DEF CfmInv, EntriesHaveFiles
<1>8. FileMatchesEntry'
  BY <1>2, <1>4, <1>5 DEF CfmInv, FileMatchesEntry
<1> QED
  BY <1>6, <1>7, <1>8 DEF CfmInv

LEMMA SaveTornPreserves ==
  ASSUME CfmInv, now <= LastSave, NEW id \in CfmIds, NEW user \in Uploaders,
         NEW public \in BOOLEAN, SaveTorn(id, user, public)
  PROVE  CfmInv'
<1> DEFINE file == Content(user, public, FALSE)
<1>1. file \in File /\ ~file.whole
  BY DEF Content, File
<1> HIDE DEF file
<1>2. cfms' = cfms /\ now' = now /\ disk' = With(disk, id, file)
  BY DEF SaveTorn, file
<1>3. Indexed' = Indexed /\ OnDisk' = OnDisk \union {id}
  BY <1>2 DEF With, Indexed, OnDisk
<1>4. disk'[id] = file /\ \A x \in OnDisk : x # id => disk'[x] = disk[x]
  BY <1>2 DEF With, OnDisk
<1>5. CfmTypeOK'
  BY <1>1, <1>2, <1>3 DEF CfmInv, CfmTypeOK, With, Indexed, OnDisk
<1>6. EntriesHaveFiles'
  BY <1>3 DEF CfmInv, EntriesHaveFiles
<1>7. FileMatchesEntry'
  BY <1>1, <1>2, <1>3, <1>4 DEF CfmInv, FileMatchesEntry
<1> QED
  BY <1>5, <1>6, <1>7 DEF CfmInv

(* Load and Cleanup remove expired entries together with their files.      *)
LEMMA RemovalPreserves ==
  ASSUME CfmInv, NEW ids \in SUBSET Indexed,
         cfms' = Without(cfms, ids), disk' = Without(disk, ids), now' = now
  PROVE  CfmInv'
<1>1. Indexed' = Indexed \ ids /\ OnDisk' = OnDisk \ ids
  BY DEF Without, Indexed, OnDisk
<1>2. /\ \A x \in Indexed' : cfms'[x] = cfms[x]
      /\ \A x \in OnDisk' : disk'[x] = disk[x]
  BY DEF Without, Indexed, OnDisk
<1>3. CfmTypeOK'
  BY <1>1 DEF CfmInv, CfmTypeOK, Without, Indexed, OnDisk
<1>4. EntriesHaveFiles'
  BY <1>1 DEF CfmInv, EntriesHaveFiles
<1>5. FileMatchesEntry'
  <2>1. ASSUME NEW x \in Indexed' \intersect OnDisk'
        PROVE  /\ x \in Indexed \intersect OnDisk
               /\ cfms'[x] = cfms[x] /\ disk'[x] = disk[x]
    BY <1>1, <1>2
  <2> QED
    BY <2>1 DEF CfmInv, FileMatchesEntry
<1> QED
  BY <1>3, <1>4, <1>5 DEF CfmInv

LEMMA CfmStep == CfmInv /\ [CfmNext]_cfmVars => CfmInv'
<1> SUFFICES ASSUME CfmInv, [CfmNext]_cfmVars
             PROVE  CfmInv'
  OBVIOUS
<1>1. CASE Upload
  BY <1>1, SaveDonePreserves DEF Upload
<1>2. CASE TornUpload
  BY <1>2, SaveTornPreserves DEF TornUpload
<1>3. ASSUME NEW id \in CfmIds, LoadExpired(id)
      PROVE  CfmInv'
  BY <1>3, RemovalPreserves DEF LoadExpired
<1>4. CASE CfmCleanup
  BY <1>4, RemovalPreserves DEF CfmCleanup
<1>5. CASE Restart
  <2>1. Indexed' = {} /\ OnDisk' = OnDisk
    BY <1>5 DEF Restart, Indexed, OnDisk
  <2>2. cfms' \in [Indexed' -> Entry]
    BY <1>5, <2>1 DEF Restart
  <2>3. CfmTypeOK'
    BY <1>5, <2>1, <2>2 DEF Restart, CfmInv, CfmTypeOK
  <2> QED
    BY <2>1, <2>3 DEF CfmInv, EntriesHaveFiles, FileMatchesEntry
<1>6. CASE now < MaxNow /\ CfmTick
  <2>1. cfms' = cfms /\ disk' = disk /\ Indexed' = Indexed /\ OnDisk' = OnDisk
    BY <1>6 DEF CfmTick, Indexed, OnDisk
  <2>2. now' \in 0 .. MaxNow
    BY <1>6, CfmAssumption DEF CfmTick, CfmInv, CfmTypeOK
  <2>3. CfmTypeOK'
    BY <2>1, <2>2 DEF CfmInv, CfmTypeOK
  <2> QED
    BY <2>1, <2>3 DEF CfmInv, EntriesHaveFiles, FileMatchesEntry
<1>7. CASE UNCHANGED cfmVars
  BY <1>7 DEF cfmVars, CfmInv, CfmTypeOK, EntriesHaveFiles, FileMatchesEntry,
              Indexed, OnDisk
<1> QED
  BY <1>1, <1>2, <1>3, <1>4, <1>5, <1>6, <1>7 DEF CfmNext

LEMMA CfmAlways == CfmSpec => []CfmInv
BY CfmInit_Inv, CfmStep, PTL DEF CfmSpec

(* CFMStore's index and directory have the types of the Go fields, and     *)
(* every entry of the index has its file: Save, Load and Cleanup never     *)
(* leave an entry dangling, whatever is torn, expires or is restarted.     *)
THEOREM EntriesNeverDangle == CfmSpec => [](CfmTypeOK /\ EntriesHaveFiles)
<1>1. CfmInv => CfmTypeOK /\ EntriesHaveFiles
  BY DEF CfmInv
<1> QED
  BY <1>1, CfmAlways, PTL

(* What CFMStore.Load checks is right for the data it returns: a complete  *)
(* file is under its own uploader and its own visibility.                  *)
THEOREM FilesMatchEntries == CfmSpec => []FileMatchesEntry
<1>1. CfmInv => FileMatchesEntry
  BY DEF CfmInv
<1> QED
  BY <1>1, CfmAlways, PTL

-----------------------------------------------------------------------------
(* The library.                                                            *)

(* The recorded size of a complete file is its length.                     *)
SizesRight == \A id \in Indexed : disk[id].whole => sizes[id] = lengths[id]

(* While nobody wrote to it, the file the reader asked for is complete and *)
(* fits in the buffer -- as long as it has an entry: cfm_init and expiry   *)
(* take the entry away, and only a save, which disturbs, brings it back.   *)
BufferRight ==
    reader.got = "nothing" /\ ~reader.disturbed /\ reader.id \in Indexed
        => disk[reader.id].whole /\ reader.room = sizes[reader.id]

LibraryInv ==
    CfmInv /\ LibraryTypeOK /\ SizesRight /\ BufferRight /\ CutOnlyWhenOvertaken

-----------------------------------------------------------------------------

LEMMA LibraryInit_Inv == LibraryInit => LibraryInv
<1> SUFFICES ASSUME LibraryInit PROVE LibraryInv
  OBVIOUS
<1>1. CfmInv
  BY CfmInit_Inv DEF LibraryInit
<1>2. Indexed = {} /\ OnDisk = {}
  BY DEF LibraryInit, CfmInit, Indexed, OnDisk
<1> QED
  BY <1>1, <1>2 DEF LibraryInit, LibraryInv, LibraryTypeOK, CfmInv, Reader, Idle,
     SizesRight, BufferRight, CutOnlyWhenOvertaken

(* Whoever writes to a file disturbs the reader that asked for it.         *)
LEMMA OvertakeFacts ==
  ASSUME reader \in Reader, NEW id, Overtake(id)
  PROVE  /\ reader' \in Reader
         /\ reader'.id = reader.id /\ reader'.room = reader.room /\ reader'.got = reader.got
         /\ reader'.disturbed = (reader.disturbed \/ reader.id = id)
BY DEF Overtake, Reader

(* A complete save records the length it writes.                           *)
LEMMA SaveKeeps ==
  ASSUME LibraryInv, now <= LastSave, NEW id \in CfmIds, NEW user \in Uploaders,
         NEW public \in BOOLEAN, NEW expiry \in Expiries, NEW size \in Sizes,
         Save(id, user, public, expiry, size)
  PROVE  LibraryInv'
<1>1. CfmInv'
  BY SaveDonePreserves DEF LibraryInv, Save
<1>2. /\ cfms' = With(cfms, id, SavedEntry(user, public, expiry))
      /\ disk' = With(disk, id, Content(user, public, TRUE))
      /\ sizes' = With(sizes, id, size) /\ lengths' = With(lengths, id, size)
      /\ opened' = opened
  BY DEF Save, SaveDone
<1>3. /\ Indexed' = Indexed \union {id} /\ OnDisk' = OnDisk \union {id}
      /\ \A x \in OnDisk : x # id => disk'[x] = disk[x]
  BY <1>2 DEF With, Indexed, OnDisk
<1>4. size \in Nat
  BY CfmAssumption
<1>5. /\ sizes' \in [Indexed' -> Nat] /\ lengths' \in [OnDisk' -> Nat]
      /\ sizes'[id] = size /\ lengths'[id] = size
      /\ \A x \in Indexed : x # id => sizes'[x] = sizes[x]
      /\ \A x \in OnDisk : x # id => lengths'[x] = lengths[x]
  BY <1>2, <1>3, <1>4 DEF With, LibraryInv, LibraryTypeOK, Indexed, OnDisk
<1>6. /\ reader' \in Reader
      /\ reader'.id = reader.id /\ reader'.room = reader.room /\ reader'.got = reader.got
      /\ reader'.disturbed = (reader.disturbed \/ reader.id = id)
  BY OvertakeFacts DEF LibraryInv, LibraryTypeOK, Save
<1>7. LibraryTypeOK'
  <2>1. opened' \in BOOLEAN /\ CfmTypeOK'
    BY <1>1, <1>2 DEF LibraryInv, LibraryTypeOK, CfmInv
  <2> QED
    BY <1>5, <1>6, <2>1 DEF LibraryTypeOK
<1>8. Indexed \subseteq OnDisk
  BY DEF LibraryInv, CfmInv, EntriesHaveFiles
<1>9. SizesRight'
  BY <1>3, <1>5, <1>8 DEF LibraryInv, SizesRight
<1>10. BufferRight'
  <2> SUFFICES ASSUME reader'.got = "nothing", ~reader'.disturbed, reader'.id \in Indexed'
               PROVE  disk'[reader'.id].whole /\ reader'.room = sizes'[reader'.id]
    BY DEF BufferRight
  <2>1. ~reader.disturbed /\ reader.id # id /\ reader.id \in Indexed
    BY <1>3, <1>6
  <2>2. disk[reader.id].whole /\ reader.room = sizes[reader.id]
    BY <1>6, <2>1 DEF LibraryInv, BufferRight
  <2> QED
    BY <1>3, <1>5, <1>6, <1>8, <2>1, <2>2
<1>11. CutOnlyWhenOvertaken'
  BY <1>6 DEF LibraryInv, CutOnlyWhenOvertaken
<1> QED
  BY <1>1, <1>7, <1>9, <1>10, <1>11 DEF LibraryInv

(* A failed save leaves a file that is not complete.                       *)
LEMMA SaveFailsKeeps ==
  ASSUME LibraryInv, now <= LastSave, NEW id \in CfmIds, NEW user \in Uploaders,
         NEW public \in BOOLEAN, NEW size \in Sizes, SaveFails(id, user, public, size)
  PROVE  LibraryInv'
<1>1. CfmInv'
  BY SaveTornPreserves DEF LibraryInv, SaveFails
<1>2. PICK part \in 0 .. size - 1 : lengths' = With(lengths, id, part)
  BY DEF SaveFails
<1>3. part \in Nat
  BY <1>2, CfmAssumption
<1>4. /\ cfms' = cfms /\ sizes' = sizes /\ opened' = opened
      /\ disk' = With(disk, id, Content(user, public, FALSE))
  BY DEF SaveFails, SaveTorn
<1>5. /\ Indexed' = Indexed /\ OnDisk' = OnDisk \union {id}
      /\ \A x \in OnDisk : x # id => disk'[x] = disk[x]
      /\ ~disk'[id].whole
  BY <1>4 DEF With, Indexed, OnDisk, Content
<1>6. /\ lengths' \in [OnDisk' -> Nat]
      /\ \A x \in OnDisk : x # id => lengths'[x] = lengths[x]
  BY <1>2, <1>3, <1>5 DEF With, LibraryInv, LibraryTypeOK, Indexed, OnDisk
<1>7. /\ reader' \in Reader
      /\ reader'.id = reader.id /\ reader'.room = reader.room /\ reader'.got = reader.got
      /\ reader'.disturbed = (reader.disturbed \/ reader.id = id)
  BY OvertakeFacts DEF LibraryInv, LibraryTypeOK, SaveFails
<1>8. LibraryTypeOK'
  BY <1>1, <1>4, <1>5, <1>6, <1>7 DEF LibraryInv, LibraryTypeOK, CfmInv
<1>9. Indexed \subseteq OnDisk
  BY DEF LibraryInv, CfmInv, EntriesHaveFiles
<1>10. SizesRight'
  BY <1>4, <1>5, <1>6, <1>9 DEF LibraryInv, SizesRight
<1>11. BufferRight'
  BY <1>4, <1>5, <1>7, <1>9 DEF LibraryInv, BufferRight
<1>12. CutOnlyWhenOvertaken'
  BY <1>7 DEF LibraryInv, CutOnlyWhenOvertaken
<1> QED
  BY <1>1, <1>8, <1>10, <1>11, <1>12 DEF LibraryInv

(* An expired file goes with its entry, its size and its length.           *)
LEMMA DropKeeps ==
  ASSUME LibraryInv, NEW ids \in SUBSET Indexed, Drop(ids), now' = now,
         cfms' = Without(cfms, ids), disk' = Without(disk, ids),
         reader' = reader \/ reader' = Idle
  PROVE  LibraryInv'
<1>1. CfmInv'
  BY RemovalPreserves DEF LibraryInv
<1>2. /\ Indexed' = Indexed \ ids /\ OnDisk' = OnDisk \ ids
      /\ \A x \in OnDisk' : disk'[x] = disk[x]
  BY DEF Without, Indexed, OnDisk
<1>3. /\ sizes' \in [Indexed' -> Nat] /\ lengths' \in [OnDisk' -> Nat]
      /\ \A x \in Indexed' : sizes'[x] = sizes[x]
      /\ \A x \in OnDisk' : lengths'[x] = lengths[x]
  BY <1>2 DEF Without, Drop, LibraryInv, LibraryTypeOK
<1>4. Indexed' \subseteq OnDisk'
  BY <1>1 DEF CfmInv, EntriesHaveFiles
<1>5. LibraryTypeOK'
  <2>0. Idle \in Reader
    BY DEF Idle, Reader
  <2>1. reader' \in Reader
    BY <2>0 DEF LibraryInv, LibraryTypeOK
  <2>2. opened' \in BOOLEAN /\ CfmTypeOK'
    BY <1>1 DEF LibraryInv, LibraryTypeOK, CfmInv, Drop
  <2> QED
    BY <1>3, <2>1, <2>2 DEF LibraryTypeOK
<1>6. SizesRight'
  BY <1>2, <1>3, <1>4 DEF LibraryInv, SizesRight
<1>7. CASE reader' = reader
  <2>1. BufferRight' /\ CutOnlyWhenOvertaken'
    BY <1>2, <1>3, <1>4, <1>7 DEF LibraryInv, BufferRight, CutOnlyWhenOvertaken
  <2> QED
    BY <1>1, <1>5, <1>6, <2>1 DEF LibraryInv
<1>8. CASE reader' = Idle
  <2>1. Indexed' \subseteq CfmIds
    BY <1>1 DEF CfmInv, CfmTypeOK
  <2>2. BufferRight' /\ CutOnlyWhenOvertaken'
    BY <1>8, <2>1, LibraryAssumption DEF Idle, BufferRight, CutOnlyWhenOvertaken
  <2> QED
    BY <1>1, <1>5, <1>6, <2>2 DEF LibraryInv
<1> QED
  BY <1>7, <1>8

(* Steps of the reader alone.                                              *)
LEMMA ReaderKeeps ==
  ASSUME LibraryInv, UNCHANGED <<cfms, disk, now, opened, sizes, lengths>>,
         reader' \in Reader, BufferRight', CutOnlyWhenOvertaken'
  PROVE  LibraryInv'
BY DEF LibraryInv, LibraryTypeOK, CfmInv, CfmTypeOK, EntriesHaveFiles, FileMatchesEntry,
       SizesRight, Indexed, OnDisk

LEMMA AskSizeKeeps ==
  ASSUME LibraryInv, NEW id \in CfmIds, AskSize(id)
  PROVE  LibraryInv'
<1>1. id \in Indexed /\ id \in OnDisk
  BY DEF AskSize, LibraryInv, CfmInv, EntriesHaveFiles
<1>2. /\ sizes[id] \in Nat /\ disk[id].whole \in BOOLEAN
      /\ UNCHANGED <<cfms, disk, now, opened, sizes, lengths>>
  BY <1>1 DEF LibraryInv, LibraryTypeOK, CfmInv, CfmTypeOK, File, AskSize
<1>3. reader' = [id |-> id, room |-> sizes[id], got |-> "nothing",
                 disturbed |-> ~disk[id].whole]
  BY <1>1 DEF AskSize
<1>4. reader' \in Reader /\ BufferRight' /\ CutOnlyWhenOvertaken'
  BY <1>2, <1>3 DEF Reader, BufferRight, CutOnlyWhenOvertaken
<1> QED
  BY <1>2, <1>4, ReaderKeeps

(* The load of an undisturbed file copies all of it.                       *)
LEMMA LoadIntoKeeps ==
  ASSUME LibraryInv, NEW id \in CfmIds, NEW user, LoadInto(id, user)
  PROVE  LibraryInv'
<1>1. id \in Indexed /\ id \in OnDisk /\ reader.id = id /\ reader.got = "nothing"
  BY DEF LoadInto, Loaded
<1>2. /\ sizes[id] \in Nat /\ lengths[id] \in Nat /\ reader \in Reader
      /\ UNCHANGED <<cfms, disk, now, opened, sizes, lengths>>
  BY <1>1 DEF LibraryInv, LibraryTypeOK, LoadInto
<1>3. ~reader.disturbed => reader.room = lengths[id]
  BY <1>1 DEF LibraryInv, BufferRight, SizesRight
<1>4. reader' = [reader EXCEPT !.got = IF lengths[id] > reader.room THEN "cut" ELSE "whole"]
  BY DEF LoadInto
<1>5. reader' \in Reader /\ reader'.got # "nothing" /\ reader'.disturbed = reader.disturbed
  BY <1>2, <1>4 DEF Reader
<1>6. reader'.got = "cut" => lengths[id] > reader.room
  BY <1>2, <1>4 DEF Reader
<1>7. CutOnlyWhenOvertaken'
  BY <1>2, <1>3, <1>5, <1>6 DEF CutOnlyWhenOvertaken, Reader
<1>8. BufferRight'
  BY <1>5 DEF BufferRight
<1> QED
  BY <1>2, <1>5, <1>7, <1>8, ReaderKeeps

LEMMA BackToIdle ==
  ASSUME LibraryInv, reader' = Idle, UNCHANGED <<cfms, disk, now, opened, sizes, lengths>>
  PROVE  LibraryInv'
<1>1. Indexed' \subseteq CfmIds
  BY DEF LibraryInv, CfmInv, CfmTypeOK, Indexed
<1>2. reader' \in Reader /\ BufferRight' /\ CutOnlyWhenOvertaken'
  BY <1>1, LibraryAssumption DEF Reader, Idle, BufferRight, CutOnlyWhenOvertaken
<1> QED
  BY <1>2, ReaderKeeps

LEMMA OpenKeeps == LibraryInv /\ Open => LibraryInv'
<1> SUFFICES ASSUME LibraryInv, Open PROVE LibraryInv'
  OBVIOUS
<1>1. CfmInv'
  BY CfmStep DEF LibraryInv, Open, CfmNext
<1>2. Indexed' = {} /\ OnDisk' = OnDisk
  BY DEF Open, Restart, Indexed, OnDisk
<1> QED
  BY <1>1, <1>2 DEF LibraryInv, LibraryTypeOK, CfmInv, Open, SizesRight, BufferRight,
     CutOnlyWhenOvertaken

LEMMA LibraryTickKeeps == LibraryInv /\ LibraryTick => LibraryInv'
<1> SUFFICES ASSUME LibraryInv, LibraryTick PROVE LibraryInv'
  OBVIOUS
<1>1. CfmInv'
  BY CfmStep DEF LibraryInv, LibraryTick, CfmNext
<1>2. /\ Indexed' = Indexed /\ OnDisk' = OnDisk
      /\ UNCHANGED <<disk, opened, sizes, lengths, reader>>
  BY DEF LibraryTick, CfmTick, Indexed, OnDisk
<1> QED
  BY <1>1, <1>2 DEF LibraryInv, LibraryTypeOK, CfmInv, SizesRight, BufferRight,
     CutOnlyWhenOvertaken

LEMMA LibraryStep == LibraryInv /\ [LibraryNext]_libraryVars => LibraryInv'
<1> SUFFICES ASSUME LibraryInv, [LibraryNext]_libraryVars PROVE LibraryInv'
  OBVIOUS
<1>1. CASE Open
  BY <1>1, OpenKeeps
<1>2. CASE Saves
  BY <1>2, SaveKeeps, SaveFailsKeeps DEF Saves
<1>3. ASSUME NEW id \in CfmIds, LoadDrops(id)
      PROVE  LibraryInv'
  BY <1>3, DropKeeps DEF LoadDrops, LoadExpired
<1>4. ASSUME NEW id \in CfmIds, AskSize(id)
      PROVE  LibraryInv'
  BY <1>4, AskSizeKeeps
<1>5. ASSUME NEW id \in CfmIds, NEW user \in Requesters, LoadInto(id, user)
      PROVE  LibraryInv'
  BY <1>5, LoadIntoKeeps
<1>6. ASSUME NEW id \in CfmIds, NEW user \in Requesters, LoadRefused(id, user)
      PROVE  LibraryInv'
  <2>1. CASE id \in Indexed /\ HasExpired(id)
    BY <1>6, <2>1, DropKeeps DEF LoadRefused, LoadExpired
  <2>2. CASE ~(id \in Indexed /\ HasExpired(id))
    BY <1>6, <2>2, BackToIdle DEF LoadRefused
  <2> QED
    BY <2>1, <2>2
<1>7. CASE ReaderDone
  BY <1>7, BackToIdle DEF ReaderDone
<1>8. CASE CleanupDrops
  BY <1>8, DropKeeps DEF CleanupDrops, CfmCleanup
<1>9. CASE LibraryTick
  BY <1>9, LibraryTickKeeps
<1>10. CASE UNCHANGED libraryVars
  BY <1>10, ReaderKeeps DEF libraryVars, LibraryInv, LibraryTypeOK, BufferRight,
     CutOnlyWhenOvertaken, Indexed
<1> QED
  BY <1>1, <1>2, <1>3, <1>4, <1>5, <1>6, <1>7, <1>8, <1>9, <1>10 DEF LibraryNext, Loads

-----------------------------------------------------------------------------

(* A host that takes the buffer's size from cfm_size gets the whole file   *)
(* from cfm_load unless the file was written to in between or was torn.    *)
THEOREM BufferSuffices == LibrarySpec => []CutOnlyWhenOvertaken
<1>1. LibraryInv => CutOnlyWhenOvertaken
  BY DEF LibraryInv
<1> QED
  BY <1>1, LibraryInit_Inv, LibraryStep, PTL DEF LibrarySpec

(* Every call of the library does to the index and the directory what a    *)
(* call of the server's store does, or nothing.                            *)
LEMMA LibraryStepIsStoreStep == [LibraryNext]_libraryVars => [CfmNext]_cfmVars
<1> SUFFICES ASSUME [LibraryNext]_libraryVars PROVE [CfmNext]_cfmVars
  OBVIOUS
<1>1. CASE Open
  BY <1>1 DEF Open, CfmNext
<1>2. CASE Saves
  BY <1>2 DEF Saves, Save, SaveFails, Upload, TornUpload, CfmNext
<1>3. CASE Loads
  BY <1>3 DEF Loads, LoadDrops, AskSize, LoadInto, LoadRefused, CfmNext, cfmVars
<1>4. CASE ReaderDone
  BY <1>4 DEF ReaderDone, cfmVars
<1>5. CASE CleanupDrops
  BY <1>5 DEF CleanupDrops, CfmNext
<1>6. CASE LibraryTick
  BY <1>6 DEF LibraryTick, CfmNext
<1>7. CASE UNCHANGED libraryVars
  BY <1>7 DEF libraryVars, cfmVars
<1> QED
  BY <1>1, <1>2, <1>3, <1>4, <1>5, <1>6, <1>7 DEF LibraryNext

(* The Rust library implements the Go store, fairness apart.               *)
THEOREM LibraryImplementsStore == LibrarySpec => CfmInit /\ [][CfmNext]_cfmVars
<1>1. LibraryInit => CfmInit
  BY DEF LibraryInit
<1> QED
  BY <1>1, LibraryStepIsStoreStep, PTL DEF LibrarySpec

(* Through cfm_init and the C interface too, an entry has its file and a   *)
(* complete file is under its own uploader and visibility.                 *)
THEOREM LibraryIndexIsTrue == LibrarySpec => [](EntriesHaveFiles /\ FileMatchesEntry)
<1>1. LibraryInv => EntriesHaveFiles /\ FileMatchesEntry
  BY DEF LibraryInv, CfmInv
<1> QED
  BY <1>1, LibraryInit_Inv, LibraryStep, PTL DEF LibrarySpec

=============================================================================
