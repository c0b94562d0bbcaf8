----------------------------- MODULE CFMLibrary -----------------------------
(***************************************************************************)
(* The CFM library, cfm/src/lib.rs: the file store of the Go server written *)
(* a second time, behind C functions over one global store.  Its save, load *)
(* and cleanup do what the server's do, so they are the actions of CFMStore *)
(* and the library implements CfmSpec.  It adds                            *)
(*   - cfm_init, before which every other function fails, and which may be *)
(*     called again: the global store is then replaced by an empty one;    *)
(*   - the size of a file, recorded by save and told by cfm_size, which is *)
(*     how a host learns how large a buffer cfm_load needs.  cfm_load fills *)
(*     the buffer and reports success even when the file is longer.        *)
(*                                                                         *)
(* One host thread, the reader, asks for the size and then loads; the      *)
(* other threads call everything else in between.  STORE is a Mutex held   *)
(* for the length of a call, so each call is one action.                   *)
(*                                                                         *)
(* expire_minutes is a u64: 60 * expire_minutes wraps, and the largest     *)
(* period is one that ends before the upload (-1 in Expiries).             *)
(***************************************************************************)
EXTENDS CFMStore

CONSTANTS
    Requesters, \* the names cfm_load is called with, none (NULL) among them
    NoFile      \* the reader has asked for no file

ASSUME LibraryAssumption == NoFile \notin CfmIds

VARIABLES
    opened,     \* STORE is Some(store)
    sizes,      \* identifier -> FileEntry.size
    lengths,    \* identifier -> the length of the file on disk
    reader      \* the file asked for, the buffer, and what came of it

libraryVars == <<cfms, disk, now, opened, sizes, lengths, reader>>

(* disturbed is history: the file was torn when its size was told, or was  *)
(* written to since.                                                       *)
Reader == [id : CfmIds \union {NoFile}, room : Nat, disturbed : BOOLEAN,
           got : {"nothing", "whole", "cut"}]

Idle == [id |-> NoFile, room |-> 0, disturbed |-> FALSE, got |-> "nothing"]

LibraryInit ==
    /\ CfmInit
    /\ opened = FALSE
    /\ sizes = [id \in {} |-> 0]
    /\ lengths = [id \in {} |-> 0]
    /\ reader = Idle

-----------------------------------------------------------------------------

(* cfm_init: a store with an empty index over the same directory.          *)
Open ==
    /\ opened' = TRUE
    /\ Restart
    /\ sizes' = [id \in {} |-> 0]
    /\ UNCHANGED <<lengths, reader>>

(* id is written to behind the reader's back.                              *)
Overtake(id) ==
    reader' = [reader EXCEPT !.disturbed = @ \/ (reader.id = id)]

SaveKeepingSize(id, user, public, expiry, size) ==
    /\ opened
    /\ SaveDone(id, user, public, expiry)
    /\ sizes' = IF id \in DOMAIN sizes THEN sizes ELSE With(sizes, id, size)
    /\ lengths' = With(lengths, id, size)
    /\ Overtake(id)
    /\ UNCHANGED opened

(* cfm_save, when the file is written.                                     *)
Save(id, user, public, expiry, size) ==
    /\ opened
    /\ SaveDone(id, user, public, expiry)
    /\ sizes' = With(sizes, id, size)
    /\ lengths' = With(lengths, id, size)
    /\ Overtake(id)
    /\ UNCHANGED opened

(* cfm_save, when std::fs::write fails after it has truncated the file.    *)
SaveFails(id, user, public, size) ==
    /\ opened
    /\ SaveTorn(id, user, public)
    /\ \E part \in 0 .. size - 1 : lengths' = With(lengths, id, part)
    /\ Overtake(id)
    /\ UNCHANGED <<opened, sizes>>

(* cfm_load of an expired file, and cfm_cleanup, which drops them all.     *)
Drop(ids) ==
    /\ sizes' = Without(sizes, ids)
    /\ lengths' = Without(lengths, ids)
    /\ UNCHANGED opened

LoadDrops(id) ==
    opened /\ LoadExpired(id) /\ Drop({id}) /\ UNCHANGED reader

CleanupKeepingEntries ==
    LET old == {id \in Indexed : HasExpired(id)}
    IN  /\ opened
        /\ disk' = Without(disk, old) /\ lengths' = Without(lengths, old)
        /\ UNCHANGED <<cfms, now, opened, sizes, reader>>

CleanupDrops ==
    /\ opened
    /\ CfmCleanup
    /\ Drop({id \in Indexed : HasExpired(id)})
    /\ UNCHANGED reader

-----------------------------------------------------------------------------
(* The reader: cfm_size, then cfm_load with a buffer of that size.  The    *)
(* caller of cfm_load passes no empty buffer.                              *)

AskSize(id) ==
    /\ opened /\ id \in Indexed /\ sizes[id] > 0
    /\ reader = Idle
    /\ reader' = [id |-> id, room |-> sizes[id], got |-> "nothing",
                  disturbed |-> id \in OnDisk /\ ~disk[id].whole]
    /\ UNCHANGED <<cfms, disk, now, opened, sizes, lengths>>

(* The load finds the file and copies what the buffer has room for.        *)
LoadInto(id, user) ==
    /\ opened /\ ~(id \in Indexed /\ HasExpired(id))
    /\ reader.id = id /\ reader.got = "nothing"
    /\ Loaded(id, user) = "file"
    /\ reader' = [reader EXCEPT !.got = IF lengths[id] > reader.room THEN "cut" ELSE "whole"]
    /\ UNCHANGED <<cfms, disk, now, opened, sizes, lengths>>

(* The load fails; what the reader got is used and forgotten.              *)
LoadRefused(id, user) ==
    /\ opened /\ reader.id = id /\ reader.got = "nothing"
    /\ IF id \in Indexed /\ HasExpired(id)
         THEN LoadExpired(id) /\ Drop({id})
         ELSE /\ Loaded(id, user) # "file"
              /\ UNCHANGED <<cfms, disk, now, opened, sizes, lengths>>
    /\ reader' = Idle

ReaderDone ==
    /\ reader.got # "nothing"
    /\ reader' = Idle
    /\ UNCHANGED <<cfms, disk, now, opened, sizes, lengths>>

LibraryTick ==
    now < MaxNow /\ CfmTick /\ UNCHANGED <<opened, sizes, lengths, reader>>

-----------------------------------------------------------------------------

Saves ==
    \E id \in CfmIds, user \in Uploaders, size \in Sizes, public \in BOOLEAN :
        /\ now <= LastSave /\ ~TooLarge(size)
        /\ \/ \E expiry \in Expiries : Save(id, user, public, expiry, size)
           \/ SaveFails(id, user, public, size)

Loads ==
    \E id \in CfmIds :
        \/ LoadDrops(id)
        \/ AskSize(id)
        \/ \E user \in Requesters : LoadInto(id, user) \/ LoadRefused(id, user)

LibraryNext ==
    Open \/ Saves \/ Loads \/ ReaderDone \/ CleanupDrops \/ LibraryTick

(* The clock runs, and the host calls cfm_cleanup periodically.            *)
LibrarySpec ==
    /\ LibraryInit /\ [][LibraryNext]_libraryVars
    /\ WF_libraryVars(LibraryTick)
    /\ WF_libraryVars(CleanupDrops)

-----------------------------------------------------------------------------

(* The state has the types of FileEntry and of the directory.              *)
LibraryTypeOK ==
    /\ CfmTypeOK
    /\ opened \in BOOLEAN /\ reader \in Reader
    /\ DOMAIN sizes = Indexed /\ DOMAIN lengths = OnDisk
    /\ sizes \in [Indexed -> Nat] /\ lengths \in [OnDisk -> Nat]

(* cfm_load reports success for a file it cut to the buffer, so a host     *)
(* depends on the size cfm_size told it: a file is cut only when it was    *)
(* written to in between, or when what is on disk is the rest of a failed  *)
(* write; no other sequence of saves, expiries, cleanups and cfm_init      *)
(* makes the recorded size smaller than the file.                          *)
CutOnlyWhenOvertaken == reader.got = "cut" => reader.disturbed

=============================================================================
