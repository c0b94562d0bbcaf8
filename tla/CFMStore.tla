------------------------------ MODULE CFMStore ------------------------------
(***************************************************************************)
(* The server's store of uploaded files, internal/store/cfm.go.  cfms is   *)
(* the in-memory index and disk the directory the files are in, one file   *)
(* per identifier.  Only the index knows uploader, visibility and expiry,  *)
(* and it is lost when the server restarts; the files stay.                *)
(*                                                                         *)
(* A file's content is represented by who sent it, whether it was sent as  *)
(* public, and whether all of it reached the disk.  os.WriteFile may fail  *)
(* before it opens the file, with no effect, or after it truncated it,     *)
(* leaving a part of the new data.                                         *)
(* Every method holds the store's mutex, so each is one atomic action.     *)
(***************************************************************************)
EXTENDS Integers, FiniteSets

CONSTANTS
    CfmIds,     \* identifiers of files
    Uploaders,  \* the users who upload and download
    Sizes,      \* sizes of the files that are uploaded
    MaxBytes,   \* cs.maxSize
    Expiries,   \* the expiry periods uploads ask for
    LastSave,   \* bound on the time of the last upload
    MaxNow      \* bound on the clock

ASSUME CfmAssumption ==
    /\ Sizes \subseteq Nat
    /\ MaxBytes \in Nat /\ LastSave \in Nat /\ MaxNow \in Nat
    /\ Expiries \subseteq Int

VARIABLES
    cfms,       \* identifier -> [uploader, public, expires]
    disk,       \* identifier -> [by, public, whole]: the files in baseDir
    now         \* the clock

cfmVars == <<cfms, disk, now>>

Indexed == DOMAIN cfms
OnDisk == DOMAIN disk

Deadlines == {t + expiry : t \in 0 .. LastSave, expiry \in Expiries}

Entry == [uploader : Uploaders, public : BOOLEAN, expires : Deadlines]
File == [by : Uploaders, public : BOOLEAN, whole : BOOLEAN]

Content(user, public, whole) == [by |-> user, public |-> public, whole |-> whole]

(* A map after an assignment, and after deletions.                         *)
With(f, id, value) == [x \in DOMAIN f \union {id} |-> IF x = id THEN value ELSE f[x]]

Without(f, ids) == [id \in DOMAIN f \ ids |-> f[id]]

-----------------------------------------------------------------------------

CfmInit ==
    /\ cfms = [id \in {} |-> id]
    /\ disk = [id \in {} |-> id]
    /\ now = 0

SavedEntry(user, public, expiry) ==
    [uploader |-> user, public |-> public, expires |-> now + expiry]

SaveKeepingEntry(id, user, public, expiry) ==
    /\ disk' = With(disk, id, Content(user, public, TRUE))
    /\ cfms' = IF id \in Indexed THEN cfms ELSE With(cfms, id, SavedEntry(user, public, expiry))
    /\ UNCHANGED now

(* Save: the file is written, then the entry is put in the index; both     *)
(* replace what the identifier named before, whoever uploaded it.          *)
SaveDone(id, user, public, expiry) ==
    /\ disk' = With(disk, id, Content(user, public, TRUE))
    /\ cfms' = With(cfms, id, SavedEntry(user, public, expiry))
    /\ UNCHANGED now

(* Save when os.WriteFile fails half way: the index keeps what it had.     *)
SaveTorn(id, user, public) ==
    /\ disk' = With(disk, id, Content(user, public, FALSE))
    /\ UNCHANGED <<cfms, now>>

TooLarge(size) == size > MaxBytes

HasExpired(id) == now > cfms[id].expires

MayRead(id, user) == cfms[id].public \/ cfms[id].uploader = user

LoadExpiredKeepingEntry(id) ==
    /\ id \in Indexed
    /\ HasExpired(id)
    /\ disk' = Without(disk, {id})
    /\ UNCHANGED <<cfms, now>>

(* Load of an expired file removes it; every other Load only reads.        *)
LoadExpired(id) ==
    /\ id \in Indexed
    /\ HasExpired(id)
    /\ disk' = Without(disk, {id})
    /\ cfms' = Without(cfms, {id})
    /\ UNCHANGED now

(* What a Load that is not LoadExpired returns.                            *)
Loaded(id, user) ==
    IF id \notin Indexed THEN "not found"
    ELSE IF ~MayRead(id, user) THEN "no permission"
    ELSE IF id \notin OnDisk THEN "read error"
    ELSE "file"

(* Cleanup removes the expired entries and their files.                    *)
CfmCleanup ==
    LET old == {id \in Indexed : HasExpired(id)}
    IN  /\ disk' = Without(disk, old)
        /\ cfms' = Without(cfms, old)
        /\ UNCHANGED now

(* A new process: NewCFMStore starts from an empty index and leaves the    *)
(* directory as it is.                                                     *)
Restart ==
    /\ cfms' = [id \in {} |-> id]
    /\ UNCHANGED <<disk, now>>

CfmTick ==
    /\ now' = now + 1
    /\ UNCHANGED <<cfms, disk>>

-----------------------------------------------------------------------------

(* An upload of a file that is not too large, with or without write error. *)
Upload ==
    \E id \in CfmIds, user \in Uploaders, size \in Sizes, expiry \in Expiries :
        /\ now <= LastSave
        /\ ~TooLarge(size)
        /\ \E public \in BOOLEAN : SaveDone(id, user, public, expiry)

TornUpload ==
    \E id \in CfmIds, user \in Uploaders, size \in Sizes :
        /\ now <= LastSave
        /\ ~TooLarge(size)
        /\ \E public \in BOOLEAN : SaveTorn(id, user, public)

CfmNext ==
    \/ Upload \/ TornUpload
    \/ \E id \in CfmIds : LoadExpired(id)
    \/ CfmCleanup
    \/ Restart
    \/ now < MaxNow /\ CfmTick

(* The clock runs, and the cleanup goroutine's ticker fires again and again. *)
CfmSpec ==
    /\ CfmInit /\ [][CfmNext]_cfmVars
    /\ WF_cfmVars(now < MaxNow /\ CfmTick)
    /\ WF_cfmVars(CfmCleanup)

-----------------------------------------------------------------------------

(* The state has the types of the Go struct's fields.                      *)
CfmTypeOK ==
    /\ Indexed \subseteq CfmIds /\ cfms \in [Indexed -> Entry]
    /\ OnDisk \subseteq CfmIds /\ disk \in [OnDisk -> File]
    /\ now \in 0 .. MaxNow

(* An entry never dangles: what the index promises is on disk, through     *)
(* overwriting, torn writes, expiry in Load and Cleanup, and restarts.     *)
EntriesHaveFiles == Indexed \subseteq OnDisk

(* A file that is complete is under an entry with the uploader and the     *)
(* visibility it was sent with: what Load checks is right for the data it  *)
(* returns, through overwriting by another user, torn writes and restarts. *)
FileMatchesEntry ==
    \A id \in Indexed \intersect OnDisk :
        disk[id].whole => disk[id] = Content(cfms[id].uploader, cfms[id].public, TRUE)

(* Expired uploads leave the index although nobody asks for them again:    *)
(* once uploads cease it gets empty.  (The directory need not: a file that *)
(* an earlier process or a failed write left has no entry, and Cleanup     *)
(* walks the entries.)                                                     *)
EntriesGetRemoved == <>[](Indexed = {})

=============================================================================
