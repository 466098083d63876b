------------------------------ MODULE ExtentStore ------------------------------
(***************************************************************************)
(* ExtentStore.kt and ExtentWriter.kt: immutable extent files, the         *)
(* metadata rows that publish them, and the recovery that reconciles the   *)
(* two when the store is opened again.                                     *)
(*                                                                         *)
(* A step is what one coroutine does between two points where another may  *)
(* come in or the process may die: a reservation, one metadata             *)
(* transaction, one change of a directory, one directory fsync.  A file is *)
(* known by the write that made it, which is its inode.                    *)
(*                                                                         *)
(* Abstracted: bytes (a content stands for a digest, a wrong length is     *)
(* ShortContent), the paths (a function of the ExtentId that no row in     *)
(* this schema departs from), lifecycle events, and temporary files, which *)
(* only their writer and recovery touch.  A metadata transaction applies   *)
(* or fails as a whole, and its commit survives a crash                    *)
(* (ExtentMetadataDurability insists on SQLite's FULL level); a rename or  *)
(* a removal survives once its directory is synced.                        *)
(***************************************************************************)
EXTENDS Naturals

CONSTANTS
    Writes,         \* executions of writeExtent()
    Reads,          \* executions of openRead(), with what is done with the handle
    Extents,        \* ExtentIds
    Identities,     \* the immutable fields of a spec and a row but the digest
    Contents,       \* byte sequences of the right length
    ShortContent,   \* a byte sequence of another length
    WriteSpec,      \* the ExtentSpec of each write, see SpecRecord
    ReadOf,         \* the extent each read asks for
    None,
    MaxDamages,     \* bound: files struck from outside
    MaxCrashes      \* bound: deaths of the process

\* digest is expectedSha256, None when the origin gave none.
SpecRecord ==
    [extent: Extents, identity: Identities, digest: Contents \union {None}]

ASSUME SpecAssumption == WriteSpec \in [Writes -> SpecRecord]
ASSUME ReadAssumption == ReadOf \in [Reads -> Extents]
ASSUME ContentAssumption == ShortContent \notin Contents /\ None \notin Contents
ASSUME BoundAssumption == MaxDamages \in Nat /\ MaxCrashes \in Nat

VARIABLES
    rows,           \* extent -> its metadata row or None
    final,          \* extent -> the file at its final path or None
    durable,        \* the same as a crash finds it, see Sync
    parts,          \* the writes that have a temporary file
    received,       \* write -> the content its producer has delivered, or None
    wpc, rpc,       \* where each write and each read stands
    looked,         \* the content openRead() read in the row
    seen,           \* the file openRead() then found
    store,          \* "down", "recovering" or "open"
    recovery,       \* what recoverInternal() has done
    damages, crashes

writeVars == <<parts, received, wpc>>
readVars == <<rpc, looked, seen>>
storeVars == <<store, recovery>>
boundVars == <<damages, crashes>>
vars == <<rows, final, durable, writeVars, readVars, storeVars, boundVars>>

\* publicationState and integrityState change together: valid is PUBLISHED and
\* VALID, the opposite QUARANTINED and CORRUPT.
Row == [identity: Identities, content: Contents, valid: BOOLEAN]

\* content: what its writer had verified; harm: what has happened to it since.
File == [by: Writes, content: Contents, harm: {"none", "length", "digest"}]

ASSUME NoneAssumption == None \notin Row /\ None \notin File

\* "failed" is the end of an operation that left a final file behind.
WritePlaces == {"new", "reserved", "writable", "receiving", "verified",
                "publishable", "installed", "synced", "published", "failed", "ended"}
ReadPlaces == {"new", "begun", "found", "condemning", "deleting", "syncing",
               "holding", "failed", "ended"}

RecoveryRecord ==
    [phase: {"parts", "rows", "orphans"},
     todo: SUBSET Extents,      \* rows of the snapshot still to be checked
     doomed: SUBSET Extents,    \* row found wanting, its file not yet deleted
     kept: SUBSET Extents]      \* validPublishedPaths

TypeOK ==
    /\ rows \in [Extents -> Row \union {None}]
    /\ final \in [Extents -> File \union {None}]
    /\ durable \in [Extents -> File \union {None}]
    /\ parts \in SUBSET Writes
    /\ received \in [Writes -> Contents \union {ShortContent, None}]
    /\ wpc \in [Writes -> WritePlaces]
    /\ rpc \in [Reads -> ReadPlaces]
    /\ looked \in [Reads -> Contents \union {None}]
    /\ seen \in [Reads -> File \union {None}]
    /\ store \in {"down", "recovering", "open"}
    /\ recovery \in RecoveryRecord
    /\ damages \in Nat
    /\ crashes \in Nat

NotBegun == [phase |-> "parts", todo |-> {}, doomed |-> {}, kept |-> {}]

Init ==
    /\ rows = [e \in Extents |-> None]
    /\ final = [e \in Extents |-> None]
    /\ durable = [e \in Extents |-> None]
    /\ parts = {}
    /\ received = [w \in Writes |-> None]
    /\ wpc = [w \in Writes |-> "new"]
    /\ rpc = [r \in Reads |-> "new"]
    /\ looked = [r \in Reads |-> None]
    /\ seen = [r \in Reads |-> None]
    /\ store = "down"
    /\ recovery = NotBegun
    /\ damages = 0
    /\ crashes = 0

ExtentOf(w) == WriteSpec[w].extent
Published(e) == rows[e] # None /\ rows[e].valid

\* fsync of the directory the file is in.
Sync(e) == durable' = [durable EXCEPT ![e] = final[e]]

Quarantine(e) ==
    rows' = [rows EXCEPT ![e] =
        [identity |-> @.identity, content |-> @.content, valid |-> FALSE]]

-------------------------------------------------------------------------------
(* writeExtent() *)

Active(w) == wpc[w] \notin {"new", "failed", "ended"}

WriterAt(w, place) == wpc' = [wpc EXCEPT ![w] = place]

\* A row that exists may only be repaired, and only under the identity it has.
Repairable(w) ==
    LET e == ExtentOf(w) IN
    rows[e] # None => ~rows[e].valid /\ rows[e].identity = WriteSpec[w].identity

\* validatePreflightCandidate(): before the bytes are known, by the spec's digest.
Writable(w) ==
    LET e == ExtentOf(w) IN
    /\ Repairable(w)
    /\ rows[e] # None => WriteSpec[w].digest \in {None, rows[e].content}

\* Mutant of Publishable: the digest is not part of a row's identity.
PublishableWhatever(w) == Repairable(w)

\* validateRepairCandidate(): by what was received.
Publishable(w) ==
    LET e == ExtentOf(w) IN
    /\ Repairable(w)
    /\ rows[e] # None => rows[e].content = received[w]

ReserveWriter(w) ==
    /\ wpc[w] = "new"
    /\ store = "open"
    /\ IF \E v \in Writes : Active(v) /\ ExtentOf(v) = ExtentOf(w)
       THEN WriterAt(w, "ended")
       ELSE WriterAt(w, "reserved")
    /\ UNCHANGED <<rows, final, durable, parts, received, readVars, storeVars, boundVars>>

AssertWritable(w) ==
    /\ wpc[w] = "reserved"
    /\ Writable(w)
    /\ WriterAt(w, "writable")
    /\ UNCHANGED <<rows, final, durable, parts, received, readVars, storeVars, boundVars>>

\* What the producer will have delivered is chosen with the temporary file.
CreatePartFile(w) ==
    /\ wpc[w] = "writable"
    /\ final[ExtentOf(w)] = None
    /\ parts' = parts \union {w}
    /\ \E x \in Contents \union {ShortContent} : received' = [received EXCEPT ![w] = x]
    /\ WriterAt(w, "receiving")
    /\ UNCHANGED <<rows, final, durable, readVars, storeVars, boundVars>>

\* commitLocked() up to VERIFIED: the part is synced and read back.
Verify(w) ==
    /\ wpc[w] = "receiving"
    /\ received[w] # ShortContent
    /\ WriteSpec[w].digest \in {None, received[w]}
    /\ WriterAt(w, "verified")
    /\ UNCHANGED <<rows, final, durable, parts, received, readVars, storeVars, boundVars>>

AssertPublishable(w) ==
    /\ wpc[w] = "verified"
    /\ Publishable(w)
    /\ WriterAt(w, "publishable")
    /\ UNCHANGED <<rows, final, durable, parts, received, readVars, storeVars, boundVars>>

\* installAtomically(): the rename, then the fsync of its directory.
Install(w) ==
    LET e == ExtentOf(w) IN
    /\ wpc[w] = "publishable"
    /\ final[e] = None
    /\ final' = [final EXCEPT ![e] = [by |-> w, content |-> received[w], harm |-> "none"]]
    /\ parts' = parts \ {w}
    /\ WriterAt(w, "installed")
    /\ UNCHANGED <<rows, durable, received, readVars, storeVars, boundVars>>

\* Mutant of SyncInstalled: the directory is not synced.
InstalledUnsynced(w) ==
    /\ wpc[w] = "installed"
    /\ WriterAt(w, "synced")
    /\ UNCHANGED <<rows, final, durable, parts, received, readVars, storeVars, boundVars>>

SyncInstalled(w) ==
    /\ wpc[w] = "installed"
    /\ Sync(ExtentOf(w))
    /\ WriterAt(w, "synced")
    /\ UNCHANGED <<rows, final, parts, received, readVars, storeVars, boundVars>>

Publish(w) ==
    /\ wpc[w] = "synced"
    /\ Publishable(w)
    /\ rows' = [rows EXCEPT ![ExtentOf(w)] =
            [identity |-> WriteSpec[w].identity, content |-> received[w], valid |-> TRUE]]
    /\ WriterAt(w, "published")
    /\ UNCHANGED <<final, durable, parts, received, readVars, storeVars, boundVars>>

FinishTerminal(w) ==
    /\ wpc[w] = "published"
    /\ WriterAt(w, "ended")
    /\ UNCHANGED <<rows, final, durable, parts, received, readVars, storeVars, boundVars>>

\* A conflict, an I/O error, a digest or length that is wrong, or the producer's
\* failure or cancellation: abort() or commitLocked() delete the part, if they can.
WriteFails(w) ==
    /\ wpc[w] \in {"reserved", "writable", "receiving", "verified", "publishable"}
    /\ parts' \in {parts, parts \ {w}}
    /\ WriterAt(w, "ended")
    /\ UNCHANGED <<rows, final, durable, received, readVars, storeVars, boundVars>>

\* Once the part is renamed nothing is cleaned up: the file is left to recovery.
PublishFails(w) ==
    /\ wpc[w] \in {"installed", "synced"}
    /\ WriterAt(w, "failed")
    /\ UNCHANGED <<rows, final, durable, parts, received, readVars, storeVars, boundVars>>

-------------------------------------------------------------------------------
(* openRead(), and its handle *)

ReaderAt(r, place) == rpc' = [rpc EXCEPT ![r] = place]

BeginReadOperation(r) ==
    /\ rpc[r] = "new"
    /\ store = "open"
    /\ ReaderAt(r, "begun")
    /\ UNCHANGED <<rows, final, durable, looked, seen, writeVars, storeVars, boundVars>>

Lookup(r) ==
    LET e == ReadOf[r] IN
    /\ rpc[r] = "begun"
    /\ \/ /\ Published(e)
          /\ looked' = [looked EXCEPT ![r] = rows[e].content]
          /\ ReaderAt(r, "found")
       \/ /\ ~Published(e)
          /\ ReaderAt(r, "ended")
          /\ UNCHANGED looked
    /\ UNCHANGED <<rows, final, durable, seen, writeVars, storeVars, boundVars>>

\* The file's existence and length; the digest is recovery's business.
Admissible(file) == file # None /\ file.harm # "length"

\* An open channel stays on the file it was opened on, whatever becomes of the path.
OpenChannel(r) ==
    /\ rpc[r] = "found"
    /\ seen' = [seen EXCEPT ![r] = final[ReadOf[r]]]
    /\ ReaderAt(r, IF Admissible(final[ReadOf[r]]) THEN "holding" ELSE "condemning")
    /\ UNCHANGED <<rows, final, durable, looked, writeVars, storeVars, boundVars>>

\* quarantineReadFailure(): the row by its id, then the file by its path.
QuarantineRow(r) ==
    /\ rpc[r] = "condemning"
    /\ Quarantine(ReadOf[r])
    /\ ReaderAt(r, "deleting")
    /\ UNCHANGED <<final, durable, looked, seen, writeVars, storeVars, boundVars>>

\* Mutant of DeleteRowFile: the quarantined file stays.
KeepRowFile(r) ==
    /\ rpc[r] = "deleting"
    /\ ReaderAt(r, "ended")
    /\ UNCHANGED <<rows, final, durable, looked, seen, writeVars, storeVars, boundVars>>

DeleteRowFile(r) ==
    /\ rpc[r] = "deleting"
    /\ final' = [final EXCEPT ![ReadOf[r]] = None]
    /\ ReaderAt(r, IF final[ReadOf[r]] = None THEN "ended" ELSE "syncing")
    /\ UNCHANGED <<rows, durable, looked, seen, writeVars, storeVars, boundVars>>

SyncDeleted(r) ==
    /\ rpc[r] = "syncing"
    /\ Sync(ReadOf[r])
    /\ ReaderAt(r, "ended")
    /\ UNCHANGED <<rows, final, looked, seen, writeVars, storeVars, boundVars>>

\* close() of the handle; for a read that is cancelled, before it is returned.
CloseHandle(r) ==
    /\ rpc[r] = "holding"
    /\ ReaderAt(r, "ended")
    /\ UNCHANGED <<rows, final, durable, looked, seen, writeVars, storeVars, boundVars>>

\* An I/O error or a cancellation; what it meets once the row is quarantined
\* leaves the file where it is.
ReadFails(r) ==
    /\ rpc[r] \in {"begun", "found", "condemning", "deleting", "syncing"}
    /\ ReaderAt(r, IF rpc[r] = "deleting" THEN "failed" ELSE "ended")
    /\ UNCHANGED <<rows, final, durable, looked, seen, writeVars, storeVars, boundVars>>

-------------------------------------------------------------------------------
(* open(), recoverInternal() and close() *)

Open ==
    /\ store = "down"
    /\ store' = "recovering"
    /\ recovery' = NotBegun
    /\ UNCHANGED <<rows, final, durable, writeVars, readVars, boundVars>>

RecoverPart(w) ==
    /\ store = "recovering"
    /\ recovery.phase = "parts"
    /\ w \in parts
    /\ parts' = parts \ {w}
    /\ UNCHANGED <<rows, final, durable, received, wpc, readVars, storeVars, boundVars>>

SnapshotRows ==
    /\ store = "recovering"
    /\ recovery.phase = "parts"
    /\ parts = {}
    /\ recovery' = [recovery EXCEPT !.phase = "rows",
                                    !.todo = {e \in Extents : rows[e] # None}]
    /\ UNCHANGED <<rows, final, durable, writeVars, readVars, store, boundVars>>

\* validationFailure() is null.
Validates(e) ==
    /\ final[e] # None
    /\ final[e].harm = "none"
    /\ final[e].content = rows[e].content

\* One row of the snapshot; the file of the one before has been deleted.
RecoverRow(e) ==
    /\ store = "recovering"
    /\ e \in recovery.todo
    /\ recovery.doomed = {}
    /\ LET sound == Published(e) /\ Validates(e) IN
       /\ recovery' = [recovery EXCEPT !.todo = @ \ {e},
                                       !.kept = IF sound THEN @ \union {e} ELSE @,
                                       !.doomed = IF sound THEN {} ELSE {e}]
       /\ IF sound THEN UNCHANGED rows ELSE Quarantine(e)
    /\ UNCHANGED <<final, durable, writeVars, readVars, store, boundVars>>

\* A removal and its fsync, if there is a file: a crash between them is a crash
\* before or after both.
Remove(e) ==
    IF final[e] = None
    THEN UNCHANGED <<final, durable>>
    ELSE /\ final' = [final EXCEPT ![e] = None]
         /\ durable' = [durable EXCEPT ![e] = None]

DeleteDoomed(e) ==
    /\ store = "recovering"
    /\ e \in recovery.doomed
    /\ Remove(e)
    /\ recovery' = [recovery EXCEPT !.doomed = {}]
    /\ UNCHANGED <<rows, writeVars, readVars, store, boundVars>>

RowsDone ==
    /\ store = "recovering"
    /\ recovery.phase = "rows"
    /\ recovery.todo = {}
    /\ recovery.doomed = {}
    /\ recovery' = [recovery EXCEPT !.phase = "orphans"]
    /\ UNCHANGED <<rows, final, durable, writeVars, readVars, store, boundVars>>

\* Mutant of Orphan: only files that some row names are looked at.
OrphanOfRow(e) == final[e] # None /\ rows[e] # None /\ e \notin recovery.kept

Orphan(e) == final[e] # None /\ e \notin recovery.kept

DeleteOrphan(e) ==
    /\ store = "recovering"
    /\ recovery.phase = "orphans"
    /\ Orphan(e)
    /\ Remove(e)
    /\ UNCHANGED <<rows, writeVars, readVars, storeVars, boundVars>>

RecoveryDone ==
    /\ store = "recovering"
    /\ recovery.phase = "orphans"
    /\ \A e \in Extents : ~Orphan(e)
    /\ store' = "open"
    /\ recovery' = NotBegun
    /\ UNCHANGED <<rows, final, durable, writeVars, readVars, boundVars>>

\* An I/O error or a cancellation: open() closes what it has opened, and throws.
RecoveryFails ==
    /\ store = "recovering"
    /\ store' = "down"
    /\ recovery' = NotBegun
    /\ UNCHANGED <<rows, final, durable, writeVars, readVars, boundVars>>

\* close() refuses while a write or a read is under way.  What ended by leaving a
\* file behind is forgotten with the store.
Ended(place) == IF place = "new" THEN "new" ELSE "ended"

ForgetsOperations ==
    /\ wpc' = [w \in Writes |-> Ended(wpc[w])]
    /\ rpc' = [r \in Reads |-> Ended(rpc[r])]

Close ==
    /\ store = "open"
    /\ \A w \in Writes : ~Active(w)
    /\ \A r \in Reads : rpc[r] \in {"new", "failed", "ended"}
    /\ ForgetsOperations
    /\ store' = "down"
    /\ UNCHANGED <<rows, final, durable, parts, received, looked, seen, recovery, boundVars>>

-------------------------------------------------------------------------------
(* The world *)

\* The process or the device dies: of a directory not synced either state may be found.
Crash ==
    /\ crashes < MaxCrashes
    /\ crashes' = crashes + 1
    /\ \E lost \in SUBSET Extents :
        final' = [e \in Extents |-> IF e \in lost THEN durable[e] ELSE final[e]]
    /\ durable' = final'
    /\ ForgetsOperations
    /\ store' = "down"
    /\ recovery' = NotBegun
    /\ UNCHANGED <<rows, parts, received, looked, seen, damages>>

\* A published file is struck from outside: gone, of another length, or rotten.
Damage(e) ==
    /\ store # "recovering"
    /\ damages < MaxDamages
    /\ damages' = damages + 1
    /\ Published(e) /\ final[e] # None
    /\ \/ final' = [final EXCEPT ![e] = None]
       \/ \E harm \in {"length", "digest"} :
            final' = [final EXCEPT ![e] = [by |-> @.by, content |-> @.content, harm |-> harm]]
    /\ durable' = [durable EXCEPT ![e] = final'[e]]
    /\ UNCHANGED <<rows, writeVars, readVars, storeVars, crashes>>

-------------------------------------------------------------------------------
WriteExtent(w) ==
    \/ ReserveWriter(w) \/ AssertWritable(w) \/ CreatePartFile(w)
    \/ Verify(w) \/ AssertPublishable(w) \/ Install(w) \/ SyncInstalled(w)
    \/ Publish(w) \/ FinishTerminal(w)
    \/ WriteFails(w) \/ PublishFails(w)

OpenRead(r) ==
    \/ BeginReadOperation(r) \/ Lookup(r) \/ OpenChannel(r)
    \/ QuarantineRow(r) \/ DeleteRowFile(r) \/ SyncDeleted(r)
    \/ CloseHandle(r) \/ ReadFails(r)

Recover ==
    \/ \E w \in Writes : RecoverPart(w)
    \/ \E e \in Extents : RecoverRow(e) \/ DeleteDoomed(e) \/ DeleteOrphan(e)
    \/ SnapshotRows \/ RowsDone \/ RecoveryDone \/ RecoveryFails

Next ==
    \/ \E w \in Writes : WriteExtent(w)
    \/ \E r \in Reads : OpenRead(r)
    \/ Open \/ Recover \/ Close
    \/ Crash
    \/ \E e \in Extents : Damage(e)

Spec == Init /\ [][Next]_vars

-------------------------------------------------------------------------------
(* Safety *)

Intact(e) == Published(e) /\ Validates(e)

\* A reader about to condemn e on the strength of a file that is no longer there:
\* the extent has been repaired since it looked.
CondemnsAnother(r, e) ==
    /\ ReadOf[r] = e
    /\ rpc[r] \in {"condemning", "deleting"}
    /\ seen[r] # final[e]

\* A committed extent stays what it was through crashes, restarts, recovery, failed
\* and repeated writes: only damage from outside takes it away, or a reader that
\* looked before its repair (quarantineReadFailure() goes by the id and the path).
SoundUntilStruck ==
    [][\A e \in Extents : Intact(e) /\ ~Intact(e)' =>
        \/ damages' # damages
        \/ \E r \in Reads : CondemnsAnother(r, e)]_vars

\* When recovery lets the store open, rows and files agree in both directions: what is
\* published validates, and there is no other file that a later write could run into.
RecoveredIsSound ==
    [][store = "recovering" /\ store' = "open" =>
        /\ parts' = {}
        /\ \A e \in Extents : Intact(e)' \/ (~Published(e)' /\ final'[e] = None)]_vars

\* "A corrupt extent can be repaired without a restart": a final file that no row
\* publishes, which refuses every write of its extent, is on its way to one or out,
\* unless an operation failed after the point where it could still clean up.
FilesAreOwned ==
    store = "open" =>
        \A e \in Extents : final[e] # None /\ ~Published(e) =>
            \/ \E w \in Writes :
                ExtentOf(w) = e /\ wpc[w] \in {"installed", "synced", "failed"}
            \/ \E r \in Reads : ReadOf[r] = e /\ rpc[r] \in {"deleting", "failed"}

\* openRead() fetches the row and the file apart, and in between the extent may be
\* quarantined and repaired.  The file a handle is opened on is of the row's version all
\* the same: its writer had verified the digest of the row, it has the row's length, and
\* it has the row's bytes unless something outside the store struck it.  A struck file
\* that keeps its length is served as it is: openRead() compares no digest.
HandleHoldsItsVersion ==
    \A r \in Reads : rpc[r] = "holding" =>
        /\ seen[r].content = looked[r]
        /\ \/ seen[r].harm = "none"
           \/ seen[r].harm = "digest" /\ damages > 0

\* M1.md's crash matrix says of an extent after publish that the "immutable file must
\* exist and validate".  It fails when a reader that found the damaged file deletes by
\* its path after the repair has been installed and before its row is written.
PublishedFileValidates ==
    [][\A w \in Writes : Publish(w) => Intact(ExtentOf(w))']_vars
===============================================================================
