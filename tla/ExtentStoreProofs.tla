--------------------------- MODULE ExtentStoreProofs ---------------------------
(***************************************************************************)
(* Proofs about ExtentStore, for any writes, reads, extents and contents,  *)
(* any number of damages and any number of crashes.                        *)
(*                                                                         *)
(* The argument: a writer is alone with its extent from its reservation on *)
(* (OneWriter), so that what assertPublishable() saw in the row still      *)
(* holds when the file is renamed and when the row is written              *)
(* (PublishableStays).  A file at the final path therefore has the digest  *)
(* of its row, if there is one, and the digest its writer verified until   *)
(* there is (FilesMatchRows, InstalledMatches); a row is written after its *)
(* directory was synced, so a crash finds what is published                *)
(* (PublishedIsDurable).  Readers know the digest of the row, which never  *)
(* changes, and condemn what they have seen to be wrong (ReadersKnow); no  *)
(* operation of the store harms a file (HarmIsDamage).                     *)
(* Recovery runs alone (QuietUnlessOpen) and keeps what it has validated   *)
(* (RecoveryKnows).                                                        *)
(***************************************************************************)
EXTENDS ExtentStore, TLAPS

\* No write and no read is under way but in an open store.
QuietUnlessOpen ==
    store # "open" =>
        /\ \A w \in Writes : ~Active(w)
        /\ \A r \in Reads : rpc[r] \in {"new", "failed", "ended"}

OneWriter ==
    \A v, w \in Writes : Active(v) /\ Active(w) /\ ExtentOf(v) = ExtentOf(w) => v = w

Received ==
    \A w \in Writes :
        /\ wpc[w] = "receiving" => received[w] \in Contents \union {ShortContent}
        /\ wpc[w] \in {"verified", "publishable", "installed", "synced"} =>
               received[w] \in Contents

PublishableStays ==
    \A w \in Writes :
        wpc[w] \in {"publishable", "installed", "synced"} => Publishable(w)

FilesMatchRows ==
    \A e \in Extents : rows[e] # None =>
        /\ final[e] # None => final[e].content = rows[e].content
        /\ durable[e] # None => durable[e].content = rows[e].content

InstalledMatches ==
    \A w \in Writes : LET e == ExtentOf(w) IN
        /\ wpc[w] \in {"installed", "synced"} /\ final[e] # None =>
               final[e].content = received[w]
        /\ wpc[w] = "synced" /\ durable[e] # None => durable[e].content = received[w]

PublishedIsDurable ==
    \A e \in Extents :
        /\ Published(e) \/ (\E w \in Writes : ExtentOf(w) = e /\ wpc[w] = "synced")
        /\ final[e] # None
        => durable[e] = final[e]

ReadersKnow ==
    \A r \in Reads :
        /\ rpc[r] \in {"found", "condemning", "deleting", "holding"} =>
               rows[ReadOf[r]] # None /\ looked[r] = rows[ReadOf[r]].content
        /\ rpc[r] \in {"condemning", "deleting"} => ~Admissible(seen[r])
        /\ rpc[r] = "holding" => Admissible(seen[r]) /\ seen[r].content = looked[r]

\* The store's own operations harm no file.
HarmIsDamage ==
    damages = 0 =>
        /\ \A e \in Extents : final[e] # None => final[e].harm = "none"
        /\ \A e \in Extents : durable[e] # None => durable[e].harm = "none"
        /\ \A r \in Reads : seen[r] # None => seen[r].harm = "none"

RecoveryKnows ==
    store = "recovering" =>
        /\ recovery.phase # "parts" => parts = {}
        /\ recovery.phase # "rows" => recovery.todo = {} /\ recovery.doomed = {}
        /\ recovery.phase = "parts" => recovery.kept = {}
        /\ recovery.phase # "parts" =>
               \A e \in Extents : Published(e) => e \in recovery.todo \union recovery.kept
        /\ \A e \in recovery.todo : rows[e] # None
        /\ \A e \in recovery.doomed : ~Published(e)
        /\ \A e \in recovery.kept : Intact(e)

IInv ==
    /\ TypeOK
    /\ QuietUnlessOpen
    /\ OneWriter
    /\ Received
    /\ PublishableStays
    /\ FilesMatchRows
    /\ InstalledMatches
    /\ PublishedIsDurable
    /\ ReadersKnow
    /\ HarmIsDamage
    /\ RecoveryKnows
    /\ FilesAreOwned

\* Quarantine touches nothing but the validity of one row.
LEMMA QuarantineKeeps ==
    ASSUME NEW e \in Extents, TypeOK, rows[e] # None, Quarantine(e)
    PROVE  /\ rows' \in [Extents -> Row \union {None}]
           /\ ~rows'[e].valid
           /\ \A f \in Extents \ {e} : rows'[f] = rows[f]
           /\ \A f \in Extents : rows[f] # None =>
                  rows'[f] # None /\ rows'[f].content = rows[f].content
<1>. DEFINE new == [identity |-> rows[e].identity, content |-> rows[e].content, valid |-> FALSE]
<1>1. rows[e] \in Row
  BY DEF TypeOK
<1>2. new \in Row /\ ~new.valid /\ new.content = rows[e].content
  BY <1>1 DEF Row
<1>3. rows' = [rows EXCEPT ![e] = new]
  BY DEF Quarantine
<1>4. new # None
  BY <1>2, NoneAssumption
<1>. HIDE DEF new
<1>. QED
  BY <1>1, <1>2, <1>3, <1>4 DEF TypeOK

\* What publish() writes, over what it replaces.
LEMMA PublishWrites ==
    ASSUME NEW w \in Writes, TypeOK, Received, Publish(w)
    PROVE  /\ rows' \in [Extents -> Row \union {None}]
           /\ Published(ExtentOf(w))'
           /\ \A f \in Extents \ {ExtentOf(w)} : rows'[f] = rows[f]
           /\ \A f \in Extents : rows[f] # None =>
                  rows'[f] # None /\ rows'[f].content = rows[f].content
<1>. DEFINE new == [identity |-> WriteSpec[w].identity, content |-> received[w], valid |-> TRUE]
<1>1. WriteSpec[w] \in SpecRecord /\ ExtentOf(w) \in Extents
  BY SpecAssumption DEF SpecRecord, ExtentOf
<1>2. new \in Row /\ new.valid /\ new.content = received[w]
  BY <1>1 DEF Publish, Received, Row, SpecRecord
<1>3. rows' = [rows EXCEPT ![ExtentOf(w)] = new]
  BY DEF Publish
<1>4. rows[ExtentOf(w)] # None => rows[ExtentOf(w)].content = received[w]
  BY DEF Publish, Publishable
<1>5. new # None
  BY <1>2, NoneAssumption
<1>. HIDE DEF new
<1>. QED
  BY <1>1, <1>2, <1>3, <1>4, <1>5 DEF TypeOK, Published, ExtentOf

\* Every step keeps the types.
LEMMA TypeStep ==
    ASSUME IInv, Next
    PROVE  TypeOK'
<1>. USE SpecAssumption, ReadAssumption DEF IInv, TypeOK, ExtentOf, SpecRecord,
                                            WritePlaces, ReadPlaces, Row, File,
                                            RecoveryRecord, Published, vars, writeVars,
                                            readVars, storeVars, boundVars, WriterAt,
                                            ReaderAt
<1>2. ASSUME NEW w \in Writes, WriteExtent(w) PROVE TypeOK'
  <2>1. CASE ReserveWriter(w)
    BY <2>1, <1>2 DEF ReserveWriter, Active
  <2>2. CASE AssertWritable(w)
    BY <2>2, <1>2 DEF AssertWritable
  <2>3. CASE CreatePartFile(w)
    BY <2>3, <1>2 DEF CreatePartFile
  <2>4. CASE Verify(w)
    BY <2>4, <1>2 DEF Verify
  <2>5. CASE AssertPublishable(w)
    BY <2>5, <1>2 DEF AssertPublishable
  <2>6. CASE Install(w)
    BY <2>6, <1>2 DEF Install, Received
  <2>7. CASE SyncInstalled(w)
    BY <2>7, <1>2 DEF SyncInstalled, Sync
  <2>8. CASE Publish(w)
    BY <2>8, <1>2 DEF Publish, Received
  <2>9. CASE FinishTerminal(w)
    BY <2>9, <1>2 DEF FinishTerminal
  <2>10. CASE WriteFails(w)
    BY <2>10, <1>2 DEF WriteFails
  <2>11. CASE PublishFails(w)
    BY <2>11, <1>2 DEF PublishFails
  <2>. QED
    BY <1>2, <2>1, <2>2, <2>3, <2>4, <2>5, <2>6, <2>7, <2>8, <2>9, <2>10, <2>11
    DEF WriteExtent
<1>3. ASSUME NEW r \in Reads, OpenRead(r) PROVE TypeOK'
  <2>1. CASE BeginReadOperation(r)
    BY <2>1, <1>3 DEF BeginReadOperation
  <2>2. CASE Lookup(r)
    BY <2>2, <1>3 DEF Lookup
  <2>3. CASE OpenChannel(r)
    BY <2>3, <1>3 DEF OpenChannel
  <2>4. CASE QuarantineRow(r)
    BY <2>4, <1>3 DEF QuarantineRow, Quarantine, ReadersKnow
  <2>5. CASE DeleteRowFile(r)
    BY <2>5, <1>3 DEF DeleteRowFile
  <2>6. CASE SyncDeleted(r)
    BY <2>6, <1>3 DEF SyncDeleted, Sync
  <2>7. CASE CloseHandle(r)
    BY <2>7, <1>3 DEF CloseHandle
  <2>8. CASE ReadFails(r)
    BY <2>8, <1>3 DEF ReadFails
  <2>. QED
    BY <1>3, <2>1, <2>2, <2>3, <2>4, <2>5, <2>6, <2>7, <2>8 DEF OpenRead
<1>4. ASSUME Recover PROVE TypeOK'
  <2>1. ASSUME NEW w \in Writes, RecoverPart(w) PROVE TypeOK'
    BY <2>1 DEF RecoverPart
  <2>2. ASSUME NEW e \in Extents, RecoverRow(e) PROVE TypeOK'
    <3>1. rows' \in [Extents -> Row \union {None}]
      BY <2>2, QuarantineKeeps DEF RecoverRow, RecoveryKnows
    <3>2. recovery' \in RecoveryRecord
      BY <2>2 DEF RecoverRow
    <3>. QED
      BY <3>1, <3>2, <2>2 DEF RecoverRow
  <2>3. ASSUME NEW e \in Extents, DeleteDoomed(e) PROVE TypeOK'
    BY <2>3 DEF DeleteDoomed, Remove
  <2>4. ASSUME NEW e \in Extents, DeleteOrphan(e) PROVE TypeOK'
    BY <2>4 DEF DeleteOrphan, Remove, Orphan
  <2>5. CASE SnapshotRows
    BY <2>5 DEF SnapshotRows
  <2>6. CASE RowsDone
    BY <2>6 DEF RowsDone
  <2>7. CASE RecoveryDone
    BY <2>7 DEF RecoveryDone, Orphan, NotBegun
  <2>8. CASE RecoveryFails
    BY <2>8 DEF RecoveryFails, NotBegun
  <2>. QED
    BY <1>4, <2>1, <2>2, <2>3, <2>4, <2>5, <2>6, <2>7, <2>8 DEF Recover
<1>5. CASE Open
  BY <1>5 DEF Open, NotBegun
<1>6. CASE Close
  BY <1>6 DEF Close, ForgetsOperations, Ended
<1>7. CASE Crash
  BY <1>7 DEF Crash, ForgetsOperations, Ended, NotBegun
<1>8. ASSUME NEW e \in Extents, Damage(e) PROVE TypeOK'
  <2>1. final[e] \in File
    BY <1>8 DEF Damage
  <2>2. final' \in [Extents -> File \union {None}]
    BY <2>1, <1>8 DEF Damage
  <2>3. durable' \in [Extents -> File \union {None}] /\ damages' \in Nat
    BY <2>2, <1>8 DEF Damage
  <2>. QED
    BY <2>2, <2>3, <1>8 DEF Damage
<1>. QED
  BY <1>2, <1>3, <1>4, <1>5, <1>6, <1>7, <1>8 DEF Next

\* Operations begin in an open store, and end before it is closed or with it.
LEMMA QuietStep ==
    ASSUME IInv, Next
    PROVE  QuietUnlessOpen'
<1>. USE DEF IInv, TypeOK, QuietUnlessOpen, Active, vars, writeVars, readVars,
             storeVars, boundVars, WriterAt, ReaderAt
<1>1. CASE UNCHANGED <<wpc, rpc, store>>
  BY <1>1
<1>2. ASSUME NEW w \in Writes, WriteExtent(w) PROVE QuietUnlessOpen'
  <2>1. CASE ReserveWriter(w)
    BY <2>1, <1>2 DEF ReserveWriter, ExtentOf
  <2>2. CASE AssertWritable(w)
    BY <2>2, <1>2 DEF AssertWritable
  <2>3. CASE CreatePartFile(w)
    BY <2>3, <1>2 DEF CreatePartFile
  <2>4. CASE Verify(w)
    BY <2>4, <1>2 DEF Verify
  <2>5. CASE AssertPublishable(w)
    BY <2>5, <1>2 DEF AssertPublishable
  <2>6. CASE Install(w)
    BY <2>6, <1>2 DEF Install, ExtentOf
  <2>7. CASE SyncInstalled(w)
    BY <2>7, <1>2 DEF SyncInstalled, Sync, ExtentOf
  <2>8. CASE Publish(w)
    BY <2>8, <1>2 DEF Publish, ExtentOf
  <2>9. CASE FinishTerminal(w)
    BY <2>9, <1>2 DEF FinishTerminal
  <2>10. CASE WriteFails(w)
    BY <2>10, <1>2 DEF WriteFails
  <2>11. CASE PublishFails(w)
    BY <2>11, <1>2 DEF PublishFails
  <2>. QED
    BY <1>2, <2>1, <2>2, <2>3, <2>4, <2>5, <2>6, <2>7, <2>8, <2>9, <2>10, <2>11
    DEF WriteExtent
<1>3. ASSUME NEW r \in Reads, OpenRead(r) PROVE QuietUnlessOpen'
  <2>1. CASE BeginReadOperation(r)
    BY <2>1, <1>3 DEF BeginReadOperation
  <2>2. CASE Lookup(r)
    BY <2>2, <1>3 DEF Lookup
  <2>3. CASE OpenChannel(r)
    BY <2>3, <1>3 DEF OpenChannel
  <2>4. CASE QuarantineRow(r)
    BY <2>4, <1>3 DEF QuarantineRow, Quarantine
  <2>5. CASE DeleteRowFile(r)
    BY <2>5, <1>3 DEF DeleteRowFile
  <2>6. CASE SyncDeleted(r)
    BY <2>6, <1>3 DEF SyncDeleted, Sync
  <2>7. CASE CloseHandle(r)
    BY <2>7, <1>3 DEF CloseHandle
  <2>8. CASE ReadFails(r)
    BY <2>8, <1>3 DEF ReadFails
  <2>. QED
    BY <1>3, <2>1, <2>2, <2>3, <2>4, <2>5, <2>6, <2>7, <2>8 DEF OpenRead
<1>4. ASSUME Recover PROVE QuietUnlessOpen'
  <2>1. CASE RecoveryDone
    BY <2>1 DEF RecoveryDone, Orphan, NotBegun
  <2>2. CASE RecoveryFails
    BY <2>2 DEF RecoveryFails, NotBegun
  <2>. QED
    BY <1>1, <1>4, <2>1, <2>2
    DEF Recover, RecoverPart, RecoverRow, Quarantine, DeleteDoomed, Remove,
        DeleteOrphan, SnapshotRows, RowsDone
<1>5. CASE Open
  BY <1>5 DEF Open, NotBegun
<1>6. CASE Close
  BY <1>6 DEF Close, ForgetsOperations, Ended
<1>7. CASE Crash
  BY <1>7 DEF Crash, ForgetsOperations, Ended, NotBegun
<1>. QED
  BY <1>1, <1>2, <1>3, <1>4, <1>5, <1>6, <1>7 DEF Next, Damage

\* A reservation is refused while the extent has an active writer.
LEMMA OneWriterStep ==
    ASSUME IInv, Next
    PROVE  OneWriter'
<1>. USE DEF IInv, TypeOK, OneWriter, Active, vars, writeVars, readVars, storeVars,
             boundVars, WriterAt, ReaderAt
<1>1. CASE UNCHANGED <<wpc>>
  BY <1>1
<1>2. ASSUME NEW w \in Writes, WriteExtent(w) PROVE OneWriter'
  <2>1. CASE ReserveWriter(w)
    BY <2>1, <1>2 DEF ReserveWriter, ExtentOf
  <2>2. CASE AssertWritable(w)
    BY <2>2, <1>2 DEF AssertWritable
  <2>3. CASE CreatePartFile(w)
    BY <2>3, <1>2 DEF CreatePartFile
  <2>4. CASE Verify(w)
    BY <2>4, <1>2 DEF Verify
  <2>5. CASE AssertPublishable(w)
    BY <2>5, <1>2 DEF AssertPublishable
  <2>6. CASE Install(w)
    BY <2>6, <1>2 DEF Install, ExtentOf
  <2>7. CASE SyncInstalled(w)
    BY <2>7, <1>2 DEF SyncInstalled, Sync, ExtentOf
  <2>8. CASE Publish(w)
    BY <2>8, <1>2 DEF Publish, ExtentOf
  <2>9. CASE FinishTerminal(w)
    BY <2>9, <1>2 DEF FinishTerminal
  <2>10. CASE WriteFails(w)
    BY <2>10, <1>2 DEF WriteFails
  <2>11. CASE PublishFails(w)
    BY <2>11, <1>2 DEF PublishFails
  <2>. QED
    BY <1>2, <2>1, <2>2, <2>3, <2>4, <2>5, <2>6, <2>7, <2>8, <2>9, <2>10, <2>11
    DEF WriteExtent
<1>5. CASE Close
  BY <1>5 DEF Close, ForgetsOperations, Ended
<1>6. CASE Crash
  BY <1>6 DEF Crash, ForgetsOperations, Ended, NotBegun
<1>. QED
  BY <1>1, <1>2, <1>5, <1>6
  DEF Next, OpenRead, BeginReadOperation, Lookup, OpenChannel, QuarantineRow,
      Quarantine, DeleteRowFile, SyncDeleted, Sync, CloseHandle, ReadFails, Recover,
      RecoverPart, RecoverRow, DeleteDoomed, Remove, DeleteOrphan, SnapshotRows,
      RowsDone, RecoveryDone, RecoveryFails, Open, Damage

\* What is verified is a content of the right length.
LEMMA ReceivedStep ==
    ASSUME IInv, Next
    PROVE  Received'
<1>. USE DEF IInv, TypeOK, Received, vars, writeVars, readVars, storeVars, boundVars,
             WriterAt, ReaderAt
<1>1. CASE UNCHANGED <<wpc, received>>
  BY <1>1
<1>2. ASSUME NEW w \in Writes, WriteExtent(w) PROVE Received'
  <2>1. CASE ReserveWriter(w)
    BY <2>1, <1>2 DEF ReserveWriter, Active, ExtentOf
  <2>2. CASE AssertWritable(w)
    BY <2>2, <1>2 DEF AssertWritable
  <2>3. CASE CreatePartFile(w)
    BY <2>3, <1>2 DEF CreatePartFile
  <2>4. CASE Verify(w)
    BY <2>4, <1>2 DEF Verify
  <2>5. CASE AssertPublishable(w)
    BY <2>5, <1>2 DEF AssertPublishable
  <2>6. CASE Install(w)
    BY <2>6, <1>2 DEF Install, ExtentOf
  <2>7. CASE SyncInstalled(w)
    BY <2>7, <1>2 DEF SyncInstalled, Sync, ExtentOf
  <2>8. CASE Publish(w)
    BY <2>8, <1>2 DEF Publish, ExtentOf
  <2>9. CASE FinishTerminal(w)
    BY <2>9, <1>2 DEF FinishTerminal
  <2>10. CASE WriteFails(w)
    BY <2>10, <1>2 DEF WriteFails
  <2>11. CASE PublishFails(w)
    BY <2>11, <1>2 DEF PublishFails
  <2>. QED
    BY <1>2, <2>1, <2>2, <2>3, <2>4, <2>5, <2>6, <2>7, <2>8, <2>9, <2>10, <2>11
    DEF WriteExtent
<1>5. CASE Close
  BY <1>5 DEF Close, ForgetsOperations, Ended
<1>6. CASE Crash
  BY <1>6 DEF Crash, ForgetsOperations, Ended, NotBegun
<1>. QED
  BY <1>1, <1>2, <1>5, <1>6
  DEF Next, OpenRead, BeginReadOperation, Lookup, OpenChannel, QuarantineRow,
      Quarantine, DeleteRowFile, SyncDeleted, Sync, CloseHandle, ReadFails, Recover,
      RecoverPart, RecoverRow, DeleteDoomed, Remove, DeleteOrphan, SnapshotRows,
      RowsDone, RecoveryDone, RecoveryFails, Open, Damage

\* Only the one writer of an extent makes its row valid, and what a row holds is never changed.
LEMMA PublishableStep ==
    ASSUME IInv, Next
    PROVE  PublishableStays'
<1>. USE SpecAssumption, ReadAssumption DEF IInv, TypeOK, PublishableStays, OneWriter,
                                            Active, ExtentOf, SpecRecord, Publishable,
                                            Repairable, Row, Published, vars, writeVars,
                                            readVars, storeVars, boundVars, WriterAt,
                                            ReaderAt
<1>1. CASE UNCHANGED <<wpc, rows, received>>
  BY <1>1
<1>2. ASSUME NEW w \in Writes, WriteExtent(w) PROVE PublishableStays'
  <2>1. CASE ReserveWriter(w)
    BY <2>1, <1>2 DEF ReserveWriter
  <2>2. CASE AssertWritable(w)
    BY <2>2, <1>2 DEF AssertWritable
  <2>3. CASE CreatePartFile(w)
    BY <2>3, <1>2 DEF CreatePartFile
  <2>4. CASE Verify(w)
    BY <2>4, <1>2 DEF Verify
  <2>5. CASE AssertPublishable(w)
    BY <2>5, <1>2 DEF AssertPublishable
  <2>6. CASE Install(w)
    BY <2>6, <1>2 DEF Install
  <2>7. CASE SyncInstalled(w)
    BY <2>7, <1>2 DEF SyncInstalled, Sync
  <2>8. CASE Publish(w)
    BY <2>8, <1>2 DEF Publish
  <2>9. CASE FinishTerminal(w)
    BY <2>9, <1>2 DEF FinishTerminal
  <2>10. CASE WriteFails(w)
    BY <2>10, <1>2 DEF WriteFails
  <2>11. CASE PublishFails(w)
    BY <2>11, <1>2 DEF PublishFails
  <2>. QED
    BY <1>2, <2>1, <2>2, <2>3, <2>4, <2>5, <2>6, <2>7, <2>8, <2>9, <2>10, <2>11
    DEF WriteExtent
<1>3. ASSUME NEW r \in Reads, OpenRead(r) PROVE PublishableStays'
  <2>1. CASE QuarantineRow(r)
    BY <2>1, <1>3 DEF QuarantineRow, Quarantine, ReadersKnow
  <2>. QED
    BY <1>1, <1>3, <2>1
    DEF OpenRead, BeginReadOperation, Lookup, OpenChannel, DeleteRowFile, SyncDeleted,
        Sync, CloseHandle, ReadFails
<1>4. ASSUME Recover PROVE PublishableStays'
  <2>1. ASSUME NEW e \in Extents, RecoverRow(e) PROVE PublishableStays'
    BY <2>1 DEF RecoverRow, Quarantine, RecoveryKnows
  <2>. QED
    BY <1>1, <1>4, <2>1
    DEF Recover, RecoverPart, DeleteDoomed, Remove, DeleteOrphan, SnapshotRows,
        RowsDone, RecoveryDone, RecoveryFails
<1>5. CASE Close
  BY <1>5 DEF Close, ForgetsOperations, Ended
<1>6. CASE Crash
  BY <1>6 DEF Crash, ForgetsOperations, Ended, NotBegun
<1>. QED
  BY <1>1, <1>2, <1>3, <1>4, <1>5, <1>6 DEF Next, Open, Damage

\* A file is installed under the digest of its row, and the row written under the digest of its file.
LEMMA FilesMatchStep ==
    ASSUME IInv, Next
    PROVE  FilesMatchRows'
<1>. USE SpecAssumption, ReadAssumption, NoneAssumption DEF IInv, TypeOK,
                                                            FilesMatchRows, ExtentOf,
                                                            SpecRecord, Row, File, vars,
                                                            writeVars, readVars,
                                                            storeVars, boundVars,
                                                            WriterAt, ReaderAt
<1>1. CASE UNCHANGED <<rows, final, durable>>
  BY <1>1
<1>2. ASSUME NEW w \in Writes, WriteExtent(w) PROVE FilesMatchRows'
  <2>1. CASE Install(w)
    BY <2>1, <1>2 DEF Install, PublishableStays, Publishable
  <2>2. CASE SyncInstalled(w)
    BY <2>2, <1>2 DEF SyncInstalled, Sync
  <2>3. CASE Publish(w)
    BY <2>3, <1>2 DEF Publish, InstalledMatches
  <2>. QED
    BY <1>1, <1>2, <2>1, <2>2, <2>3
    DEF WriteExtent, ReserveWriter, AssertWritable, CreatePartFile, Verify,
        AssertPublishable, FinishTerminal, WriteFails, PublishFails
<1>3. ASSUME NEW r \in Reads, OpenRead(r) PROVE FilesMatchRows'
  <2>1. CASE QuarantineRow(r)
    BY <2>1, <1>3 DEF QuarantineRow, Quarantine, ReadersKnow
  <2>2. CASE DeleteRowFile(r)
    BY <2>2, <1>3 DEF DeleteRowFile
  <2>3. CASE SyncDeleted(r)
    BY <2>3, <1>3 DEF SyncDeleted, Sync
  <2>. QED
    BY <1>1, <1>3, <2>1, <2>2, <2>3
    DEF OpenRead, BeginReadOperation, Lookup, OpenChannel, CloseHandle, ReadFails
<1>4. ASSUME Recover PROVE FilesMatchRows'
  <2>1. ASSUME NEW e \in Extents, RecoverRow(e) PROVE FilesMatchRows'
    BY <2>1 DEF RecoverRow, Quarantine, Published, RecoveryKnows
  <2>2. ASSUME NEW e \in Extents, DeleteDoomed(e) PROVE FilesMatchRows'
    BY <2>2 DEF DeleteDoomed, Remove
  <2>3. ASSUME NEW e \in Extents, DeleteOrphan(e) PROVE FilesMatchRows'
    BY <2>3 DEF DeleteOrphan, Remove, Orphan
  <2>. QED
    BY <1>1, <1>4, <2>1, <2>2, <2>3
    DEF Recover, RecoverPart, SnapshotRows, RowsDone, RecoveryDone, RecoveryFails
<1>5. CASE Crash
  BY <1>5 DEF Crash, ForgetsOperations, Ended, NotBegun
<1>6. ASSUME NEW e \in Extents, Damage(e) PROVE FilesMatchRows'
  BY <1>6 DEF Damage, Published
<1>. QED
  BY <1>1, <1>2, <1>3, <1>4, <1>5, <1>6 DEF Next, Open, Close, ForgetsOperations

\* Between rename and row the file is the one its writer verified.
LEMMA InstalledStep ==
    ASSUME IInv, Next
    PROVE  InstalledMatches'
<1>. USE SpecAssumption, ReadAssumption, NoneAssumption DEF IInv, TypeOK,
                                                            InstalledMatches, OneWriter,
                                                            Active, ExtentOf,
                                                            SpecRecord, File, vars,
                                                            writeVars, readVars,
                                                            storeVars, boundVars,
                                                            WriterAt, ReaderAt
<1>1. CASE UNCHANGED <<wpc, final, durable, received>>
  BY <1>1
<1>2. ASSUME NEW w \in Writes, WriteExtent(w) PROVE InstalledMatches'
  <2>1. CASE ReserveWriter(w)
    BY <2>1, <1>2 DEF ReserveWriter
  <2>2. CASE AssertWritable(w)
    BY <2>2, <1>2 DEF AssertWritable
  <2>3. CASE CreatePartFile(w)
    BY <2>3, <1>2 DEF CreatePartFile
  <2>4. CASE Verify(w)
    BY <2>4, <1>2 DEF Verify
  <2>5. CASE AssertPublishable(w)
    BY <2>5, <1>2 DEF AssertPublishable
  <2>6. CASE Install(w)
    BY <2>6, <1>2 DEF Install
  <2>7. CASE SyncInstalled(w)
    BY <2>7, <1>2 DEF SyncInstalled, Sync
  <2>8. CASE Publish(w)
    BY <2>8, <1>2 DEF Publish
  <2>9. CASE FinishTerminal(w)
    BY <2>9, <1>2 DEF FinishTerminal
  <2>10. CASE WriteFails(w)
    BY <2>10, <1>2 DEF WriteFails
  <2>11. CASE PublishFails(w)
    BY <2>11, <1>2 DEF PublishFails
  <2>. QED
    BY <1>2, <2>1, <2>2, <2>3, <2>4, <2>5, <2>6, <2>7, <2>8, <2>9, <2>10, <2>11
    DEF WriteExtent
<1>3. ASSUME NEW r \in Reads, OpenRead(r) PROVE InstalledMatches'
  <2>1. CASE DeleteRowFile(r)
    BY <2>1, <1>3 DEF DeleteRowFile
  <2>2. CASE SyncDeleted(r)
    BY <2>2, <1>3 DEF SyncDeleted, Sync
  <2>. QED
    BY <1>1, <1>3, <2>1, <2>2
    DEF OpenRead, BeginReadOperation, Lookup, OpenChannel, QuarantineRow, Quarantine,
        CloseHandle, ReadFails
<1>4. ASSUME Recover PROVE InstalledMatches'
  <2>1. ASSUME NEW e \in Extents, DeleteDoomed(e) PROVE InstalledMatches'
    BY <2>1 DEF DeleteDoomed, Remove
  <2>2. ASSUME NEW e \in Extents, DeleteOrphan(e) PROVE InstalledMatches'
    BY <2>2 DEF DeleteOrphan, Remove, Orphan
  <2>. QED
    BY <1>1, <1>4, <2>1, <2>2
    DEF Recover, RecoverPart, RecoverRow, Quarantine, SnapshotRows, RowsDone,
        RecoveryDone, RecoveryFails
<1>5. CASE Close
  BY <1>5 DEF Close, ForgetsOperations, Ended
<1>6. CASE Crash
  BY <1>6 DEF Crash, ForgetsOperations, Ended, NotBegun
<1>7. ASSUME NEW e \in Extents, Damage(e) PROVE InstalledMatches'
  BY <1>7 DEF Damage, Published
<1>. QED
  BY <1>1, <1>2, <1>3, <1>4, <1>5, <1>6, <1>7 DEF Next, Open

\* A row is written after the directory of its file was synced.
LEMMA DurableStep ==
    ASSUME IInv, Next
    PROVE  PublishedIsDurable'
<1>. USE SpecAssumption, ReadAssumption, NoneAssumption DEF IInv, TypeOK,
                                                            PublishedIsDurable,
                                                            OneWriter, Active, ExtentOf,
                                                            SpecRecord, Published, Row,
                                                            File, vars, writeVars,
                                                            readVars, storeVars,
                                                            boundVars, WriterAt,
                                                            ReaderAt
<1>1. CASE UNCHANGED <<rows, wpc, final, durable>>
  BY <1>1
<1>2. ASSUME NEW w \in Writes, WriteExtent(w) PROVE PublishedIsDurable'
  <2>1. CASE ReserveWriter(w)
    BY <2>1, <1>2 DEF ReserveWriter
  <2>2. CASE AssertWritable(w)
    BY <2>2, <1>2 DEF AssertWritable
  <2>3. CASE CreatePartFile(w)
    BY <2>3, <1>2 DEF CreatePartFile
  <2>4. CASE Verify(w)
    BY <2>4, <1>2 DEF Verify
  <2>5. CASE AssertPublishable(w)
    BY <2>5, <1>2 DEF AssertPublishable
  <2>6. CASE Install(w)
    <3>1. ~Published(ExtentOf(w))
      BY <2>6, <1>2 DEF Install, PublishableStays, Publishable, Repairable
    <3>2. \A v \in Writes : ExtentOf(v) = ExtentOf(w) => wpc[v] # "synced"
      BY <2>6, <1>2 DEF Install
    <3>. QED
      BY <3>1, <3>2, <2>6, <1>2 DEF Install
  <2>7. CASE SyncInstalled(w)
    BY <2>7, <1>2 DEF SyncInstalled, Sync
  <2>8. CASE Publish(w)
    BY <2>8, <1>2 DEF Publish
  <2>9. CASE FinishTerminal(w)
    BY <2>9, <1>2 DEF FinishTerminal
  <2>10. CASE WriteFails(w)
    BY <2>10, <1>2 DEF WriteFails
  <2>11. CASE PublishFails(w)
    BY <2>11, <1>2 DEF PublishFails
  <2>. QED
    BY <1>2, <2>1, <2>2, <2>3, <2>4, <2>5, <2>6, <2>7, <2>8, <2>9, <2>10, <2>11
    DEF WriteExtent
<1>3. ASSUME NEW r \in Reads, OpenRead(r) PROVE PublishedIsDurable'
  <2>1. CASE QuarantineRow(r)
    BY <2>1, <1>3 DEF QuarantineRow, Quarantine, ReadersKnow
  <2>2. CASE DeleteRowFile(r)
    BY <2>2, <1>3 DEF DeleteRowFile
  <2>3. CASE SyncDeleted(r)
    BY <2>3, <1>3 DEF SyncDeleted, Sync
  <2>. QED
    BY <1>1, <1>3, <2>1, <2>2, <2>3
    DEF OpenRead, BeginReadOperation, Lookup, OpenChannel, CloseHandle, ReadFails
<1>4. ASSUME Recover PROVE PublishedIsDurable'
  <2>1. ASSUME NEW e \in Extents, RecoverRow(e) PROVE PublishedIsDurable'
    BY <2>1 DEF RecoverRow, Quarantine, RecoveryKnows
  <2>2. ASSUME NEW e \in Extents, DeleteDoomed(e) PROVE PublishedIsDurable'
    BY <2>2 DEF DeleteDoomed, Remove
  <2>3. ASSUME NEW e \in Extents, DeleteOrphan(e) PROVE PublishedIsDurable'
    BY <2>3 DEF DeleteOrphan, Remove, Orphan
  <2>. QED
    BY <1>1, <1>4, <2>1, <2>2, <2>3
    DEF Recover, RecoverPart, SnapshotRows, RowsDone, RecoveryDone, RecoveryFails
<1>5. CASE Close
  BY <1>5 DEF Close, ForgetsOperations, Ended
<1>6. CASE Crash
  BY <1>6 DEF Crash, ForgetsOperations, Ended, NotBegun
<1>7. ASSUME NEW e \in Extents, Damage(e) PROVE PublishedIsDurable'
  BY <1>7 DEF Damage
<1>. QED
  BY <1>1, <1>2, <1>3, <1>4, <1>5, <1>6, <1>7 DEF Next, Open

\* Files are moved, removed and made whole; only Damage() changes one in place.
LEMMA HarmStep ==
    ASSUME IInv, Next
    PROVE  HarmIsDamage'
<1>. USE SpecAssumption, ReadAssumption, NoneAssumption
     DEF IInv, TypeOK, HarmIsDamage, ExtentOf, SpecRecord, vars, writeVars, readVars,
         storeVars, boundVars, WriterAt, ReaderAt
<1>1. CASE UNCHANGED <<final, durable, seen, damages>>
  BY <1>1
<1>2. ASSUME NEW w \in Writes, WriteExtent(w) PROVE HarmIsDamage'
  <2>1. CASE Install(w)
    BY <2>1, <1>2 DEF Install
  <2>2. CASE SyncInstalled(w)
    BY <2>2, <1>2 DEF SyncInstalled, Sync
  <2>. QED
    BY <1>1, <1>2, <2>1, <2>2
    DEF WriteExtent, ReserveWriter, AssertWritable, CreatePartFile, Verify,
        AssertPublishable, Publish, FinishTerminal, WriteFails, PublishFails
<1>3. ASSUME NEW r \in Reads, OpenRead(r) PROVE HarmIsDamage'
  <2>1. CASE OpenChannel(r)
    BY <2>1, <1>3 DEF OpenChannel
  <2>2. CASE DeleteRowFile(r)
    BY <2>2, <1>3 DEF DeleteRowFile
  <2>3. CASE SyncDeleted(r)
    BY <2>3, <1>3 DEF SyncDeleted, Sync
  <2>. QED
    BY <1>1, <1>3, <2>1, <2>2, <2>3
    DEF OpenRead, BeginReadOperation, Lookup, QuarantineRow, CloseHandle, ReadFails
<1>4. ASSUME Recover PROVE HarmIsDamage'
  <2>1. ASSUME NEW e \in Extents, DeleteDoomed(e) \/ DeleteOrphan(e) PROVE HarmIsDamage'
    BY <2>1 DEF DeleteDoomed, DeleteOrphan, Remove
  <2>. QED
    BY <1>1, <1>4, <2>1
    DEF Recover, RecoverPart, RecoverRow, SnapshotRows, RowsDone, RecoveryDone,
        RecoveryFails
<1>5. CASE Crash
  BY <1>5 DEF Crash
<1>6. ASSUME NEW e \in Extents, Damage(e) PROVE HarmIsDamage'
  BY <1>6 DEF Damage
<1>. QED
  BY <1>1, <1>2, <1>3, <1>4, <1>5, <1>6 DEF Next, Open, Close

\* A reader's digest stays that of the row, and so that of any file it finds.
LEMMA ReadersStep ==
    ASSUME IInv, Next
    PROVE  ReadersKnow'
<1>. USE SpecAssumption, ReadAssumption, NoneAssumption DEF IInv, TypeOK, ReadersKnow,
                                                            Admissible, Row, vars,
                                                            writeVars, readVars,
                                                            storeVars, boundVars,
                                                            WriterAt, ReaderAt
<1>1. CASE UNCHANGED <<rpc, rows, looked, seen>>
  BY <1>1
<1>2. ASSUME NEW w \in Writes, WriteExtent(w) PROVE ReadersKnow'
  <2>1. CASE Publish(w)
    <3>1. \A f \in Extents : rows[f] # None =>
              rows'[f] # None /\ rows'[f].content = rows[f].content
      BY <2>1, <1>2, PublishWrites
    <3>2. UNCHANGED <<rpc, looked, seen>>
      BY <2>1 DEF Publish
    <3>. QED
      BY <3>1, <3>2
  <2>. QED
    BY <1>1, <1>2, <2>1
    DEF WriteExtent, ReserveWriter, AssertWritable, CreatePartFile, Verify,
        AssertPublishable, Install, SyncInstalled, Sync, FinishTerminal, WriteFails,
        PublishFails
<1>3. ASSUME NEW r \in Reads, OpenRead(r) PROVE ReadersKnow'
  <2>1. CASE BeginReadOperation(r)
    BY <2>1, <1>3 DEF BeginReadOperation
  <2>2. CASE Lookup(r)
    BY <2>2, <1>3 DEF Lookup, Published
  <2>3. CASE OpenChannel(r)
    BY <2>3, <1>3 DEF OpenChannel, FilesMatchRows
  <2>4. CASE QuarantineRow(r)
    <3>1. ReadOf[r] \in Extents /\ rows[ReadOf[r]] # None /\ Quarantine(ReadOf[r])
      BY <2>4, <1>3 DEF QuarantineRow
    <3>. QED
      BY <3>1, <2>4, <1>3, QuarantineKeeps DEF QuarantineRow
  <2>5. CASE DeleteRowFile(r)
    BY <2>5, <1>3 DEF DeleteRowFile
  <2>6. CASE SyncDeleted(r)
    BY <2>6, <1>3 DEF SyncDeleted, Sync
  <2>7. CASE CloseHandle(r)
    BY <2>7, <1>3 DEF CloseHandle
  <2>8. CASE ReadFails(r)
    BY <2>8, <1>3 DEF ReadFails
  <2>. QED
    BY <1>3, <2>1, <2>2, <2>3, <2>4, <2>5, <2>6, <2>7, <2>8 DEF OpenRead
<1>4. ASSUME Recover PROVE ReadersKnow'
  <2>1. ASSUME NEW e \in Extents, RecoverRow(e) PROVE ReadersKnow'
    <3>1. UNCHANGED rows \/ (rows[e] # None /\ Quarantine(e))
      BY <2>1 DEF RecoverRow, RecoveryKnows
    <3>. QED
      BY <3>1, <2>1, QuarantineKeeps DEF RecoverRow
  <2>. QED
    BY <1>1, <1>4, <2>1
    DEF Recover, RecoverPart, DeleteDoomed, Remove, DeleteOrphan, SnapshotRows,
        RowsDone, RecoveryDone, RecoveryFails
<1>5. CASE Close
  BY <1>5 DEF Close, ForgetsOperations, Ended
<1>6. CASE Crash
  BY <1>6 DEF Crash, ForgetsOperations, Ended, NotBegun
<1>. QED
  BY <1>1, <1>2, <1>3, <1>4, <1>5, <1>6 DEF Next, Open, Damage

\* Recovery keeps what it has validated, and alone changes rows and files.
LEMMA RecoveryStep ==
    ASSUME IInv, Next
    PROVE  RecoveryKnows'
<1>. USE NoneAssumption DEF IInv, TypeOK, RecoveryKnows, RecoveryRecord, Published,
                            Intact, Validates, Row, File, vars, writeVars, readVars,
                            storeVars, boundVars, WriterAt, ReaderAt
<1>1. CASE UNCHANGED <<store, recovery, parts, rows, final>>
  BY <1>1
<1>2. ASSUME NEW w \in Writes, WriteExtent(w) PROVE RecoveryKnows'
  <2>1. CASE CreatePartFile(w)
    BY <2>1, <1>2 DEF CreatePartFile, QuietUnlessOpen, Active
  <2>2. CASE Install(w)
    BY <2>2, <1>2 DEF Install, ExtentOf, QuietUnlessOpen, Active
  <2>3. CASE Publish(w)
    BY <2>3, <1>2 DEF Publish, ExtentOf, QuietUnlessOpen, Active
  <2>4. CASE WriteFails(w)
    BY <2>4, <1>2 DEF WriteFails, QuietUnlessOpen, Active
  <2>. QED
    BY <1>1, <1>2, <2>1, <2>2, <2>3, <2>4
    DEF WriteExtent, ReserveWriter, AssertWritable, Verify, AssertPublishable,
        SyncInstalled, Sync, FinishTerminal, PublishFails
<1>3. ASSUME NEW r \in Reads, OpenRead(r) PROVE RecoveryKnows'
  <2>1. CASE QuarantineRow(r)
    BY <2>1, <1>3 DEF QuarantineRow, Quarantine, QuietUnlessOpen, Active
  <2>2. CASE DeleteRowFile(r)
    BY <2>2, <1>3 DEF DeleteRowFile, QuietUnlessOpen, Active
  <2>. QED
    BY <1>1, <1>3, <2>1, <2>2
    DEF OpenRead, BeginReadOperation, Lookup, OpenChannel, SyncDeleted, Sync,
        CloseHandle, ReadFails
<1>4. ASSUME Recover PROVE RecoveryKnows'
  <2>1. ASSUME NEW w \in Writes, RecoverPart(w) PROVE RecoveryKnows'
    BY <2>1 DEF RecoverPart
  <2>2. ASSUME NEW e \in Extents, RecoverRow(e) PROVE RecoveryKnows'
    BY <2>2 DEF RecoverRow, Quarantine
  <2>3. ASSUME NEW e \in Extents, DeleteDoomed(e) PROVE RecoveryKnows'
    BY <2>3 DEF DeleteDoomed, Remove
  <2>4. ASSUME NEW e \in Extents, DeleteOrphan(e) PROVE RecoveryKnows'
    BY <2>4 DEF DeleteOrphan, Remove, Orphan
  <2>5. CASE SnapshotRows
    BY <2>5 DEF SnapshotRows
  <2>6. CASE RowsDone
    BY <2>6 DEF RowsDone
  <2>7. CASE RecoveryDone
    BY <2>7 DEF RecoveryDone, Orphan, NotBegun
  <2>8. CASE RecoveryFails
    BY <2>8 DEF RecoveryFails, NotBegun
  <2>. QED
    BY <1>4, <2>1, <2>2, <2>3, <2>4, <2>5, <2>6, <2>7, <2>8 DEF Recover
<1>5. CASE Open
  BY <1>5 DEF Open, NotBegun
<1>6. CASE Close
  BY <1>6 DEF Close, ForgetsOperations, Ended
<1>7. CASE Crash
  BY <1>7 DEF Crash, ForgetsOperations, Ended, NotBegun
<1>8. ASSUME NEW e \in Extents, Damage(e) PROVE RecoveryKnows'
  BY <1>8 DEF Damage
<1>. QED
  BY <1>2, <1>3, <1>4, <1>5, <1>6, <1>7, <1>8 DEF Next

\* A file without a valid row has an operation that is bringing or removing it.
LEMMA OwnedStep ==
    ASSUME IInv, Next
    PROVE  FilesAreOwned'
<1>. USE SpecAssumption, ReadAssumption, NoneAssumption DEF IInv, TypeOK, FilesAreOwned,
                                                            Published, ExtentOf,
                                                            SpecRecord, Row, File, vars,
                                                            writeVars, readVars,
                                                            storeVars, boundVars,
                                                            WriterAt, ReaderAt
<1>1. CASE UNCHANGED <<store, rows, final, wpc, rpc>>
  BY <1>1
<1>2. ASSUME NEW w \in Writes, WriteExtent(w) PROVE FilesAreOwned'
  <2>1. CASE ReserveWriter(w)
    BY <2>1, <1>2 DEF ReserveWriter, Active
  <2>2. CASE AssertWritable(w)
    BY <2>2, <1>2 DEF AssertWritable
  <2>3. CASE CreatePartFile(w)
    BY <2>3, <1>2 DEF CreatePartFile
  <2>4. CASE Verify(w)
    BY <2>4, <1>2 DEF Verify
  <2>5. CASE AssertPublishable(w)
    BY <2>5, <1>2 DEF AssertPublishable
  <2>6. CASE Install(w)
    BY <2>6, <1>2 DEF Install
  <2>7. CASE SyncInstalled(w)
    BY <2>7, <1>2 DEF SyncInstalled, Sync
  <2>8. CASE Publish(w)
    <3>1. \A e \in Extents : ~Published(e)' => e # ExtentOf(w) /\ ~Published(e)
      BY <2>8, <1>2, PublishWrites
    <3>. QED
      BY <3>1, <2>8, <1>2 DEF Publish
  <2>9. CASE FinishTerminal(w)
    BY <2>9, <1>2 DEF FinishTerminal
  <2>10. CASE WriteFails(w)
    BY <2>10, <1>2 DEF WriteFails
  <2>11. CASE PublishFails(w)
    BY <2>11, <1>2 DEF PublishFails
  <2>. QED
    BY <1>2, <2>1, <2>2, <2>3, <2>4, <2>5, <2>6, <2>7, <2>8, <2>9, <2>10, <2>11
    DEF WriteExtent
<1>3. ASSUME NEW r \in Reads, OpenRead(r) PROVE FilesAreOwned'
  <2>1. CASE BeginReadOperation(r)
    BY <2>1, <1>3 DEF BeginReadOperation
  <2>2. CASE Lookup(r)
    BY <2>2, <1>3 DEF Lookup
  <2>3. CASE OpenChannel(r)
    BY <2>3, <1>3 DEF OpenChannel
  <2>4. CASE QuarantineRow(r)
    BY <2>4, <1>3 DEF QuarantineRow, Quarantine, ReadersKnow
  <2>5. CASE DeleteRowFile(r)
    BY <2>5, <1>3 DEF DeleteRowFile
  <2>6. CASE SyncDeleted(r)
    BY <2>6, <1>3 DEF SyncDeleted, Sync
  <2>7. CASE CloseHandle(r)
    BY <2>7, <1>3 DEF CloseHandle
  <2>8. CASE ReadFails(r)
    BY <2>8, <1>3 DEF ReadFails
  <2>. QED
    BY <1>3, <2>1, <2>2, <2>3, <2>4, <2>5, <2>6, <2>7, <2>8 DEF OpenRead
<1>4. ASSUME Recover PROVE FilesAreOwned'
  <2>1. ASSUME NEW e \in Extents, RecoverRow(e) PROVE FilesAreOwned'
    BY <2>1 DEF RecoverRow, Quarantine
  <2>2. ASSUME NEW e \in Extents, DeleteDoomed(e) PROVE FilesAreOwned'
    BY <2>2 DEF DeleteDoomed, Remove
  <2>3. ASSUME NEW e \in Extents, DeleteOrphan(e) PROVE FilesAreOwned'
    BY <2>3 DEF DeleteOrphan, Remove, Orphan
  <2>4. CASE RecoveryDone
    BY <2>4 DEF RecoveryDone, Orphan, NotBegun, RecoveryKnows, Intact
  <2>5. CASE RecoveryFails
    BY <2>5 DEF RecoveryFails, NotBegun
  <2>. QED
    BY <1>1, <1>4, <2>1, <2>2, <2>3, <2>4, <2>5
    DEF Recover, RecoverPart, SnapshotRows, RowsDone
<1>5. CASE Open
  BY <1>5 DEF Open, NotBegun
<1>6. CASE Close
  BY <1>6 DEF Close, ForgetsOperations, Ended
<1>7. CASE Crash
  BY <1>7 DEF Crash, ForgetsOperations, Ended, NotBegun
<1>8. ASSUME NEW e \in Extents, Damage(e) PROVE FilesAreOwned'
  BY <1>8 DEF Damage
<1>. QED
  BY <1>2, <1>3, <1>4, <1>5, <1>6, <1>7, <1>8 DEF Next

-------------------------------------------------------------------------------
LEMMA InitIInv == Init => IInv
BY NoneAssumption, ReadAssumption
DEF Init, NotBegun, IInv, TypeOK, QuietUnlessOpen, OneWriter, Received, PublishableStays,
    FilesMatchRows, InstalledMatches, PublishedIsDurable, ReadersKnow, HarmIsDamage,
    RecoveryKnows, FilesAreOwned, Active, RecoveryRecord, WritePlaces, ReadPlaces, Published

LEMMA StutterIInv ==
    ASSUME IInv, UNCHANGED vars
    PROVE  IInv'
<1>. USE DEF vars, writeVars, readVars, storeVars, boundVars
<1>1. TypeOK'
  BY DEF IInv, TypeOK
<1>2. QuietUnlessOpen' /\ OneWriter' /\ Received'
  BY DEF IInv, QuietUnlessOpen, OneWriter, Received, Active
<1>3. PublishableStays'
  BY DEF IInv, PublishableStays, Publishable, Repairable
<1>4. FilesMatchRows' /\ InstalledMatches' /\ PublishedIsDurable'
  BY DEF IInv, FilesMatchRows, InstalledMatches, PublishedIsDurable, Published
<1>5. ReadersKnow' /\ HarmIsDamage' /\ FilesAreOwned'
  BY DEF IInv, ReadersKnow, HarmIsDamage, FilesAreOwned, Published
<1>6. RecoveryKnows'
  BY DEF IInv, RecoveryKnows, Intact, Validates, Published
<1>. QED
  BY <1>1, <1>2, <1>3, <1>4, <1>5, <1>6 DEF IInv

LEMMA Inductive == Spec => []IInv
<1>1. ASSUME IInv, Next PROVE IInv'
  BY <1>1, TypeStep, QuietStep, OneWriterStep, ReceivedStep, PublishableStep,
     FilesMatchStep, InstalledStep, DurableStep, ReadersStep, HarmStep, RecoveryStep,
     OwnedStep
  DEF IInv
<1>2. IInv /\ [Next]_vars => IInv'
  BY <1>1, StutterIInv
<1>. QED
  BY <1>2, InitIInv, PTL DEF Spec

\* Every variable keeps its type: rows are rows, files are files of some write, and every
\* operation and recovery stands where the code has a place for it.
THEOREM TypeCorrect == Spec => []TypeOK
<1>1. IInv => TypeOK
  BY DEF IInv
<1>. QED
  BY <1>1, Inductive, PTL

\* A file that no row publishes is being brought or removed by some operation, unless one
\* failed after the rename or after the quarantine: quarantine leaves an extent repairable.
THEOREM FilesOwned == Spec => []FilesAreOwned
<1>1. IInv => FilesAreOwned
  BY DEF IInv
<1>. QED
  BY <1>1, Inductive, PTL

\* The file a handle is opened on is of the version its row named, whatever was
\* quarantined, deleted or repaired between the row and the file, and has that version's
\* bytes unless it was struck from outside and kept its length.
THEOREM HandlesHoldTheirVersion == Spec => []HandleHoldsItsVersion
<1>1. ASSUME IInv, NEW r \in Reads, rpc[r] = "holding"
      PROVE  /\ seen[r].content = looked[r]
             /\ seen[r].harm = "none" \/ (seen[r].harm = "digest" /\ damages > 0)
  <2>1. Admissible(seen[r]) /\ seen[r].content = looked[r]
    BY <1>1 DEF IInv, ReadersKnow
  <2>2. seen[r] \in File /\ seen[r].harm # "length"
    BY <1>1, <2>1 DEF IInv, TypeOK, Admissible
  <2>3. seen[r].harm \in {"none", "digest"}
    BY <2>2 DEF File
  <2>4. seen[r].harm # "none" => damages # 0
    BY <1>1, <2>1 DEF IInv, HarmIsDamage, Admissible
  <2>. QED
    BY <1>1, <2>1, <2>3, <2>4 DEF IInv, TypeOK
<1>2. IInv => HandleHoldsItsVersion
  BY <1>1 DEF HandleHoldsItsVersion
<1>. QED
  BY <1>2, Inductive, PTL

\* A reader that condemns a file it has not seen changed condemns a file that is wrong.
LEMMA CondemnedIsWrong ==
    ASSUME IInv, NEW r \in Reads, rpc[r] \in {"condemning", "deleting"}, Intact(ReadOf[r])
    PROVE  CondemnsAnother(r, ReadOf[r])
<1>1. ~Admissible(seen[r])
  BY DEF IInv, ReadersKnow
<1>2. Admissible(final[ReadOf[r]])
  BY DEF Intact, Validates, Admissible
<1>. QED
  BY <1>1, <1>2 DEF CondemnsAnother

\* An intact extent survives every step of every writer, of recovery and of a crash: only
\* damage ends it, or a reader whose picture of the file is older than its repair.
THEOREM CommittedSurvives == Spec => SoundUntilStruck
<1>. DEFINE Kept(e) == Intact(e) => Intact(e)' \/ damages' # damages
                                   \/ \E r \in Reads : CondemnsAnother(r, e)
<1>1. ASSUME IInv, Next, NEW e \in Extents, Intact(e) PROVE Kept(e)
  <2>. USE <1>1 DEF Intact, Validates, Published,
           vars, writeVars, readVars, storeVars, boundVars, WriterAt, ReaderAt
  <2>1. CASE UNCHANGED <<rows, final>>
    BY <2>1
  <2>2. ASSUME NEW w \in Writes, WriteExtent(w) PROVE Kept(e)
    <3>1. CASE Install(w)
      <4>1. e # ExtentOf(w)
        BY <3>1 DEF Install
      <4>. QED
        BY <4>1, <3>1 DEF Install, IInv, TypeOK
    <3>2. CASE Publish(w)
      <4>1. e # ExtentOf(w)
        BY <3>2 DEF Publish, Publishable, Repairable
      <4>. QED
        BY <4>1, <3>2 DEF Publish, IInv, TypeOK
    <3>. QED
      BY <2>1, <2>2, <3>1, <3>2
      DEF WriteExtent, ReserveWriter, AssertWritable, CreatePartFile, Verify,
          AssertPublishable, SyncInstalled, FinishTerminal, WriteFails, PublishFails
  <2>3. ASSUME NEW r \in Reads, OpenRead(r) PROVE Kept(e)
    <3>1. CASE QuarantineRow(r)
      <4>1. CASE ReadOf[r] = e
        BY <3>1, <4>1, CondemnedIsWrong DEF QuarantineRow
      <4>2. CASE ReadOf[r] # e
        BY <3>1, <4>2 DEF QuarantineRow, Quarantine, IInv, TypeOK
      <4>. QED
        BY <4>1, <4>2
    <3>2. CASE DeleteRowFile(r)
      <4>1. CASE ReadOf[r] = e
        BY <3>2, <4>1, CondemnedIsWrong DEF DeleteRowFile
      <4>2. CASE ReadOf[r] # e
        BY <3>2, <4>2 DEF DeleteRowFile, IInv, TypeOK
      <4>. QED
        BY <4>1, <4>2
    <3>. QED
      BY <2>1, <2>3, <3>1, <3>2
      DEF OpenRead, BeginReadOperation, Lookup, OpenChannel, SyncDeleted, CloseHandle, ReadFails
  <2>4. ASSUME Recover PROVE Kept(e)
    <3>1. ASSUME NEW f \in Extents, RecoverRow(f) PROVE Kept(e)
      <4>1. CASE f = e
        BY <3>1, <4>1 DEF RecoverRow
      <4>2. CASE f # e
        BY <3>1, <4>2 DEF RecoverRow, Quarantine, IInv, TypeOK
      <4>. QED
        BY <4>1, <4>2
    <3>2. ASSUME NEW f \in Extents, DeleteDoomed(f) PROVE Kept(e)
      <4>1. f # e
        BY <3>2 DEF DeleteDoomed, IInv, RecoveryKnows
      <4>. QED
        BY <3>2, <4>1 DEF DeleteDoomed, Remove, IInv, TypeOK
    <3>3. ASSUME NEW f \in Extents, DeleteOrphan(f) PROVE Kept(e)
      <4>1. f # e
        BY <3>3 DEF DeleteOrphan, Orphan, IInv, RecoveryKnows
      <4>. QED
        BY <3>3, <4>1 DEF DeleteOrphan, Remove, IInv, TypeOK
    <3>. QED
      BY <2>1, <2>4, <3>1, <3>2, <3>3
      DEF Recover, RecoverPart, SnapshotRows, RowsDone, RecoveryDone, RecoveryFails
  <2>5. CASE Crash
    <3>1. durable[e] = final[e]
      BY DEF IInv, PublishedIsDurable
    <3>. QED
      BY <2>5, <3>1 DEF Crash
  <2>6. ASSUME NEW f \in Extents, Damage(f) PROVE Kept(e)
    BY <2>6 DEF Damage, IInv, TypeOK
  <2>. QED
    BY <2>1, <2>2, <2>3, <2>4, <2>5, <2>6 DEF Next, Open, Close
<1>2. ASSUME IInv, Next
      PROVE  \A e \in Extents : Intact(e) /\ ~Intact(e)' =>
                 \/ damages' # damages
                 \/ \E r \in Reads : CondemnsAnother(r, e)
  BY <1>1, <1>2
<1>. QED
  BY <1>2, Inductive, PTL DEF Spec, SoundUntilStruck

\* When open() returns a store, what is published is there and validates, and nothing else
\* is: no partial file, and no file that would refuse a later write.
THEOREM RecoveryIsSound == Spec => RecoveredIsSound
<1>1. ASSUME IInv, Next, store = "recovering", store' = "open"
      PROVE  /\ parts' = {}
             /\ \A e \in Extents : Intact(e)' \/ (~Published(e)' /\ final'[e] = None)
  <2>. USE DEF vars, writeVars, readVars, storeVars, boundVars
  <2>1. RecoveryDone
    <3>1. \A w \in Writes : ~WriteExtent(w)
      BY <1>1
      DEF IInv, QuietUnlessOpen, Active, WriteExtent, ReserveWriter, AssertWritable,
          CreatePartFile, Verify, AssertPublishable, Install, SyncInstalled, Publish,
          FinishTerminal, WriteFails, PublishFails
    <3>2. \A r \in Reads : ~OpenRead(r)
      BY <1>1
      DEF IInv, QuietUnlessOpen, OpenRead, BeginReadOperation, Lookup, OpenChannel,
          QuarantineRow, DeleteRowFile, SyncDeleted, CloseHandle, ReadFails
    <3>. QED
      BY <1>1, <3>1, <3>2
      DEF Next, Open, Close, Crash, Damage, Recover, RecoverPart, RecoverRow, DeleteDoomed,
          DeleteOrphan, SnapshotRows, RowsDone, RecoveryFails
  <2>2. UNCHANGED <<parts, rows, final>> /\ recovery.phase = "orphans"
    BY <2>1 DEF RecoveryDone
  <2>3. parts = {}
    BY <1>1, <2>2 DEF IInv, RecoveryKnows
  <2>4. ASSUME NEW e \in Extents PROVE Intact(e) \/ (~Published(e) /\ final[e] = None)
    <3>1. CASE e \in recovery.kept
      BY <1>1, <3>1 DEF IInv, RecoveryKnows
    <3>2. CASE e \notin recovery.kept
      <4>1. final[e] = None
        BY <2>1, <3>2 DEF RecoveryDone, Orphan
      <4>2. ~Published(e)
        BY <1>1, <2>2, <3>2 DEF IInv, RecoveryKnows
      <4>. QED
        BY <4>1, <4>2
    <3>. QED
      BY <3>1, <3>2
  <2>. QED
    BY <2>2, <2>3, <2>4 DEF Intact, Published, Validates
<1>. QED
  BY <1>1, Inductive, PTL DEF Spec, RecoveredIsSound
===============================================================================
