---------------------------- MODULE VectorMemory ----------------------------
(***************************************************************************)
(* The vector memory of the agent, built with FAISS: every memory is a row *)
(* of vector_memories, an entry of the full-text table, a vector in the    *)
(* HNSW index, and an element of hnswIDs.  A search asks the index for     *)
(* labels, which are positions in the order of insertion, and takes the    *)
(* id at that position of hnswIDs.  The four are kept by separate steps;   *)
(* the index is also saved to a file, which every new index begins with.   *)
(*                                                                         *)
(* A vector is the memory it was computed from and the version of its      *)
(* text; nearness is not modelled.                                         *)
(***************************************************************************)
EXTENDS Integers, Sequences, FiniteSets, SequencesExt, Subsequences

CONSTANTS
  Storers,     \* goroutines calling Store, Update or Delete
  Rebuilders,  \* bound: goroutines of rebuildHNSW at one time
  MaxMemories, \* bound: memories that are stored
  MaxChanges,  \* bound: updates, deletions and steps that fail
  MaxReopens,  \* bound: restarts of the agent
  NoFile

Memories == 1..MaxMemories
Vectors == Memories \X {1, 2}

ASSUME MemoryConstantsOK ==
  MaxMemories \in Nat /\ MaxChanges \in Nat /\ MaxReopens \in Nat /\ NoFile \notin Seq(Vectors)

VARIABLES
  rows,      \* vector_memories in the order of rowid
  fts,       \* vector_memories_fts
  index,     \* the vectors of s.hnsw in the order of their labels
  hnswIDs,
  indexFile, \* the file at HNSWPath
  deletedCount,
  storer,    \* each caller: the step it is at and its memory
  rebuild,   \* each rebuild: the step it is at, its new index and its newIDs
  stored, changes, reopens, \* counters for the bounds
  disturbed, \* observation: something other than one store at a time has happened
  torn       \* observation: memories of which a step was overtaken, cut short or failed

memVars == <<rows, fts, index, hnswIDs, indexFile, deletedCount, storer, rebuild,
             stored, changes, reopens, disturbed, torn>>

StorerIdle == [at |-> "idle", id |-> 0]
RebuildIdle == [at |-> "idle", idx |-> <<>>, ids |-> <<>>, for |-> {}]

MemoryTypeOK ==
  /\ rows \in Seq(Vectors) /\ index \in Seq(Vectors)
  /\ fts \subseteq Vectors
  /\ hnswIDs \in Seq(Memories)
  /\ indexFile = NoFile \/ indexFile \in Seq(Vectors)
  /\ deletedCount \in Nat
  /\ storer \in [Storers -> [at : {"idle", "insert", "fts", "map", "save", "ftsUpdate", "rebuild",
                                   "ftsDelete", "unmap"}, id : 0..MaxMemories]]
  /\ \A g \in Rebuilders :
        /\ rebuild[g].at \in {"idle", "new", "load", "swap"}
        /\ rebuild[g].idx \in Seq(Vectors) /\ rebuild[g].ids \in Seq(Memories)
        /\ rebuild[g].for \subseteq Storers
  /\ disturbed \in BOOLEAN /\ torn \subseteq Memories

MemoryInit ==
  /\ rows = <<>> /\ fts = {} /\ index = <<>> /\ hnswIDs = <<>> /\ indexFile = NoFile
  /\ deletedCount = 0
  /\ storer = [c \in Storers |-> StorerIdle]
  /\ rebuild = [g \in Rebuilders |-> RebuildIdle]
  /\ stored = 0 /\ changes = 0 /\ reopens = 0
  /\ disturbed = FALSE /\ torn = {}

Ids(vecs) == [i \in DOMAIN vecs |-> vecs[i][1]]
RowIds == {rows[i][1] : i \in DOMAIN rows}
Storing == {c \in Storers : storer[c] # StorerIdle}
Quiet == Storing = {} /\ \A g \in Rebuilders : rebuild[g] = RebuildIdle

Step(c, at) == storer' = [storer EXCEPT ![c].at = at]
Return(c) == storer' = [storer EXCEPT ![c] = StorerIdle]

(* s.rebuildHNSW(), in a goroutine of its own or by a caller who waits.    *)
StartRebuild(waiting) ==
  \E g \in Rebuilders :
     /\ rebuild[g] = RebuildIdle
     /\ rebuild' = [rebuild EXCEPT ![g] = [@ EXCEPT !.at = "new", !.for = waiting]]

(* A caller has learned of a memory from a Store that returned or from a   *)
(* search, which takes ids from hnswIDs.                                   *)
Known(id) ==
  \/ \E l \in DOMAIN hnswIDs : hnswIDs[l] = id
  \/ \A c \in Storers : storer[c].id = id => storer[c].at \notin {"insert", "fts", "map"}

Change == changes < MaxChanges /\ changes' = changes + 1

(* The errors of the full-text table are discarded: ensureFTS returns      *)
(* early, Exec's error is not looked at, and the call goes on.             *)
FtsFails(lost) == Change /\ torn' = torn \cup lost /\ UNCHANGED fts

-----------------------------------------------------------------------------
(* StoreWithSource: the index first ...                                    *)
StoreAdd(c) ==
  /\ storer[c] = StorerIdle /\ stored < MaxMemories
  /\ stored' = stored + 1
  /\ storer' = [storer EXCEPT ![c] = [at |-> "insert", id |-> stored + 1]]
  /\ index' = Append(index, <<stored + 1, 1>>)
  /\ disturbed' = (disturbed \/ Storing # {})
  /\ UNCHANGED <<rows, fts, hnswIDs, indexFile, deletedCount, rebuild, changes, reopens, torn>>

(* ... then the row ...                                                    *)
StoreInsert(c) ==
  /\ storer[c].at = "insert"
  /\ rows' = Append(rows, <<storer[c].id, 1>>)
  /\ Step(c, "fts")
  /\ UNCHANGED <<fts, index, hnswIDs, indexFile, deletedCount, rebuild,
                 stored, changes, reopens, disturbed, torn>>

(* ... or an error, and a rebuild that is to take the vector out again ... *)
StoreFails(c) ==
  /\ storer[c].at = "insert" /\ Change
  /\ StartRebuild({})
  /\ Return(c)
  /\ disturbed' = TRUE
  /\ UNCHANGED <<rows, fts, index, hnswIDs, indexFile, deletedCount, stored, reopens, torn>>

(* ... then the full-text entry, which does not fail the call ...          *)
StoreFts(c) ==
  /\ storer[c].at = "fts"
  /\ \/ fts' = fts \cup {<<storer[c].id, 1>>} /\ UNCHANGED <<changes, torn>>
     \/ FtsFails({storer[c].id})
  /\ Step(c, "map")
  /\ UNCHANGED <<rows, index, hnswIDs, indexFile, deletedCount, rebuild, stored, reopens, disturbed>>

(* ... then the id, under hnswMu, and the file.                            *)
StoreMap(c) ==
  /\ storer[c].at = "map"
  /\ hnswIDs' = Append(hnswIDs, storer[c].id)
  /\ Step(c, "save")
  /\ UNCHANGED <<rows, fts, index, indexFile, deletedCount, rebuild,
                 stored, changes, reopens, disturbed, torn>>

(* A file that cannot be opened is not written, and nobody is told.        *)
SaveIndex(c) ==
  /\ storer[c].at = "save"
  /\ \/ indexFile' = index /\ UNCHANGED <<changes, disturbed>>
     \/ Change /\ disturbed' = TRUE /\ UNCHANGED indexFile
  /\ Return(c)
  /\ UNCHANGED <<rows, fts, index, hnswIDs, deletedCount, rebuild, stored, reopens, torn>>

(* Update: the row, the full-text entry, where REPLACE finds no key to     *)
(* replace by, and a rebuild by the caller itself.                         *)
UpdateRow(c, id) ==
  /\ storer[c] = StorerIdle /\ Known(id) /\ Change
  /\ \E i \in DOMAIN rows : rows[i] = <<id, 1>> /\ rows' = [rows EXCEPT ![i] = <<id, 2>>]
  /\ storer' = [storer EXCEPT ![c] = [at |-> "ftsUpdate", id |-> id]]
  /\ disturbed' = TRUE
  /\ UNCHANGED <<fts, index, hnswIDs, indexFile, deletedCount, rebuild, stored, reopens, torn>>

UpdateFts(c) ==
  /\ storer[c].at = "ftsUpdate"
  /\ \/ fts' = fts \cup {<<storer[c].id, 2>>} /\ UNCHANGED <<changes, torn>>
     \/ FtsFails({})
  /\ StartRebuild({c})
  /\ Step(c, "rebuild")
  /\ UNCHANGED <<rows, index, hnswIDs, indexFile, deletedCount, stored, reopens, disturbed>>

UpdateEnds(c) ==
  /\ storer[c].at = "rebuild"
  /\ \A g \in Rebuilders : c \notin rebuild[g].for
  /\ Return(c)
  /\ UNCHANGED <<rows, fts, index, hnswIDs, indexFile, deletedCount, rebuild,
                 stored, changes, reopens, disturbed, torn>>

(* Delete: the row, the full-text entries, and the id, which moves the     *)
(* ones behind it; more than a tenth of the vectors deleted starts a       *)
(* rebuild.                                                                *)
DeleteRow(c, id) ==
  /\ storer[c] = StorerIdle /\ Known(id) /\ Change
  /\ \E i \in DOMAIN rows : rows[i][1] = id /\ rows' = RemoveAt(rows, i)
  /\ storer' = [storer EXCEPT ![c] = [at |-> "ftsDelete", id |-> id]]
  /\ disturbed' = TRUE
  /\ torn' = IF \E d \in Storers : storer[d].id = id /\ storer[d].at \in {"fts", "ftsUpdate"}
             THEN torn \cup {id} ELSE torn
  /\ UNCHANGED <<fts, index, hnswIDs, indexFile, deletedCount, rebuild, stored, reopens>>

(* Mutant: only the entry of the row's last text is removed.               *)
DeleteFtsLast(c) ==
  /\ storer[c].at = "ftsDelete"
  /\ \/ fts' = fts \ {<<storer[c].id, 2>>} /\ UNCHANGED <<changes, torn>>
     \/ FtsFails({storer[c].id})
  /\ Step(c, "unmap")
  /\ UNCHANGED <<rows, index, hnswIDs, indexFile, deletedCount, rebuild, stored, reopens, disturbed>>

DeleteFts(c) ==
  /\ storer[c].at = "ftsDelete"
  /\ \/ fts' = {v \in fts : v[1] # storer[c].id} /\ UNCHANGED <<changes, torn>>
     \/ FtsFails({storer[c].id})
  /\ Step(c, "unmap")
  /\ UNCHANGED <<rows, index, hnswIDs, indexFile, deletedCount, rebuild, stored, reopens, disturbed>>

DeleteUnmap(c) ==
  /\ storer[c].at = "unmap"
  /\ hnswIDs' = Kept(hnswIDs, {l \in DOMAIN hnswIDs : hnswIDs[l] # storer[c].id})
  /\ IF hnswIDs' # hnswIDs
     THEN /\ deletedCount' = deletedCount + 1
          /\ IF Len(index) > 0 /\ deletedCount' > Len(index) \div 10
             THEN StartRebuild({}) ELSE UNCHANGED rebuild
     ELSE UNCHANGED <<deletedCount, rebuild>>
  /\ Return(c)
  /\ UNCHANGED <<rows, fts, index, indexFile, stored, changes, reopens, disturbed, torn>>

-----------------------------------------------------------------------------
(* rebuildHNSW: NewHNSWIndex, which begins with what the file holds ...    *)
NewIndex(g) ==
  /\ rebuild[g].at = "new"
  /\ rebuild' = [rebuild EXCEPT ![g] =
       [@ EXCEPT !.at = "load", !.idx = IF indexFile = NoFile THEN <<>> ELSE indexFile]]
  /\ UNCHANGED <<rows, fts, index, hnswIDs, indexFile, deletedCount, storer,
                 stored, changes, reopens, disturbed, torn>>

(* ... loadVectorsIntoIndex ...                                            *)
LoadVectors(g) ==
  /\ rebuild[g].at = "load"
  /\ rebuild' = [rebuild EXCEPT ![g] =
       [@ EXCEPT !.at = "swap", !.idx = rebuild[g].idx \o rows, !.ids = Ids(rows)]]
  /\ UNCHANGED <<rows, fts, index, hnswIDs, indexFile, deletedCount, storer,
                 stored, changes, reopens, disturbed, torn>>

(* ... and the swap under hnswMu.                                          *)
SwapIndex(g) ==
  /\ rebuild[g].at = "swap"
  /\ index' = rebuild[g].idx /\ hnswIDs' = rebuild[g].ids
  /\ deletedCount' = 0
  /\ rebuild' = [rebuild EXCEPT ![g] = RebuildIdle]
  /\ UNCHANGED <<rows, fts, indexFile, storer, stored, changes, reopens, disturbed, torn>>

(* ... unless the index cannot be made or the rows not be read: then it    *)
(* leaves everything as it is.                                             *)
RebuildFails(g) ==
  /\ rebuild[g].at \in {"new", "load"} /\ Change
  /\ rebuild' = [rebuild EXCEPT ![g] = RebuildIdle]
  /\ UNCHANGED <<rows, fts, index, hnswIDs, indexFile, deletedCount, storer,
                 stored, reopens, disturbed, torn>>

(* rebuildFTSIfEmpty: every row has an entry, but those of failed          *)
(* statements.  What was half done when the agent ended is torn.           *)
RefillFts ==
  \E lost \in SUBSET RowIds :
     /\ IF lost = {} THEN UNCHANGED changes ELSE fts = {} /\ Change
     /\ fts' = IF fts = {} THEN {rows[i] : i \in {j \in DOMAIN rows : rows[j][1] \notin lost}} ELSE fts
     /\ torn' = torn \cup lost \cup {storer[c].id : c \in Storing}

(* Mutant: the vectors are added although the index came from the file.    *)
ReopenAddsAll(saved) ==
  /\ reopens < MaxReopens /\ reopens' = reopens + 1
  /\ saved = indexFile \/ (Quiet /\ saved = index)
  /\ index' = (IF saved = NoFile THEN <<>> ELSE saved) \o rows
  /\ hnswIDs' = Ids(rows)
  /\ indexFile' \in {saved, IF rows = <<>> THEN saved ELSE index'}
  /\ RefillFts
  /\ storer' = [c \in Storers |-> StorerIdle]
  /\ rebuild' = [g \in Rebuilders |-> RebuildIdle]
  /\ deletedCount' = 0
  /\ disturbed' = (disturbed \/ Storing # {})
  /\ UNCHANGED <<rows, stored>>

(* The agent ends, with Close or by a crash, which loses what was not      *)
(* saved, and opens the store again: NewVectorMemoryStore and              *)
(* loadExistingVectors, which saves the index too, if it can.              *)
Reopen(saved) ==
  /\ reopens < MaxReopens /\ reopens' = reopens + 1
  /\ saved = indexFile \/ (Quiet /\ saved = index)
  /\ index' = IF saved # NoFile THEN saved ELSE rows
  /\ hnswIDs' = Ids(rows)
  /\ indexFile' \in {saved, IF rows = <<>> THEN saved ELSE index'}
  /\ RefillFts
  /\ storer' = [c \in Storers |-> StorerIdle]
  /\ rebuild' = [g \in Rebuilders |-> RebuildIdle]
  /\ deletedCount' = 0
  /\ disturbed' = (disturbed \/ Storing # {})
  /\ UNCHANGED <<rows, stored>>

StorerNext(c) ==
  \/ StoreAdd(c) \/ StoreInsert(c) \/ StoreFails(c) \/ StoreFts(c) \/ StoreMap(c) \/ SaveIndex(c)
  \/ UpdateFts(c) \/ UpdateEnds(c) \/ DeleteFts(c) \/ DeleteUnmap(c)
  \/ \E id \in Memories : UpdateRow(c, id) \/ DeleteRow(c, id)

MemoryNext ==
  \/ \E c \in Storers : StorerNext(c)
  \/ \E g \in Rebuilders : NewIndex(g) \/ LoadVectors(g) \/ SwapIndex(g) \/ RebuildFails(g)
  \/ \E saved \in {indexFile, index} : Reopen(saved)

MemorySpec == MemoryInit /\ [][MemoryNext]_memVars

-----------------------------------------------------------------------------
(* A search finds the memories it should: while nothing is in progress     *)
(* every label that has an id has the id of the memory whose vector it is, *)
(* and every row is found by the vector of its text.                       *)
LabelsMatch ==
  Quiet => /\ \A l \in DOMAIN index \cap DOMAIN hnswIDs : index[l][1] = hnswIDs[l]
           /\ \A i \in DOMAIN rows :
                 \E l \in DOMAIN index \cap DOMAIN hnswIDs :
                    index[l] = rows[i] /\ hnswIDs[l] = rows[i][1]

(* That is so as long as memories are stored one at a time, over any       *)
(* number of restarts and crashes between them and whatever the full-text  *)
(* table does; an update, a deletion, a failed insertion or save, an       *)
(* overlap or a crash in the middle may end it.                            *)
LabelsMatchUndisturbed == disturbed \/ LabelsMatch

(* While nobody stores, updates or deletes, the full-text table has an     *)
(* entry for every row and none without a row, but for the memories that a *)
(* deletion found while they were being stored or updated, that a restart  *)
(* left half done, or whose statement failed when they were stored,        *)
(* deleted or entered again: no failure harms any other memory.            *)
FtsNamesRows ==
  Storing = {} => /\ RowIds \subseteq {v[1] : v \in fts} \cup torn
                  /\ \A v \in fts : v[1] \in RowIds \cup torn
=============================================================================
