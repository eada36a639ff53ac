------------------------------ MODULE Journal -------------------------------
(***************************************************************************)
(* The durable journal of src/src/journal.rs as the paper runtime of       *)
(* src/src/engine.rs drives it: append, checkpoint, compaction, restart.   *)
(*                                                                         *)
(* A record is the engine state it commits; its BLAKE3 hash covers the     *)
(* record and its predecessor, so a hash stands for the whole log up to    *)
(* its record and a checkpoint is such a log.  A file is its records and   *)
(* what its last bytes are: a line end, a record whose line end is         *)
(* missing, or bytes that do not parse.                                    *)
(*                                                                         *)
(* The file system: what is written but not synced survives the death of   *)
(* the process and may be cut anywhere by a loss of power; directory       *)
(* changes reach the disk in order, all of them when the directory is      *)
(* synced.  One process at a time holds the journal (the lock on the       *)
(* compliance latch, taken before the first append, sees to it).           *)
(***************************************************************************)
EXTENDS Naturals, Sequences, SequencesExt

CONSTANTS
  Files,      \* bound: inodes the journal may live in
  MaxStates,  \* bound: engine states committed or tried
  CompactAt,  \* PAPER_JOURNAL_COMPACT_RECORDS
  Faults      \* bound: which things go wrong in an instance

ASSUME JournalAssumption ==
  /\ Files # {}
  /\ MaxStates \in Nat /\ CompactAt \in Nat \ {0}
  /\ Faults \subseteq {"kill", "power", "newline", "write", "sync", "metadata",
                        "rename"}

VARIABLES
  disk, cache,   \* each file as synced, and as the running system sees it
  dirs,          \* directory: the synced state first, the current one last
  pc,            \* where the process stands
  fd,            \* file the process has open
  head,          \* next_sequence and last_hash: the log the process knows
  poisoned,      \* Journal::poisoned
  replacement,   \* file being compacted into
  used,          \* states tried so far
  acked,         \* the engine's committed state, the last one it was told of
  inflight       \* the state being appended, or left over by a failed append

fileVars == <<disk, cache>>
procVars == <<fd, head, poisoned, replacement>>
told     == <<acked, inflight>>
vars     == <<fileVars, dirs, pc, procVars, used, told>>

States  == 0..MaxStates
Record  == [state : States, compacted : BOOLEAN]
File    == [log : Seq(Record), end : {"line", "bare", "torn"}]
Entry   == [file : Files, checkpoint : SUBSET Seq(Record)]
Place   == {"closed", "locked", "idle", "writing", "written", "committed",
            "compact", "removed", "synced", "renamed"}

TypeOK ==
  /\ disk \in [Files -> File] /\ cache \in [Files -> File]
  /\ dirs \in Seq(Entry) /\ dirs # <<>>
  /\ pc \in Place /\ fd \in Files /\ replacement \in Files
  /\ head \in Seq(Record) /\ poisoned \in BOOLEAN
  /\ used \in States /\ acked \in States /\ inflight \subseteq States

Now == Last(dirs)

Empty == [log |-> <<>>, end |-> "line"]

Init ==
  \E f \in Files :
    /\ disk = [g \in Files |-> Empty] /\ cache = disk
    /\ dirs = <<[file |-> f, checkpoint |-> {}]>>
    /\ pc = "closed" /\ fd = f /\ replacement = f
    /\ head = <<>> /\ poisoned = FALSE
    /\ used = 0 /\ acked = 0 /\ inflight = {}

-----------------------------------------------------------------------------
(* verify_reader: every line parses and continues the chain, and the        *)
(* checkpoint, if there is one, is the log up to one of its records.        *)
Verified(file, checkpoint) ==
  /\ file.end # "torn"
  /\ \A c \in checkpoint : IsPrefix(c, file.log)

(* The engine state a log ends in: that of a new engine if it is empty.     *)
StateOf(log) == IF log = <<>> THEN 0 ELSE Last(log).state

(* A record and its line end behind what a file holds.  Behind a record     *)
(* without line end they make one line that does not parse.                 *)
WrittenTo(file, record) ==
  IF file.end = "line" THEN [file EXCEPT !.log = Append(@, record)]
                       ELSE [file EXCEPT !.end = "torn"]

SyncParent == dirs' = <<Now>>
MayFail(fault) == IF fault \in Faults THEN {TRUE, FALSE} ELSE {FALSE}

(* write_checkpoint: a synced temporary file renamed over the checkpoint,   *)
(* then the directory synced; a failure is only a warning.                  *)
WriteCheckpoint(base, log) ==
  LET next == [Last(base) EXCEPT !.checkpoint = {log}]
  IN \E failed \in MayFail("metadata") :
       dirs' \in IF failed THEN {base, Append(base, next)} ELSE {<<next>>}

-----------------------------------------------------------------------------
(* open: create, lock, verify... *)
OpenJournal ==
  /\ pc = "closed"
  /\ Verified(cache[Now.file], Now.checkpoint)
  /\ SyncParent
  /\ fd' = Now.file /\ head' = cache[Now.file].log
  /\ pc' = "locked"
  /\ UNCHANGED <<fileVars, poisoned, replacement, used, told>>

(* ...and recover_paper_engine: sync, verify and replay. *)
Recover ==
  /\ pc = "locked"
  /\ disk' = [disk EXCEPT ![fd] = cache[fd]]
  /\ acked' = StateOf(head) /\ inflight' = {}
  /\ pc' = "idle"
  /\ UNCHANGED <<cache, dirs, procVars, used>>

-----------------------------------------------------------------------------
(* append_event: write, sync (the commit point), checkpoint, return. *)

BeginWrite ==
  /\ pc = "idle" /\ ~poisoned /\ used < MaxStates
  /\ used' = used + 1 /\ inflight' = {used + 1}
  /\ cache' = [cache EXCEPT ![fd].end = "torn"]
  /\ pc' = "writing"
  /\ UNCHANGED <<disk, dirs, procVars, acked>>

MutNewRecord == [state |-> used + 1, compacted |-> FALSE]
NewRecord == [state |-> used, compacted |-> FALSE]

FinishWrite ==
  /\ pc = "writing"
  /\ cache' = [cache EXCEPT ![fd] = WrittenTo(disk[fd], NewRecord)]
  /\ pc' = "written"
  /\ UNCHANGED <<disk, dirs, procVars, used, told>>

SyncRecord ==
  /\ pc = "written"
  /\ disk' = [disk EXCEPT ![fd] = cache[fd]]
  /\ head' = Append(head, NewRecord)
  /\ pc' = "committed"
  /\ UNCHANGED <<cache, dirs, fd, poisoned, replacement, used, told>>

MutPoison == poisoned' = FALSE
Poison == poisoned' = TRUE

(* poison_without_commit. *)
PreflightFails ==
  /\ pc = "idle" /\ "write" \in Faults
  /\ Poison
  /\ UNCHANGED <<fileVars, dirs, pc, fd, head, replacement, used, told>>

(* rollback_uncommitted, which may fail in its turn. *)
AppendFails ==
  /\ \/ pc = "writing" /\ "write" \in Faults
     \/ pc = "written" /\ "sync" \in Faults
  /\ \/ cache' = [cache EXCEPT ![fd] = disk[fd]] /\ inflight' = {}
     \/ UNCHANGED <<cache, inflight>>
  /\ Poison
  /\ pc' = "idle"
  /\ UNCHANGED <<disk, dirs, fd, head, replacement, used, acked>>

MutCommitted == pc \in {"written", "committed"}
Committed == pc = "committed"

(* commit_paper_transition adopts the state and looks whether to compact. *)
ReturnFromAppend ==
  /\ Committed
  /\ WriteCheckpoint(dirs, head)
  /\ acked' = used /\ inflight' = {}
  /\ pc' = IF Len(head) >= CompactAt THEN "compact" ELSE "idle"
  /\ UNCHANGED <<fileVars, procVars, used>>

-----------------------------------------------------------------------------
(* compact_paper_history: a new file with the current state as its only     *)
(* record; the checkpoint of the old file goes before the new one comes.    *)

MutWithoutCheckpoint(entry) == entry
WithoutCheckpoint(entry) == [entry EXCEPT !.checkpoint = {}]

CompactionStarts ==
  /\ pc = "compact"
  /\ Verified(cache[fd], Now.checkpoint)
  /\ \E f \in Files :
       /\ \A i \in DOMAIN dirs : dirs[i].file # f
       /\ replacement' = f
       /\ LET compacted == [log |-> <<[state |-> acked, compacted |-> TRUE]>>,
                            end |-> "line"]
          IN /\ disk' = [disk EXCEPT ![fd] = cache[fd], ![f] = compacted]
             /\ cache' = [cache EXCEPT ![f] = compacted]
  /\ IF Now.checkpoint = {}
     THEN pc' = "synced" /\ UNCHANGED dirs
     ELSE pc' = "removed" /\ dirs' = Append(dirs, WithoutCheckpoint(Now))
  /\ UNCHANGED <<fd, head, poisoned, used, told>>

CompactionSyncs ==
  /\ pc = "removed"
  /\ SyncParent
  /\ pc' = "synced"
  /\ UNCHANGED <<fileVars, procVars, used, told>>

CompactionRenames ==
  /\ pc = "synced"
  /\ dirs' = Append(dirs, [Now EXCEPT !.file = replacement])
  /\ pc' = "renamed"
  /\ UNCHANGED <<fileVars, procVars, used, told>>

CompactionEnds ==
  /\ pc = "renamed"
  /\ fd' = replacement /\ head' = cache[replacement].log
  /\ \E failed \in MayFail("rename") :
       WriteCheckpoint(IF failed THEN dirs ELSE <<Now>>, cache[replacement].log)
  /\ pc' = "idle"
  /\ UNCHANGED <<fileVars, poisoned, replacement, used, told>>

(* Any step before the rename has taken effect may fail; the old file goes  *)
(* on, with a warning.                                                      *)
CompactionDeferred ==
  /\ pc = "compact" \/ (pc \in {"removed", "synced"} /\ "metadata" \in Faults)
  /\ pc' = "idle"
  /\ UNCHANGED <<fileVars, dirs, procVars, used, told>>

-----------------------------------------------------------------------------
(* The end of the process. *)

Closed ==
  /\ pc' = "closed"
  /\ head' = <<>> /\ poisoned' = FALSE
  /\ UNCHANGED <<fd, replacement>>

(* The runtime ends with a last checkpoint. *)
Shutdown ==
  /\ pc = "idle"
  /\ WriteCheckpoint(dirs, head)
  /\ Closed
  /\ UNCHANGED <<fileVars, used, told>>

Kill ==
  /\ "kill" \in Faults /\ pc # "closed"
  /\ Closed
  /\ UNCHANGED <<fileVars, dirs, used, told>>

(* What the disk may hold of a file after a loss of power. *)
Survivors(synced, seen) ==
  IF seen = synced THEN {synced}
  ELSE {synced, [synced EXCEPT !.end = "torn"], seen}
         \cup IF "newline" \in Faults /\ seen.end = "line"
              THEN {[seen EXCEPT !.end = "bare"]} ELSE {}

PowerLoss ==
  /\ "power" \in Faults
  /\ \E i \in DOMAIN dirs : dirs' = <<dirs[i]>>
  /\ disk' \in {d \in [Files -> UNION {Survivors(disk[f], cache[f]) : f \in Files}] :
                  \A f \in Files : d[f] \in Survivors(disk[f], cache[f])}
  /\ cache' = disk'
  /\ Closed
  /\ UNCHANGED <<used, told>>

-----------------------------------------------------------------------------
Next ==
  \/ OpenJournal \/ Recover
  \/ BeginWrite \/ FinishWrite \/ SyncRecord
  \/ PreflightFails \/ AppendFails \/ ReturnFromAppend
  \/ CompactionStarts \/ CompactionSyncs \/ CompactionRenames
  \/ CompactionEnds \/ CompactionDeferred
  \/ Shutdown \/ Kill \/ PowerLoss

Spec == Init /\ [][Next]_vars

-----------------------------------------------------------------------------
(* Every checkpoint a restart may find, whichever directory changes reached *)
(* the disk, is of the file found with it and not ahead of its synced log.  *)
CheckpointBehind ==
  \A i \in DOMAIN dirs : \A c \in dirs[i].checkpoint :
    IsPrefix(c, disk[dirs[i].file].log)

(* What a restart would find now. *)
Found ==
  IF Verified(cache[Now.file], Now.checkpoint)
  THEN {StateOf(cache[Now.file].log)} ELSE {}

(* A journal that opened and was never poisoned can be opened again: no     *)
(* append that is acknowledged, and no step of a compaction, leaves a file  *)
(* that verify_reader refuses.                                              *)
StaysReadable ==
  pc \notin {"closed", "writing", "written"} /\ ~poisoned => Found # {}

(* The journal implements the store of one state. *)
Store == INSTANCE JournalStore WITH cell <- Found
StoreImplemented == Store!StoreSpec

=============================================================================
