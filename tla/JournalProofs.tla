---------------------------- MODULE JournalProofs ----------------------------
(* Proofs about Journal, for every set of files, every number of states and *)
(* every compaction threshold: what a restart may find, whichever faults    *)
(* strike, and that the journal implements JournalStore.                    *)
EXTENDS Journal, SequenceTheorems, TLAPS

-----------------------------------------------------------------------------
(* Logs and their prefixes.                                                 *)

LEMMA PrefixElements ==
  ASSUME NEW S, NEW s \in Seq(S), NEW t \in Seq(S)
  PROVE  IsPrefix(s, t) <=> Len(s) <= Len(t) /\ \A i \in 1..Len(s) : s[i] = t[i]
<1>0. Len(s) \in Nat /\ Len(t) \in Nat
  OBVIOUS
<1>1. ASSUME Len(s) <= Len(t)
      PROVE  SubSeq(s, 1, Len(s)) = SubSeq(t, 1, Len(s))
               <=> \A i \in 1..Len(s) : s[i] = t[i]
  <2>1. /\ SubSeq(s, 1, Len(s)) \in Seq(S) /\ Len(SubSeq(s, 1, Len(s))) = Len(s)
        /\ \A i \in 1..Len(s) : SubSeq(s, 1, Len(s))[i] = s[i]
    BY <1>0, SubSeqProperties
  <2>2. /\ SubSeq(t, 1, Len(s)) \in Seq(S) /\ Len(SubSeq(t, 1, Len(s))) = Len(s)
        /\ \A i \in 1..Len(s) : SubSeq(t, 1, Len(s))[i] = t[i]
    BY <1>0, <1>1, SubSeqProperties
  <2>3. ASSUME \A i \in 1..Len(s) : s[i] = t[i]
        PROVE  SubSeq(s, 1, Len(s)) = SubSeq(t, 1, Len(s))
    BY <2>1, <2>2, <2>3, SeqEqual
  <2> QED
    BY <2>1, <2>2, <2>3
<1> QED
  BY <1>1 DEF IsPrefix

LEMMA PrefixReflexive ==
  ASSUME NEW S, NEW s \in Seq(S)
  PROVE  IsPrefix(s, s)
BY PrefixElements

LEMMA PrefixTransitive ==
  ASSUME NEW S, NEW s \in Seq(S), NEW t \in Seq(S), NEW u \in Seq(S),
         IsPrefix(s, t), IsPrefix(t, u)
  PROVE  IsPrefix(s, u)
<1>1. Len(s) <= Len(t) /\ \A i \in 1..Len(s) : s[i] = t[i]
  BY PrefixElements
<1>2. Len(t) <= Len(u) /\ \A i \in 1..Len(t) : t[i] = u[i]
  BY PrefixElements
<1>3. Len(s) <= Len(u) /\ \A i \in 1..Len(s) : s[i] = u[i]
  BY <1>1, <1>2
<1> QED
  BY <1>3, PrefixElements

LEMMA PrefixOfAppend ==
  ASSUME NEW S, NEW s \in Seq(S), NEW e \in S
  PROVE  IsPrefix(s, Append(s, e))
<1>1. /\ Append(s, e) \in Seq(S) /\ Len(Append(s, e)) = Len(s) + 1
      /\ \A i \in 1..Len(s) : Append(s, e)[i] = s[i]
  BY AppendProperties
<1>2. Len(s) <= Len(Append(s, e)) /\ \A i \in 1..Len(s) : s[i] = Append(s, e)[i]
  BY <1>1
<1> QED
  BY <1>1, <1>2, PrefixElements

(* Directories: what is in one, and what is last in it.                     *)
LEMMA LastOfAppend ==
  ASSUME NEW S, NEW d \in Seq(S), NEW e \in S
  PROVE  /\ Append(d, e) \in Seq(S) /\ Append(d, e) # <<>>
         /\ Last(Append(d, e)) = e
<1>1. /\ Append(d, e) \in Seq(S) /\ Append(d, e) # <<>>
      /\ Len(Append(d, e)) = Len(d) + 1 /\ Append(d, e)[Len(d) + 1] = e
  BY AppendProperties
<1> QED
  BY <1>1 DEF Last

LEMMA RangeOfAppend ==
  ASSUME NEW S, NEW d \in Seq(S), NEW e \in S
  PROVE  Range(Append(d, e)) = Range(d) \cup {e}
<1>1. /\ Append(d, e) \in Seq(S) /\ Len(Append(d, e)) = Len(d) + 1
      /\ \A i \in 1..Len(d) : Append(d, e)[i] = d[i]
      /\ Append(d, e)[Len(d) + 1] = e
  BY AppendProperties
<1>2. Range(Append(d, e)) = {Append(d, e)[i] : i \in 1..(Len(d) + 1)}
  BY <1>1, RangeEquality
<1>3. Range(d) = {d[i] : i \in 1..Len(d)}
  BY RangeEquality
<1>4. 1..(Len(d) + 1) = 1..Len(d) \cup {Len(d) + 1}
  OBVIOUS
<1> QED
  BY <1>1, <1>2, <1>3, <1>4

LEMMA OneEntryFacts ==
  ASSUME NEW S, NEW e \in S
  PROVE  /\ <<e>> \in Seq(S) /\ <<e>> # <<>> /\ Len(<<e>>) = 1
         /\ Last(<<e>>) = e /\ Range(<<e>>) = {e}
<1>1. <<e>> \in Seq(S) /\ <<e>> # <<>> /\ Len(<<e>>) = 1 /\ <<e>>[1] = e
  OBVIOUS
<1>2. Range(<<e>>) = {<<e>>[i] : i \in 1..1}
  BY <1>1, RangeEquality
<1> QED
  BY <1>1, <1>2 DEF Last

LEMMA LastFacts ==
  ASSUME NEW S, NEW d \in Seq(S), d # <<>>
  PROVE  Last(d) \in Range(d) /\ Range(d) \subseteq S /\ Last(d) \in S
<1>1. Len(d) \in 1..Len(d)
  OBVIOUS
<1> QED
  BY <1>1, RangeEquality, RangeOfSeq DEF Last

LEMMA SingleFacts ==
  ASSUME NEW S, NEW d \in Seq(S), Len(d) = 1
  PROVE  Range(d) = {Last(d)} /\ d = <<Last(d)>>
<1>1. Range(d) = {d[i] : i \in 1..1}
  BY RangeEquality
<1>2. d = <<d[1]>>
  BY SeqEqual
<1> QED
  BY <1>1, <1>2 DEF Last

(* WriteCheckpoint and SyncParent in these terms.                           *)
LEMMA CheckpointWritten ==
  ASSUME NEW base \in Seq(Entry), base # <<>>, NEW log \in Seq(Record),
         WriteCheckpoint(base, log)
  PROVE  \E e \in Entry :
           /\ e.file = Last(base).file /\ e.checkpoint = {log}
           /\ \/ dirs' = base
              \/ dirs' = Append(base, e)
              \/ dirs' = <<e>>
<1> DEFINE next == [Last(base) EXCEPT !.checkpoint = {log}]
<1>1. Last(base) \in Entry
  BY LastFacts
<1>2. next \in Entry /\ next.file = Last(base).file /\ next.checkpoint = {log}
  BY <1>1 DEF Entry
<1>3. dirs' = base \/ dirs' = Append(base, next) \/ dirs' = <<next>>
  BY DEF WriteCheckpoint, MayFail
<1> QED
  BY <1>2, <1>3

-----------------------------------------------------------------------------
(* The strengthening for durability.                                        *)

Clean(f) == disk[f] = cache[f] /\ disk[f].end = "line"

(* The running system sees what is synced, and possibly more.               *)
CacheAhead ==
  \A f \in Files :
    /\ IsPrefix(disk[f].log, cache[f].log)
    /\ disk[f].end # "bare" /\ cache[f].end # "bare"

(* Where the process stands, its file is the one the directory names, the   *)
(* log it knows is the synced one, and what it has not synced is one record *)
(* at most.                                                                 *)
InPlace ==
  /\ pc \notin {"closed", "renamed"} => Now.file = fd
  /\ pc = "renamed" => Now.file = replacement
  /\ pc = "locked" => head = cache[fd].log /\ cache[fd].end = "line"
  /\ pc \notin {"closed", "locked"} => head = disk[fd].log /\ disk[fd].end = "line"

Synced ==
  /\ pc = "written" => cache[fd] = WrittenTo(disk[fd], NewRecord)
  /\ pc \in {"committed", "compact", "removed", "synced", "renamed"} => Clean(fd)
  /\ pc = "idle" /\ ~poisoned => Clean(fd)
  /\ pc \in {"removed", "synced", "renamed"} => Clean(replacement)
  /\ pc \in {"removed", "synced", "renamed"} => Now.checkpoint = {}

Durable == TypeOK /\ CacheAhead /\ InPlace /\ Synced /\ CheckpointBehind

-----------------------------------------------------------------------------
(* The strengthening for the refinement: which states the files a restart   *)
(* may come upon hold.                                                      *)
Entries == Range(dirs)

OneFile == pc # "renamed" /\ pc # "closed" => \A e \in Entries : e.file = fd

Holds(f, S) == StateOf(disk[f].log) \in S /\ StateOf(cache[f].log) \in S

Settled ==
  inflight = {} => \A e \in Entries : Clean(e.file) /\ Holds(e.file, {acked})

Unsettled ==
  \A s \in inflight :
    /\ inflight = {s}
    /\ \A e \in Entries : Holds(e.file, {acked, s})

AtWork ==
  /\ pc \in {"writing", "written"} => inflight = {used} /\ StateOf(disk[fd].log) = acked
  /\ pc = "committed" => inflight = {used} /\ StateOf(disk[fd].log) = used
  /\ pc \in {"compact", "removed", "synced", "renamed"} => inflight = {}
  /\ pc = "idle" /\ ~poisoned => inflight = {}
  /\ pc \in {"removed", "synced", "renamed"} => StateOf(disk[replacement].log) = acked
  /\ pc = "locked" => Len(dirs) = 1

Told == OneFile /\ Settled /\ Unsettled /\ AtWork
Refines == Durable /\ Told

-----------------------------------------------------------------------------
(* Types.                                                                   *)

DiskTyped == disk \in [Files -> File] /\ cache \in [Files -> File]
DirsTyped == dirs \in Seq(Entry) /\ dirs # <<>>
ProcTyped ==
  /\ pc \in Place /\ fd \in Files /\ replacement \in Files
  /\ head \in Seq(Record) /\ poisoned \in BOOLEAN
ToldTyped == used \in States /\ acked \in States /\ inflight \subseteq States

LEMMA TypeParts == TypeOK <=> DiskTyped /\ DirsTyped /\ ProcTyped /\ ToldTyped
BY DEF TypeOK, DiskTyped, DirsTyped, ProcTyped, ToldTyped

LEMMA NowTyped == TypeOK => Now \in Entry /\ Now \in Range(dirs) /\ Range(dirs) \subseteq Entry
BY LastFacts DEF TypeOK, Now

LEMMA StateTyped == \A log \in Seq(Record) : StateOf(log) \in States
<1> SUFFICES ASSUME NEW log \in Seq(Record) PROVE StateOf(log) \in States
  OBVIOUS
<1>1. CASE log = <<>>
  BY <1>1, JournalAssumption DEF StateOf, States
<1>2. CASE log # <<>>
  <2>1. Last(log) \in Record
    BY <1>2, LastFacts
  <2> QED
    BY <1>2, <2>1 DEF StateOf, Record
<1> QED
  BY <1>1, <1>2

LEMMA RecordTyped == used \in States => NewRecord \in Record
BY DEF NewRecord, Record

LEMMA WrittenTyped ==
  \A file \in File, record \in Record : WrittenTo(file, record) \in File
BY AppendProperties DEF WrittenTo, File

LEMMA DirsStep ==
  ASSUME TypeOK, NEW base \in {dirs, <<Now>>}, NEW log \in Seq(Record),
         WriteCheckpoint(base, log)
  PROVE  DirsTyped'
<1>1. dirs \in Seq(Entry) /\ dirs # <<>> /\ Now \in Entry
  BY NowTyped DEF TypeOK
<1>2. <<Now>> \in Seq(Entry) /\ <<Now>> # <<>>
  BY <1>1, OneEntryFacts
<1>3. base \in Seq(Entry) /\ base # <<>>
  BY <1>1, <1>2
<1>4. PICK e \in Entry : dirs' = base \/ dirs' = Append(base, e) \/ dirs' = <<e>>
  BY <1>3, CheckpointWritten
<1>5. /\ Append(base, e) \in Seq(Entry) /\ Append(base, e) # <<>>
      /\ <<e>> \in Seq(Entry) /\ <<e>> # <<>>
  BY <1>3, LastOfAppend, OneEntryFacts
<1> QED
  BY <1>3, <1>4, <1>5 DEF DirsTyped

LEMMA TypeInit == Init => TypeOK
<1> SUFFICES ASSUME Init PROVE TypeOK
  OBVIOUS
<1>1. PICK f \in Files :
        /\ dirs = <<[file |-> f, checkpoint |-> {}]>> /\ fd = f /\ replacement = f
        /\ disk = [g \in Files |-> Empty] /\ cache = disk /\ pc = "closed"
        /\ head = <<>> /\ poisoned = FALSE /\ used = 0 /\ acked = 0 /\ inflight = {}
  BY DEF Init
<1>2. Empty \in File
  BY DEF Empty, File
<1>3. [file |-> f, checkpoint |-> {}] \in Entry
  BY DEF Entry
<1>4. dirs \in Seq(Entry) /\ dirs # <<>>
  BY <1>1, <1>3
<1>5. 0 \in States
  BY JournalAssumption DEF States
<1>6. DiskTyped
  BY <1>1, <1>2 DEF DiskTyped
<1>7. ProcTyped
  BY <1>1, EmptySeq DEF ProcTyped, Place
<1>8. ToldTyped
  BY <1>1, <1>5 DEF ToldTyped
<1> QED
  BY <1>4, <1>6, <1>7, <1>8, TypeParts DEF DirsTyped

LEMMA DiskTypeStep == TypeOK /\ [Next]_vars => DiskTyped'
<1> SUFFICES ASSUME TypeOK, [Next]_vars PROVE DiskTyped'
  OBVIOUS
<1>0. /\ disk \in [Files -> File] /\ cache \in [Files -> File]
      /\ fd \in Files /\ acked \in States /\ used \in States
  BY DEF TypeOK
<1>1. CASE BeginWrite
  <2>1. \A f \in Files : [cache[f] EXCEPT !.end = "torn"] \in File
    BY <1>0 DEF File
  <2> QED
    BY <1>0, <1>1, <2>1 DEF BeginWrite, DiskTyped
<1>2. CASE FinishWrite
  BY <1>0, <1>2, RecordTyped, WrittenTyped DEF FinishWrite, DiskTyped
<1>3. CASE SyncRecord \/ Recover
  BY <1>0, <1>3 DEF SyncRecord, Recover, DiskTyped
<1>4. CASE AppendFails
  BY <1>0, <1>4 DEF AppendFails, DiskTyped
<1>5. CASE CompactionStarts
  <2>1. PICK f \in Files :
          LET compacted == [log |-> <<[state |-> acked, compacted |-> TRUE]>>,
                            end |-> "line"]
          IN /\ disk' = [disk EXCEPT ![fd] = cache[fd], ![f] = compacted]
             /\ cache' = [cache EXCEPT ![f] = compacted]
    BY <1>5 DEF CompactionStarts
  <2>2. [log |-> <<[state |-> acked, compacted |-> TRUE]>>, end |-> "line"] \in File
    BY <1>0 DEF File, Record
  <2> QED
    BY <1>0, <2>1, <2>2 DEF DiskTyped
<1>6. CASE PowerLoss
  <2>1. \A f \in Files : Survivors(disk[f], cache[f]) \subseteq File
    BY <1>0 DEF Survivors, File
  <2>2. disk' \in [Files -> UNION {Survivors(disk[f], cache[f]) : f \in Files}]
    BY <1>6 DEF PowerLoss
  <2>3. UNION {Survivors(disk[f], cache[f]) : f \in Files} \subseteq File
    BY <2>1
  <2>4. disk' \in [Files -> File]
    BY <2>2, <2>3
  <2> QED
    BY <1>6, <2>4 DEF PowerLoss, DiskTyped
<1>7. CASE \/ OpenJournal \/ PreflightFails \/ ReturnFromAppend \/ CompactionSyncs
           \/ CompactionRenames \/ CompactionEnds \/ CompactionDeferred
           \/ Shutdown \/ Kill \/ UNCHANGED vars
  BY <1>0, <1>7 DEF OpenJournal, PreflightFails, ReturnFromAppend, CompactionSyncs,
     CompactionRenames, CompactionEnds, CompactionDeferred, Shutdown, Kill, vars,
     fileVars, DiskTyped
<1> QED
  BY <1>1, <1>2, <1>3, <1>4, <1>5, <1>6, <1>7 DEF Next

LEMMA DirsTypeStep == TypeOK /\ [Next]_vars => DirsTyped'
<1> SUFFICES ASSUME TypeOK, [Next]_vars PROVE DirsTyped'
  OBVIOUS
<1>0. /\ dirs \in Seq(Entry) /\ dirs # <<>> /\ head \in Seq(Record)
      /\ cache[replacement].log \in Seq(Record) /\ replacement \in Files
      /\ Now \in Entry /\ \A e \in Entry : <<e>> \in Seq(Entry) /\ <<e>> # <<>>
  BY NowTyped, OneEntryFacts DEF TypeOK, File
<1>1. CASE OpenJournal \/ CompactionSyncs
  BY <1>0, <1>1 DEF OpenJournal, CompactionSyncs, SyncParent, DirsTyped
<1>2. CASE ReturnFromAppend \/ Shutdown
  BY <1>0, <1>2, DirsStep DEF ReturnFromAppend, Shutdown
<1>3. CASE CompactionStarts
  <2>1. WithoutCheckpoint(Now) \in Entry
    BY <1>0 DEF WithoutCheckpoint, Entry
  <2>2. dirs' = dirs \/ dirs' = Append(dirs, WithoutCheckpoint(Now))
    BY <1>3 DEF CompactionStarts
  <2> QED
    BY <1>0, <2>1, <2>2, LastOfAppend DEF DirsTyped
<1>4. CASE CompactionRenames
  <2>1. [Now EXCEPT !.file = replacement] \in Entry
    BY <1>0 DEF Entry
  <2> QED
    BY <1>0, <1>4, <2>1, LastOfAppend DEF CompactionRenames, DirsTyped
<1>5. CASE CompactionEnds
  <2>1. PICK failed \in BOOLEAN :
          WriteCheckpoint(IF failed THEN dirs ELSE <<Now>>, cache[replacement].log)
    BY <1>5 DEF CompactionEnds, MayFail
  <2> QED
    BY <1>0, <2>1, DirsStep
<1>6. CASE PowerLoss
  <2>1. PICK i \in DOMAIN dirs : dirs' = <<dirs[i]>>
    BY <1>6 DEF PowerLoss
  <2>2. dirs[i] \in Entry
    BY <1>0, <2>1
  <2> QED
    BY <1>0, <2>1, <2>2 DEF DirsTyped
<1>7. CASE \/ Recover \/ BeginWrite \/ FinishWrite \/ SyncRecord \/ PreflightFails
           \/ AppendFails \/ CompactionDeferred \/ Kill \/ UNCHANGED vars
  BY <1>0, <1>7 DEF Recover, BeginWrite, FinishWrite, SyncRecord, PreflightFails,
     AppendFails, CompactionDeferred, Kill, vars, DirsTyped
<1> QED
  BY <1>1, <1>2, <1>3, <1>4, <1>5, <1>6, <1>7 DEF Next

LEMMA ProcTypeStep == TypeOK /\ [Next]_vars => ProcTyped'
<1> SUFFICES ASSUME TypeOK, [Next]_vars PROVE ProcTyped'
  OBVIOUS
<1>0. /\ cache \in [Files -> File] /\ pc \in Place /\ fd \in Files
      /\ replacement \in Files /\ head \in Seq(Record) /\ poisoned \in BOOLEAN
      /\ Now.file \in Files /\ NewRecord \in Record
      /\ \A f \in Files : cache[f].log \in Seq(Record)
  BY NowTyped, RecordTyped DEF TypeOK, Entry, File
<1>1. CASE OpenJournal \/ CompactionEnds
  BY <1>0, <1>1 DEF OpenJournal, CompactionEnds, ProcTyped, Place
<1>2. CASE SyncRecord
  BY <1>0, <1>2, AppendProperties DEF SyncRecord, ProcTyped, Place
<1>3. CASE CompactionStarts
  BY <1>0, <1>3 DEF CompactionStarts, ProcTyped, Place
<1>4. CASE ReturnFromAppend
  BY <1>0, <1>4 DEF ReturnFromAppend, ProcTyped, Place, procVars
<1>5. CASE Shutdown \/ Kill \/ PowerLoss
  <2>1. Closed
    BY <1>5 DEF Shutdown, Kill, PowerLoss
  <2> QED
    BY <1>0, <2>1, EmptySeq DEF Closed, ProcTyped, Place
<1>6. CASE PreflightFails \/ AppendFails
  BY <1>0, <1>6 DEF PreflightFails, AppendFails, Poison, ProcTyped, Place
<1>7. CASE \/ Recover \/ BeginWrite \/ FinishWrite \/ CompactionSyncs
           \/ CompactionRenames \/ CompactionDeferred \/ UNCHANGED vars
  BY <1>0, <1>7 DEF Recover, BeginWrite, FinishWrite, CompactionSyncs,
     CompactionRenames, CompactionDeferred, vars, procVars, ProcTyped, Place
<1> QED
  BY <1>1, <1>2, <1>3, <1>4, <1>5, <1>6, <1>7 DEF Next

LEMMA ToldTypeStep == TypeOK /\ [Next]_vars => ToldTyped'
<1> SUFFICES ASSUME TypeOK, [Next]_vars PROVE ToldTyped'
  OBVIOUS
<1>0. used \in States /\ acked \in States /\ inflight \subseteq States
  BY DEF TypeOK
<1>1. CASE Recover
  <2>1. StateOf(head) \in States
    BY StateTyped DEF TypeOK
  <2> QED
    BY <1>0, <1>1, <2>1 DEF Recover, ToldTyped
<1>2. CASE BeginWrite
  <2>1. used + 1 \in States
    BY <1>0, <1>2, JournalAssumption DEF BeginWrite, States
  <2> QED
    BY <1>0, <1>2, <2>1 DEF BeginWrite, ToldTyped
<1>3. CASE ReturnFromAppend
  BY <1>0, <1>3 DEF ReturnFromAppend, ToldTyped
<1>4. CASE AppendFails
  BY <1>0, <1>4 DEF AppendFails, ToldTyped
<1>5. CASE \/ OpenJournal \/ FinishWrite \/ SyncRecord \/ PreflightFails
           \/ CompactionStarts \/ CompactionSyncs \/ CompactionRenames
           \/ CompactionEnds \/ CompactionDeferred
           \/ Shutdown \/ Kill \/ PowerLoss \/ UNCHANGED vars
  BY <1>0, <1>5 DEF OpenJournal, FinishWrite, SyncRecord, PreflightFails,
     CompactionStarts, CompactionSyncs, CompactionRenames, CompactionEnds,
     CompactionDeferred, Shutdown, Kill, PowerLoss, vars, told, ToldTyped
<1> QED
  BY <1>1, <1>2, <1>3, <1>4, <1>5 DEF Next

LEMMA TypeStep == TypeOK /\ [Next]_vars => TypeOK'
BY DiskTypeStep, DirsTypeStep, ProcTypeStep, ToldTypeStep
   DEF TypeOK, DiskTyped, DirsTyped, ProcTyped, ToldTyped

(* Files, directory, process and states keep their types.                   *)
THEOREM JournalTypes == Spec => []TypeOK
BY TypeInit, TypeStep, PTL DEF Spec

-----------------------------------------------------------------------------
(* Durability.                                                              *)

Behind(entries, files) ==
  \A e \in entries : \A c \in e.checkpoint : IsPrefix(c, files[e.file].log)

LEMMA BehindFacts ==
  /\ CheckpointBehind <=> Behind(Entries, disk)
  /\ CheckpointBehind' <=> Behind(Range(dirs'), disk')
BY DEF CheckpointBehind, Behind, Entries, Range

LEMMA FileFacts ==
  TypeOK => \A f \in Files :
    /\ disk[f] \in File /\ cache[f] \in File
    /\ disk[f].log \in Seq(Record) /\ cache[f].log \in Seq(Record)
    /\ disk[f].end \in {"line", "bare", "torn"} /\ cache[f].end \in {"line", "bare", "torn"}
BY DEF TypeOK, File

LEMMA EntryFacts ==
  TypeOK =>
    /\ Now \in Entries /\ Now \in Entry
    /\ \A e \in Entries : /\ e \in Entry /\ e.file \in Files
                          /\ e.checkpoint \subseteq Seq(Record)
    /\ <<Now>> \in Seq(Entry) /\ <<Now>> # <<>> /\ Last(<<Now>>) = Now
    /\ Range(<<Now>>) = {Now}
BY NowTyped, OneEntryFacts DEF TypeOK, Entries, Entry

LEMMA AppendFacts ==
  ASSUME TypeOK, NEW e \in Entry
  PROVE  Last(Append(dirs, e)) = e /\ Range(Append(dirs, e)) = Entries \cup {e}
<1>1. dirs \in Seq(Entry)
  BY DEF TypeOK
<1>2. Last(Append(dirs, e)) = e
  BY <1>1, LastOfAppend
<1>3. Range(Append(dirs, e)) = Range(dirs) \cup {e}
  BY <1>1, RangeOfAppend
<1> QED
  BY <1>2, <1>3 DEF Entries

(* Logs that only grow keep their checkpoints behind them.                  *)
LEMMA GrowthKeepsBehind ==
  ASSUME TypeOK, TypeOK', CheckpointBehind, Range(dirs') \subseteq Entries,
         \A e \in Entries : IsPrefix(disk[e.file].log, disk'[e.file].log)
  PROVE  CheckpointBehind'
<1> SUFFICES ASSUME NEW e \in Range(dirs'), NEW c \in e.checkpoint
             PROVE  IsPrefix(c, disk'[e.file].log)
  BY BehindFacts DEF Behind
<1>1. e \in Entries /\ c \in Seq(Record) /\ e.file \in Files
  BY EntryFacts
<1>2. disk[e.file].log \in Seq(Record) /\ disk'[e.file].log \in Seq(Record)
  BY <1>1, FileFacts DEF TypeOK, File
<1>3. IsPrefix(c, disk[e.file].log)
  BY <1>1, BehindFacts DEF Behind
<1> QED
  BY <1>1, <1>2, <1>3, PrefixTransitive

(* A checkpoint of the synced log of the current file may be written.       *)
LEMMA CheckpointKeepsBehind ==
  ASSUME TypeOK, CheckpointBehind, NEW base \in {dirs, <<Now>>},
         NEW log, log = disk[Now.file].log, WriteCheckpoint(base, log), UNCHANGED disk
  PROVE  /\ CheckpointBehind'
         /\ Now'.file = Now.file
         /\ \A e \in Range(dirs') : e \in Range(base) \/ e.file = Now.file
<1>1. /\ Now \in Entries /\ Now.file \in Files /\ log \in Seq(Record)
      /\ <<Now>> \in Seq(Entry) /\ <<Now>> # <<>> /\ Last(<<Now>>) = Now
      /\ Range(<<Now>>) = {Now}
  BY EntryFacts, FileFacts
<1>2. /\ base \in Seq(Entry) /\ base # <<>> /\ Last(base) = Now
      /\ Range(base) \subseteq Entries
  BY <1>1 DEF TypeOK, Now, Entries
<1>3. PICK e \in Entry :
        /\ e.file = Last(base).file /\ e.checkpoint = {log}
        /\ dirs' = base \/ dirs' = Append(base, e) \/ dirs' = <<e>>
  <2>1. base \in Seq(Entry) /\ base # <<>> /\ log \in Seq(Record)
    BY <1>1, <1>2
  <2> QED
    BY ONLY <2>1, WriteCheckpoint(base, log), CheckpointWritten
<1>4. /\ Range(Append(base, e)) = Range(base) \cup {e} /\ Last(Append(base, e)) = e
      /\ Range(<<e>>) = {e} /\ Last(<<e>>) = e
  BY <1>2, <1>3, LastOfAppend, RangeOfAppend, OneEntryFacts
<1>5. Range(dirs') \subseteq Range(base) \cup {e} /\ Last(dirs') \in {Now, e}
  BY <1>2, <1>3, <1>4
<1>6. IsPrefix(log, log)
  BY <1>1, PrefixReflexive
<1>7. Behind(Range(dirs'), disk')
  BY <1>2, <1>3, <1>5, <1>6, BehindFacts DEF Behind
<1> QED
  BY <1>2, <1>3, <1>5, <1>7, BehindFacts DEF Now

LEMMA DurableInit == Init => Durable
<1> SUFFICES ASSUME Init PROVE Durable
  OBVIOUS
<1>1. PICK f \in Files :
        /\ dirs = <<[file |-> f, checkpoint |-> {}]>> /\ pc = "closed"
        /\ disk = [g \in Files |-> Empty] /\ cache = disk
  BY DEF Init
<1>2. CacheAhead
  BY <1>1, EmptySeq, PrefixReflexive DEF CacheAhead, Empty
<1>3. InPlace /\ Synced
  BY <1>1 DEF InPlace, Synced
<1>4. CheckpointBehind
  BY <1>1 DEF CheckpointBehind
<1> QED
  BY <1>2, <1>3, <1>4, TypeInit DEF Durable

LEMMA OpenDurable == Durable /\ OpenJournal /\ TypeOK' => Durable'
<1> SUFFICES ASSUME Durable, OpenJournal, TypeOK' PROVE Durable'
  OBVIOUS
<1> USE DEF Durable
<1>1. /\ dirs' = <<Now>> /\ UNCHANGED fileVars /\ pc' = "locked" /\ fd' = Now.file
      /\ head' = cache[Now.file].log /\ cache[Now.file].end # "torn"
  BY DEF OpenJournal, SyncParent, Verified
<1>2. Now' = Now /\ Range(dirs') = {Now} /\ Now \in Entries /\ Now.file \in Files
  BY <1>1, EntryFacts DEF Now
<1>3. CacheAhead'
  BY <1>1 DEF CacheAhead, fileVars
<1>4. InPlace'
  BY <1>1, <1>2, FileFacts DEF InPlace, CacheAhead, fileVars
<1>5. Synced'
  BY <1>1 DEF Synced
<1>6. CheckpointBehind'
  BY <1>1, <1>2, BehindFacts DEF Behind, fileVars
<1> QED
  BY <1>3, <1>4, <1>5, <1>6

LEMMA RecoverDurable == Durable /\ Recover /\ TypeOK' => Durable'
<1> SUFFICES ASSUME Durable, Recover, TypeOK' PROVE Durable'
  OBVIOUS
<1> USE DEF Durable
<1>1. /\ pc = "locked" /\ pc' = "idle" /\ UNCHANGED <<cache, dirs, procVars>>
      /\ disk' = [disk EXCEPT ![fd] = cache[fd]]
  BY DEF Recover
<1>2. /\ fd \in Files /\ \A f \in Files : disk'[f] = IF f = fd THEN cache[fd] ELSE disk[f]
  BY <1>1 DEF TypeOK
<1>3. CacheAhead'
  BY <1>1, <1>2, FileFacts, PrefixReflexive DEF CacheAhead
<1>4. InPlace'
  BY <1>1, <1>2 DEF InPlace, procVars, Now
<1>5. Synced'
  BY <1>1, <1>2 DEF Synced, InPlace, Clean, procVars
<1>6. \A f \in Files : IsPrefix(disk[f].log, disk'[f].log)
  BY <1>2, FileFacts, PrefixReflexive DEF CacheAhead
<1>7. CheckpointBehind'
  BY <1>1, <1>6, EntryFacts, GrowthKeepsBehind DEF Entries
<1> QED
  BY <1>3, <1>4, <1>5, <1>7

LEMMA AppendDurable ==
  Durable /\ (BeginWrite \/ FinishWrite \/ PreflightFails \/ AppendFails) /\ TypeOK'
    => Durable'
<1> SUFFICES ASSUME Durable, TypeOK',
                    BeginWrite \/ FinishWrite \/ PreflightFails \/ AppendFails
             PROVE  Durable'
  OBVIOUS
<1> USE DEF Durable
<1>1. /\ UNCHANGED <<disk, dirs, fd, head>> /\ fd \in Files
      /\ pc \notin {"closed", "locked", "renamed"}
      /\ pc' \in {"writing", "written", "idle"}
  BY DEF BeginWrite, FinishWrite, PreflightFails, AppendFails, procVars, fileVars, TypeOK
<1>2. CheckpointBehind'
  BY <1>1, BehindFacts DEF Entries
<1>3. InPlace'
  BY <1>1 DEF InPlace, Now
<1>4. CASE BeginWrite
  <2>1. /\ cache' = [cache EXCEPT ![fd].end = "torn"] /\ pc' = "writing"
    BY <1>4 DEF BeginWrite
  <2>2. CacheAhead'
    BY <1>1, <2>1 DEF CacheAhead, TypeOK, File
  <2>3. Synced'
    BY <2>1 DEF Synced
  <2> QED
    BY <1>2, <1>3, <2>2, <2>3
<1>5. CASE FinishWrite
  <2>1. /\ cache' = [cache EXCEPT ![fd] = WrittenTo(disk[fd], NewRecord)]
        /\ pc' = "written" /\ NewRecord' = NewRecord
    BY <1>5 DEF FinishWrite, NewRecord
  <2>2. \A f \in Files :
          cache'[f] = IF f = fd THEN WrittenTo(disk[fd], NewRecord) ELSE cache[f]
    BY <2>1 DEF TypeOK
  <2>3. disk[fd].end = "line" /\ disk[fd] \in File
    BY <1>1, FileFacts DEF InPlace
  <2>4. /\ WrittenTo(disk[fd], NewRecord).log = Append(disk[fd].log, NewRecord)
        /\ WrittenTo(disk[fd], NewRecord).end = "line"
    BY <2>3 DEF WrittenTo, File
  <2>5. IsPrefix(disk[fd].log, Append(disk[fd].log, NewRecord))
    BY <1>1, FileFacts, PrefixOfAppend, RecordTyped DEF TypeOK
  <2>6. CacheAhead'
    BY <1>1, <2>2, <2>4, <2>5 DEF CacheAhead
  <2>7. Synced'
    BY <1>1, <2>1, <2>2 DEF Synced
  <2> QED
    BY <1>2, <1>3, <2>6, <2>7
<1>6. CASE PreflightFails
  <2>1. UNCHANGED cache /\ pc' = "idle" /\ poisoned'
    BY <1>6 DEF PreflightFails, fileVars, Poison
  <2>2. CacheAhead'
    BY <1>1, <2>1 DEF CacheAhead
  <2>3. Synced'
    BY <2>1 DEF Synced
  <2> QED
    BY <1>2, <1>3, <2>2, <2>3
<1>7. CASE AppendFails
  <2>1. /\ cache' = [cache EXCEPT ![fd] = disk[fd]] \/ UNCHANGED cache
        /\ pc' = "idle" /\ poisoned'
    BY <1>7 DEF AppendFails, Poison
  <2>2. CacheAhead'
    BY <1>1, <2>1, FileFacts, PrefixReflexive DEF CacheAhead, TypeOK
  <2>3. Synced'
    BY <2>1 DEF Synced
  <2> QED
    BY <1>2, <1>3, <2>2, <2>3
<1> QED
  BY <1>4, <1>5, <1>6, <1>7

LEMMA SyncDurable == Durable /\ SyncRecord /\ TypeOK' => Durable'
<1> SUFFICES ASSUME Durable, SyncRecord, TypeOK' PROVE Durable'
  OBVIOUS
<1> USE DEF Durable
<1>1. /\ pc = "written" /\ pc' = "committed" /\ UNCHANGED <<cache, dirs, fd, replacement>>
      /\ disk' = [disk EXCEPT ![fd] = cache[fd]] /\ head' = Append(head, NewRecord)
  BY DEF SyncRecord
<1>2. /\ fd \in Files /\ \A f \in Files : disk'[f] = IF f = fd THEN cache[fd] ELSE disk[f]
  BY <1>1 DEF TypeOK
<1>3. cache[fd].log = Append(disk[fd].log, NewRecord) /\ cache[fd].end = "line"
  BY <1>1, <1>2, FileFacts DEF Synced, InPlace, WrittenTo, File
<1>4. CacheAhead'
  BY <1>1, <1>2, FileFacts, PrefixReflexive DEF CacheAhead
<1>5. InPlace'
  BY <1>1, <1>2, <1>3 DEF InPlace, Now
<1>6. Synced'
  BY <1>1, <1>2, <1>3 DEF Synced, Clean
<1>7. \A f \in Files : IsPrefix(disk[f].log, disk'[f].log)
  BY <1>2, FileFacts, PrefixReflexive DEF CacheAhead
<1>8. CheckpointBehind'
  BY <1>1, <1>7, EntryFacts, GrowthKeepsBehind DEF Entries
<1> QED
  BY <1>4, <1>5, <1>6, <1>8

LEMMA ReturnDurable ==
  Durable /\ (ReturnFromAppend \/ Shutdown) /\ TypeOK' => Durable'
<1> SUFFICES ASSUME Durable, ReturnFromAppend \/ Shutdown, TypeOK' PROVE Durable'
  OBVIOUS
<1> USE DEF Durable
<1>1. /\ UNCHANGED <<disk, cache, fd>> /\ WriteCheckpoint(dirs, head)
      /\ pc \in {"committed", "idle"} /\ pc' \in {"compact", "idle", "closed"}
  BY DEF ReturnFromAppend, Shutdown, Committed, Closed, fileVars, procVars
<1>2. Now.file = fd /\ head = disk[Now.file].log
  BY <1>1 DEF InPlace
<1>3. CheckpointBehind' /\ Now'.file = Now.file
  BY <1>1, <1>2, CheckpointKeepsBehind
<1>4. CacheAhead'
  BY <1>1 DEF CacheAhead
<1>5. InPlace' /\ Synced'
  <2>1. CASE ReturnFromAppend
    BY <1>1, <1>2, <1>3, <2>1 DEF ReturnFromAppend, Committed, InPlace, Synced,
       Clean, procVars
  <2>2. CASE Shutdown
    BY <2>2 DEF Shutdown, Closed, InPlace, Synced
  <2> QED
    BY <2>1, <2>2
<1> QED
  BY <1>3, <1>4, <1>5

(* The replacement is a fresh file; the current one stays as it is.         *)
LEMMA CompactionStartsFacts ==
  ASSUME Durable, CompactionStarts
  PROVE  /\ replacement' \in Files /\ replacement' # fd
         /\ \A e \in Entries : e.file # replacement'
         /\ \A g \in Files \ {replacement'} : disk'[g] = disk[g] /\ cache'[g] = cache[g]
         /\ disk'[replacement'] = cache'[replacement']
         /\ disk'[replacement'].log = <<[state |-> acked, compacted |-> TRUE]>>
         /\ disk'[replacement'].end = "line"
         /\ Now'.file = Now.file /\ Now'.checkpoint = {}
         /\ \A e \in Range(dirs') : e \in Entries \/ (e.checkpoint = {} /\ e.file = Now.file)
<1> USE DEF Durable
<1> DEFINE compacted == [log |-> <<[state |-> acked, compacted |-> TRUE]>>, end |-> "line"]
<1>1. PICK f \in Files :
        /\ \A i \in DOMAIN dirs : dirs[i].file # f
        /\ replacement' = f
        /\ disk' = [disk EXCEPT ![fd] = cache[fd], ![f] = compacted]
        /\ cache' = [cache EXCEPT ![f] = compacted]
  BY DEF CompactionStarts
<1>2. /\ pc = "compact"
      /\ \/ Now.checkpoint = {} /\ UNCHANGED dirs
         \/ dirs' = Append(dirs, WithoutCheckpoint(Now))
  BY DEF CompactionStarts
<1>3. /\ fd \in Files /\ Now.file = fd /\ disk[fd] = cache[fd] /\ Now \in Entries
  BY <1>2, EntryFacts DEF InPlace, Synced, Clean, TypeOK
<1>4. \A e \in Entries : e.file # f
  BY <1>1 DEF Entries, Range
<1>5. \A g \in Files : /\ disk'[g] = IF g = f THEN compacted ELSE disk[g]
                       /\ cache'[g] = IF g = f THEN compacted ELSE cache[g]
  BY <1>1, <1>3 DEF TypeOK
<1>6. /\ Now'.file = Now.file /\ Now'.checkpoint = {}
      /\ \A e \in Range(dirs') : e \in Entries \/ (e.checkpoint = {} /\ e.file = Now.file)
  <2>1. /\ WithoutCheckpoint(Now) \in Entry /\ WithoutCheckpoint(Now).file = Now.file
        /\ WithoutCheckpoint(Now).checkpoint = {}
    BY EntryFacts DEF WithoutCheckpoint, Entry
  <2>2. /\ Last(Append(dirs, WithoutCheckpoint(Now))) = WithoutCheckpoint(Now)
        /\ Range(Append(dirs, WithoutCheckpoint(Now))) = Entries \cup {WithoutCheckpoint(Now)}
    BY <2>1, AppendFacts
  <2>3. CASE Now.checkpoint = {} /\ UNCHANGED dirs
    BY <2>3 DEF Now, Entries
  <2>4. CASE dirs' = Append(dirs, WithoutCheckpoint(Now))
    BY <2>1, <2>2, <2>4 DEF Now, Entries
  <2> QED
    BY <1>2, <2>3, <2>4
<1>7. compacted.log = <<[state |-> acked, compacted |-> TRUE]>> /\ compacted.end = "line"
  OBVIOUS
<1>8. /\ disk'[f] = cache'[f] /\ disk'[f].end = "line"
      /\ disk'[f].log = <<[state |-> acked, compacted |-> TRUE]>>
  BY <1>5, <1>7
<1> QED
  BY <1>1, <1>3, <1>4, <1>5, <1>6, <1>8

LEMMA CompactionStartsDurable == Durable /\ CompactionStarts /\ TypeOK' => Durable'
<1> SUFFICES ASSUME Durable, CompactionStarts, TypeOK' PROVE Durable'
  OBVIOUS
<1> USE DEF Durable
<1>1. /\ pc = "compact" /\ pc' \in {"removed", "synced"} /\ UNCHANGED <<fd, head>>
  BY DEF CompactionStarts
<1>2. /\ fd \in Files /\ Now.file = fd /\ disk[fd] = cache[fd] /\ disk[fd].end = "line"
  BY <1>1 DEF InPlace, Synced, Clean, TypeOK
<1>3. CacheAhead'
  <2>1. disk'[replacement'].log \in Seq(Record)
    BY CompactionStartsFacts DEF TypeOK, File
  <2>2. IsPrefix(disk'[replacement'].log, disk'[replacement'].log)
    BY <2>1, PrefixReflexive
  <2> QED
    BY CompactionStartsFacts, <2>2 DEF CacheAhead
<1>4. InPlace'
  BY <1>1, <1>2, CompactionStartsFacts DEF InPlace
<1>5. Synced'
  BY <1>1, <1>2, CompactionStartsFacts DEF Synced, Clean
<1>6. CheckpointBehind'
  <2>1. \A e \in Entries : disk'[e.file] = disk[e.file]
    BY EntryFacts, CompactionStartsFacts
  <2>2. Behind(Range(dirs'), disk')
    BY <2>1, CompactionStartsFacts, BehindFacts DEF Behind
  <2> QED
    BY <2>2, BehindFacts
<1> QED
  BY <1>3, <1>4, <1>5, <1>6

LEMMA CompactionRenamesDurable ==
  Durable /\ (CompactionSyncs \/ CompactionRenames \/ CompactionDeferred) /\ TypeOK'
    => Durable'
<1> SUFFICES ASSUME Durable, TypeOK',
                    CompactionSyncs \/ CompactionRenames \/ CompactionDeferred
             PROVE  Durable'
  OBVIOUS
<1> USE DEF Durable
<1>1. UNCHANGED <<disk, cache, fd, head, replacement>>
  BY DEF CompactionSyncs, CompactionRenames, CompactionDeferred, fileVars, procVars
<1>2. CacheAhead'
  BY <1>1 DEF CacheAhead
<1>3. CASE CompactionSyncs
  <2>1. /\ pc = "removed" /\ pc' = "synced" /\ dirs' = <<Now>>
    BY <1>3 DEF CompactionSyncs, SyncParent
  <2>2. Now' = Now /\ Range(dirs') = {Now} /\ Now \in Entries
    BY <2>1, EntryFacts DEF Now
  <2>3. InPlace' /\ Synced'
    BY <1>1, <2>1, <2>2 DEF InPlace, Synced, Clean
  <2>4. CheckpointBehind'
    BY <1>1, <2>2, BehindFacts DEF Behind
  <2> QED
    BY <1>2, <2>3, <2>4
<1>4. CASE CompactionRenames
  <2> DEFINE e == [Now EXCEPT !.file = replacement]
  <2>1. /\ pc = "synced" /\ pc' = "renamed" /\ dirs' = Append(dirs, e)
    BY <1>4 DEF CompactionRenames
  <2>2. e \in Entry /\ e.file = replacement /\ e.checkpoint = {}
    BY <2>1, EntryFacts DEF Entry, TypeOK, Synced
  <2>3. Now' = e /\ Range(dirs') = Entries \cup {e}
    BY <2>1, <2>2, AppendFacts DEF Now
  <2>4. InPlace' /\ Synced'
    BY <1>1, <2>1, <2>2, <2>3 DEF InPlace, Synced, Clean
  <2>5. CheckpointBehind'
    BY <1>1, <2>2, <2>3, BehindFacts DEF Behind
  <2> QED
    BY <1>2, <2>4, <2>5
<1>5. CASE CompactionDeferred
  <2>1. /\ pc \in {"compact", "removed", "synced"} /\ pc' = "idle" /\ UNCHANGED dirs
    BY <1>5 DEF CompactionDeferred
  <2>2. InPlace' /\ Synced'
    BY <1>1, <2>1 DEF InPlace, Synced, Clean, Now
  <2>3. CheckpointBehind'
    BY <1>1, <2>1, BehindFacts DEF Entries
  <2> QED
    BY <1>2, <2>2, <2>3
<1> QED
  BY <1>3, <1>4, <1>5

LEMMA CompactionEndsDurable == Durable /\ CompactionEnds /\ TypeOK' => Durable'
<1> SUFFICES ASSUME Durable, CompactionEnds, TypeOK' PROVE Durable'
  OBVIOUS
<1> USE DEF Durable
<1>1. /\ pc = "renamed" /\ pc' = "idle" /\ UNCHANGED <<disk, cache>>
      /\ fd' = replacement /\ head' = cache[replacement].log
  BY DEF CompactionEnds, fileVars
<1>2. PICK base \in {dirs, <<Now>>} : WriteCheckpoint(base, cache[replacement].log)
  BY DEF CompactionEnds, MayFail
<1>3. Now.file = replacement /\ Clean(replacement)
  BY <1>1 DEF InPlace, Synced
<1>4. CheckpointBehind' /\ Now'.file = replacement
  BY <1>1, <1>2, <1>3, CheckpointKeepsBehind DEF Clean
<1>5. CacheAhead'
  BY <1>1 DEF CacheAhead
<1>6. InPlace' /\ Synced'
  BY <1>1, <1>3, <1>4 DEF InPlace, Synced, Clean
<1> QED
  BY <1>4, <1>5, <1>6

LEMMA SurvivorFacts ==
  ASSUME TypeOK, PowerLoss
  PROVE  /\ Entries' \subseteq Entries /\ cache' = disk'
         /\ \A f \in Files : disk'[f] \in Survivors(disk[f], cache[f])
<1>1. PICK i \in DOMAIN dirs : dirs' = <<dirs[i]>>
  BY DEF PowerLoss
<1>2. dirs[i] \in Entries /\ dirs[i] \in Entry
  BY <1>1, EntryFacts DEF Entries, Range
<1>3. Range(dirs') = {dirs[i]}
  BY <1>1, <1>2, OneEntryFacts
<1> QED
  BY <1>2, <1>3 DEF PowerLoss, Entries

LEMMA LossDurable ==
  ASSUME "newline" \notin Faults, Durable, Kill \/ PowerLoss, TypeOK'
  PROVE  Durable'
<1> USE DEF Durable
<1>1. pc' = "closed"
  BY DEF Kill, PowerLoss, Closed
<1>2. InPlace' /\ Synced'
  BY <1>1 DEF InPlace, Synced
<1>3. CASE Kill
  BY <1>2, <1>3, BehindFacts DEF Kill, fileVars, CacheAhead, Entries
<1>4. CASE PowerLoss
  <2>1. /\ Range(dirs') \subseteq Entries /\ cache' = disk'
        /\ \A f \in Files : disk'[f] \in Survivors(disk[f], cache[f])
    BY <1>4, SurvivorFacts DEF Entries
  <2>2. \A f \in Files : /\ disk'[f].log \in {disk[f].log, cache[f].log}
                         /\ disk'[f].end # "bare"
    BY <2>1, FileFacts DEF Survivors, CacheAhead, File
  <2>3. \A f \in Files : IsPrefix(disk[f].log, disk'[f].log)
    BY <2>2, FileFacts, PrefixReflexive DEF CacheAhead
  <2>4. CheckpointBehind'
    BY <2>1, <2>3, EntryFacts, GrowthKeepsBehind
  <2>5. CacheAhead'
    BY <2>1, <2>2, FileFacts, PrefixReflexive DEF CacheAhead
  <2> QED
    BY <1>2, <2>4, <2>5
<1> QED
  BY <1>3, <1>4

LEMMA DurableStep ==
  ASSUME "newline" \notin Faults, Durable, [Next]_vars
  PROVE  Durable'
<1>1. TypeOK'
  BY TypeStep DEF Durable
<1>2. CASE UNCHANGED vars
  BY <1>1, <1>2, BehindFacts DEF vars, fileVars, procVars, told, Durable, CacheAhead,
     InPlace, Synced, Clean, Now, NewRecord, Entries
<1> QED
  BY <1>1, <1>2, OpenDurable, RecoverDurable, AppendDurable, SyncDurable, ReturnDurable,
     CompactionStartsDurable, CompactionRenamesDurable, CompactionEndsDurable,
     LossDurable DEF Next

LEMMA DurableAlways ==
  ASSUME "newline" \notin Faults
  PROVE  Spec => []Durable
<1>1. Durable /\ [Next]_vars => Durable'
  BY DurableStep
<1> QED
  BY <1>1, DurableInit, PTL DEF Spec

(* No checkpoint that a restart may find is ahead of its log, unless a loss *)
(* of power can keep a record without its line end.                         *)
THEOREM CheckpointSafety ==
  ASSUME "newline" \notin Faults
  PROVE  Spec => []CheckpointBehind
BY DurableAlways, PTL DEF Durable

LEMMA DurableReadable == Durable => StaysReadable
<1> SUFFICES ASSUME Durable, pc \notin {"closed", "writing", "written"}, ~poisoned
             PROVE  Found # {}
  BY DEF StaysReadable
<1> USE DEF Durable
<1>1. Now \in Entries /\ Now.file \in Files /\ Now.checkpoint \subseteq Seq(Record)
  BY EntryFacts
<1>2. cache[Now.file].end = "line"
  BY <1>1 DEF InPlace, Synced, Clean, TypeOK, Place
<1>3. \A c \in Now.checkpoint : IsPrefix(c, cache[Now.file].log)
  BY <1>1, BehindFacts, FileFacts, PrefixTransitive DEF Behind, CacheAhead
<1> QED
  BY <1>2, <1>3 DEF Found, Verified

(* A journal that opened and is not poisoned can be opened again.           *)
THEOREM Readability ==
  ASSUME "newline" \notin Faults
  PROVE  Spec => []StaysReadable
BY DurableAlways, DurableReadable, PTL

-----------------------------------------------------------------------------
(* Refinement.                                                              *)

LEMMA StateOfAppend ==
  ASSUME NEW log \in Seq(Record), NEW r \in Record
  PROVE  StateOf(Append(log, r)) = r.state
BY LastOfAppend DEF StateOf

LEMMA StateOfOne ==
  ASSUME NEW r \in Record
  PROVE  StateOf(<<r>>) = r.state
BY OneEntryFacts DEF StateOf

(* The directory names no file that it did not name, and no file changed.   *)
LEMMA StillSettled ==
  ASSUME Settled, Unsettled, UNCHANGED <<disk, cache, acked, inflight>>,
         \A e \in Range(dirs') : \E g \in Entries : e.file = g.file
  PROVE  Settled' /\ Unsettled'
<1>1. \A e \in Entries' : \E g \in Entries : e.file = g.file
  BY DEF Entries
<1>2. Settled'
  BY <1>1 DEF Settled, Clean, Holds
<1>3. Unsettled'
  BY <1>1 DEF Unsettled, Holds
<1> QED
  BY <1>2, <1>3

LEMMA RefinesInit == Init => Refines
<1> SUFFICES ASSUME Init PROVE Refines
  OBVIOUS
<1>1. PICK f \in Files :
        /\ dirs = <<[file |-> f, checkpoint |-> {}]>> /\ pc = "closed"
        /\ disk = [g \in Files |-> Empty] /\ cache = disk /\ acked = 0 /\ inflight = {}
  BY DEF Init
<1>2. \A g \in Files : disk[g] = Empty /\ cache[g] = Empty
  BY <1>1
<1>3. Empty.end = "line" /\ StateOf(Empty.log) = 0
  BY DEF Empty, StateOf
<1>4. \A e \in Entries : e.file \in Files
  BY TypeInit, EntryFacts
<1>5. Settled
  BY <1>1, <1>2, <1>3, <1>4 DEF Settled, Clean, Holds
<1>6. OneFile /\ Unsettled /\ AtWork
  BY <1>1 DEF OneFile, Unsettled, AtWork
<1> QED
  BY <1>5, <1>6, DurableInit DEF Refines, Told

LEMMA OpenTold == Refines /\ OpenJournal => Told'
<1> SUFFICES ASSUME Refines, OpenJournal PROVE Told'
  OBVIOUS
<1> USE DEF Refines, Durable, Told
<1>1. /\ dirs' = <<Now>> /\ pc' = "locked" /\ fd' = Now.file
      /\ UNCHANGED <<disk, cache, acked, inflight>>
  BY DEF OpenJournal, SyncParent, fileVars, told
<1>2. Range(dirs') = {Now} /\ Now \in Entries /\ Len(dirs') = 1
  BY <1>1, EntryFacts, OneEntryFacts
<1>3. Settled' /\ Unsettled'
  BY <1>1, <1>2, StillSettled
<1>4. OneFile' /\ AtWork'
  BY <1>1, <1>2 DEF OneFile, AtWork, Entries
<1> QED
  BY <1>3, <1>4

LEMMA RecoverTold == Refines /\ Recover => Told'
<1> SUFFICES ASSUME Refines, Recover PROVE Told'
  OBVIOUS
<1> USE DEF Refines, Durable, Told
<1>1. /\ pc = "locked" /\ pc' = "idle" /\ UNCHANGED <<cache, dirs, fd, head>>
      /\ disk' = [disk EXCEPT ![fd] = cache[fd]]
      /\ acked' = StateOf(head) /\ inflight' = {}
  BY DEF Recover, procVars
<1>2. fd \in Files /\ disk'[fd] = cache[fd] /\ cache[fd].end = "line" /\ head = cache[fd].log
  BY <1>1 DEF TypeOK, InPlace
<1>3. \A e \in Entries : e.file = fd
  BY <1>1 DEF OneFile
<1>4. Settled'
  BY <1>1, <1>2, <1>3 DEF Settled, Clean, Holds, Entries
<1>5. Unsettled' /\ AtWork' /\ OneFile'
  BY <1>1, <1>3 DEF Unsettled, AtWork, OneFile, Entries
<1> QED
  BY <1>4, <1>5

LEMMA WriteTold == Refines /\ (BeginWrite \/ FinishWrite \/ SyncRecord) => Told'
<1> SUFFICES ASSUME Refines, BeginWrite \/ FinishWrite \/ SyncRecord PROVE Told'
  OBVIOUS
<1> USE DEF Refines, Durable, Told
<1>1. /\ UNCHANGED <<dirs, fd, acked>> /\ pc \in {"idle", "writing", "written"}
      /\ pc' \in {"writing", "written", "committed"} /\ fd \in Files
  BY DEF BeginWrite, FinishWrite, SyncRecord, procVars, told, TypeOK
<1>2. \A e \in Entries : e.file = fd
  BY <1>1 DEF OneFile
<1>3. OneFile' /\ Entries' = Entries
  BY <1>1, <1>2 DEF OneFile, Entries
<1>4. Now \in Entries /\ Now.file = fd /\ disk[fd].log \in Seq(Record) /\ NewRecord \in Record
  BY <1>1, EntryFacts, FileFacts, RecordTyped DEF InPlace, TypeOK
<1>5. CASE BeginWrite
  <2>1. /\ pc = "idle" /\ ~poisoned /\ used' = used + 1 /\ inflight' = {used'}
        /\ cache' = [cache EXCEPT ![fd].end = "torn"] /\ pc' = "writing" /\ UNCHANGED disk
    BY <1>5 DEF BeginWrite
  <2>2. StateOf(disk[fd].log) = acked /\ StateOf(cache[fd].log) = acked
    BY <1>4, <2>1 DEF AtWork, Settled, Holds
  <2>3. cache'[fd].log = cache[fd].log
    BY <1>1, <2>1 DEF TypeOK, File
  <2>4. Settled' /\ Unsettled'
    BY <1>1, <1>2, <1>3, <2>1, <2>2, <2>3 DEF Settled, Unsettled, Holds
  <2>5. AtWork'
    BY <1>1, <2>1, <2>2 DEF AtWork
  <2> QED
    BY <1>3, <2>4, <2>5
<1>6. CASE FinishWrite
  <2>1. /\ pc = "writing" /\ pc' = "written" /\ UNCHANGED <<disk, used, inflight>>
        /\ cache' = [cache EXCEPT ![fd] = WrittenTo(disk[fd], NewRecord)]
    BY <1>6 DEF FinishWrite, told
  <2>2. disk[fd].end = "line" /\ StateOf(disk[fd].log) = acked /\ inflight = {used}
    BY <2>1 DEF InPlace, AtWork
  <2>3. cache'[fd].log = Append(disk[fd].log, NewRecord)
    BY <1>1, <2>1, <2>2, FileFacts DEF WrittenTo, File, TypeOK
  <2>4. StateOf(cache'[fd].log) = used
    BY <1>4, <2>3, StateOfAppend DEF NewRecord
  <2>5. Settled' /\ Unsettled'
    BY <1>1, <1>2, <1>3, <2>1, <2>2, <2>4 DEF Settled, Unsettled, Holds
  <2>6. AtWork'
    BY <1>1, <2>1, <2>2 DEF AtWork
  <2> QED
    BY <1>3, <2>5, <2>6
<1>7. CASE SyncRecord
  <2>1. /\ pc = "written" /\ pc' = "committed" /\ UNCHANGED <<cache, used, inflight>>
        /\ disk' = [disk EXCEPT ![fd] = cache[fd]]
    BY <1>7 DEF SyncRecord, told
  <2>2. disk[fd].end = "line" /\ inflight = {used}
    BY <2>1 DEF InPlace, AtWork
  <2>3. disk'[fd] = cache[fd] /\ cache[fd].log = Append(disk[fd].log, NewRecord)
    BY <1>1, <2>1, <2>2, FileFacts DEF Synced, WrittenTo, File, TypeOK
  <2>4. StateOf(cache[fd].log) = used
    BY <1>4, <2>3, StateOfAppend DEF NewRecord
  <2>5. Settled' /\ Unsettled'
    BY <1>1, <1>2, <1>3, <2>1, <2>2, <2>3, <2>4 DEF Settled, Unsettled, Holds
  <2>6. AtWork'
    BY <1>1, <2>1, <2>2, <2>3, <2>4 DEF AtWork
  <2> QED
    BY <1>3, <2>5, <2>6
<1> QED
  BY <1>5, <1>6, <1>7

LEMMA FailTold == Refines /\ (PreflightFails \/ AppendFails) => Told'
<1> SUFFICES ASSUME Refines, PreflightFails \/ AppendFails PROVE Told'
  OBVIOUS
<1> USE DEF Refines, Durable, Told
<1>1. /\ UNCHANGED <<dirs, disk, fd, acked>> /\ pc \in {"idle", "writing", "written"}
      /\ pc' = "idle" /\ poisoned' /\ fd \in Files
  BY DEF PreflightFails, AppendFails, Poison, fileVars, told, TypeOK
<1>2. \A e \in Entries : e.file = fd
  BY <1>1 DEF OneFile
<1>3. OneFile' /\ AtWork' /\ Entries' = Entries
  BY <1>1, <1>2 DEF OneFile, AtWork, Entries
<1>4. CASE UNCHANGED <<cache, inflight>>
  BY <1>1, <1>3, <1>4, StillSettled DEF Entries
<1>5. CASE cache' = [cache EXCEPT ![fd] = disk[fd]] /\ inflight' = {} /\ AppendFails
  <2>1. StateOf(disk[fd].log) = acked /\ disk[fd].end = "line"
    BY <1>5 DEF AppendFails, AtWork, InPlace
  <2>2. cache'[fd] = disk[fd]
    BY <1>1, <1>5 DEF TypeOK
  <2>3. Settled' /\ Unsettled'
    BY <1>1, <1>2, <1>3, <1>5, <2>1, <2>2 DEF Settled, Unsettled, Clean, Holds
  <2> QED
    BY <1>3, <2>3
<1> QED
  BY <1>4, <1>5 DEF PreflightFails, AppendFails, fileVars, told

LEMMA ReturnTold == Refines /\ (ReturnFromAppend \/ Shutdown) => Told'
<1> SUFFICES ASSUME Refines, ReturnFromAppend \/ Shutdown PROVE Told'
  OBVIOUS
<1> USE DEF Refines, Durable, Told
<1>1. /\ UNCHANGED <<disk, cache, fd>> /\ WriteCheckpoint(dirs, head)
      /\ pc \in {"committed", "idle"} /\ fd \in Files
  BY DEF ReturnFromAppend, Shutdown, Committed, Closed, fileVars, procVars, TypeOK
<1>2. Now.file = fd /\ head = disk[Now.file].log /\ Now \in Entries
  BY <1>1, EntryFacts DEF InPlace
<1>3. \A e \in Entries' : e.file = fd
  BY <1>1, <1>2, CheckpointKeepsBehind DEF OneFile, Entries
<1>4. CASE ReturnFromAppend
  <2>1. /\ pc = "committed" /\ acked' = used /\ inflight' = {} /\ pc' \in {"compact", "idle"}
    BY <1>4 DEF ReturnFromAppend, Committed
  <2>2. Clean(fd) /\ StateOf(disk[fd].log) = used
    BY <2>1 DEF Synced, AtWork
  <2>3. Settled' /\ Unsettled'
    BY <1>1, <1>3, <2>1, <2>2 DEF Settled, Unsettled, Clean, Holds
  <2>4. OneFile' /\ AtWork'
    BY <1>1, <1>3, <2>1 DEF OneFile, AtWork
  <2> QED
    BY <2>3, <2>4
<1>5. CASE Shutdown
  <2>1. pc' = "closed" /\ UNCHANGED <<acked, inflight>>
    BY <1>5 DEF Shutdown, Closed, told
  <2>2. Settled' /\ Unsettled'
    BY <1>1, <1>2, <1>3, <2>1, StillSettled DEF Entries
  <2>3. OneFile' /\ AtWork'
    BY <2>1 DEF OneFile, AtWork
  <2> QED
    BY <2>2, <2>3
<1> QED
  BY <1>4, <1>5

LEMMA CompactionTold ==
  Refines /\ (CompactionStarts \/ CompactionSyncs \/ CompactionRenames \/ CompactionDeferred)
    => Told'
<1> SUFFICES ASSUME Refines, \/ CompactionStarts \/ CompactionSyncs
                             \/ CompactionRenames \/ CompactionDeferred
             PROVE  Told'
  OBVIOUS
<1> USE DEF Refines, Durable, Told
<1>1. /\ pc \in {"compact", "removed", "synced"} /\ UNCHANGED <<fd, acked, inflight>>
      /\ fd \in Files /\ inflight = {} /\ replacement \in Files
  BY DEF CompactionStarts, CompactionSyncs, CompactionRenames, CompactionDeferred,
     procVars, told, AtWork, TypeOK
<1>2. /\ \A e \in Entries : e.file = fd /\ Clean(fd) /\ StateOf(disk[fd].log) = acked
      /\ Now \in Entries
  BY <1>1, EntryFacts DEF OneFile, Settled, Holds
<1>3. Unsettled'
  BY <1>1 DEF Unsettled
<1>4. CASE CompactionStarts
  <2>1. pc' \in {"removed", "synced"}
    BY <1>4 DEF CompactionStarts
  <2>2. disk'[fd] = disk[fd] /\ cache'[fd] = cache[fd]
    BY <1>1, <1>4, CompactionStartsFacts
  <2>3. \A e \in Entries' : e.file = fd
    BY <1>2, <1>4, CompactionStartsFacts DEF Entries
  <2>4. StateOf(disk'[replacement'].log) = acked
    <3> DEFINE r == [state |-> acked, compacted |-> TRUE]
    <3>1. r \in Record /\ r.state = acked
      BY DEF Record, TypeOK
    <3>2. StateOf(<<r>>) = acked
      BY <3>1, StateOfOne
    <3>3. disk'[replacement'].log = <<r>>
      BY <1>4, CompactionStartsFacts
    <3> QED
      BY <3>2, <3>3
  <2>5. Settled'
    BY <1>1, <1>2, <2>2, <2>3 DEF Settled, Clean, Holds
  <2>6. OneFile' /\ AtWork'
    BY <1>1, <2>1, <2>3, <2>4 DEF OneFile, AtWork
  <2> QED
    BY <1>3, <2>5, <2>6
<1>5. CASE CompactionSyncs
  <2>1. /\ pc = "removed" /\ pc' = "synced" /\ dirs' = <<Now>>
        /\ UNCHANGED <<disk, cache, replacement>>
    BY <1>5 DEF CompactionSyncs, SyncParent, fileVars, procVars
  <2>2. Range(dirs') = {Now}
    BY <2>1, EntryFacts
  <2>3. Settled' /\ OneFile' /\ AtWork'
    BY <1>1, <1>2, <2>1, <2>2, StillSettled DEF OneFile, AtWork, Entries
  <2> QED
    BY <1>3, <2>3
<1>6. CASE CompactionRenames
  <2> DEFINE e == [Now EXCEPT !.file = replacement]
  <2>1. /\ pc = "synced" /\ pc' = "renamed" /\ dirs' = Append(dirs, e)
        /\ UNCHANGED <<disk, cache, replacement>>
    BY <1>6 DEF CompactionRenames, fileVars, procVars
  <2>2. e \in Entry /\ e.file = replacement
    BY <1>1, EntryFacts DEF Entry
  <2>3. Range(dirs') = Entries \cup {e}
    BY <2>1, <2>2, AppendFacts
  <2>4. Clean(replacement) /\ StateOf(disk[replacement].log) = acked
    BY <2>1 DEF Synced, AtWork
  <2>5. Settled'
    BY <1>1, <1>2, <2>1, <2>2, <2>3, <2>4 DEF Settled, Clean, Holds, Entries
  <2>6. OneFile' /\ AtWork'
    BY <1>1, <2>1, <2>4 DEF OneFile, AtWork
  <2> QED
    BY <1>3, <2>5, <2>6
<1>7. CASE CompactionDeferred
  <2>1. pc' = "idle" /\ UNCHANGED <<disk, cache, dirs>>
    BY <1>7 DEF CompactionDeferred, fileVars
  <2>2. Settled' /\ OneFile' /\ AtWork'
    BY <1>1, <1>2, <2>1, StillSettled DEF OneFile, AtWork, Entries
  <2> QED
    BY <1>3, <2>2
<1> QED
  BY <1>4, <1>5, <1>6, <1>7

LEMMA CompactionEndsTold ==
  ASSUME "rename" \notin Faults, Refines, CompactionEnds
  PROVE  Told'
<1> USE DEF Refines, Durable, Told
<1>1. /\ pc = "renamed" /\ pc' = "idle" /\ UNCHANGED <<disk, cache, acked, inflight>>
      /\ fd' = replacement /\ WriteCheckpoint(<<Now>>, cache[replacement].log)
  BY DEF CompactionEnds, fileVars, told, MayFail
<1>2. /\ Now.file = replacement /\ disk[replacement] = cache[replacement] /\ inflight = {}
      /\ Now \in Entries /\ Range(<<Now>>) = {Now}
  BY <1>1, EntryFacts DEF InPlace, Synced, Clean, AtWork
<1>3. \A e \in Entries' : e.file = Now.file
  <2>1. \A e \in Range(dirs') : e \in Range(<<Now>>) \/ e.file = Now.file
    BY <1>1, <1>2, CheckpointKeepsBehind
  <2> QED
    BY <1>2, <2>1 DEF Entries
<1>4. Settled' /\ Unsettled'
  BY <1>1, <1>2, <1>3, StillSettled DEF Entries
<1>5. OneFile' /\ AtWork'
  BY <1>1, <1>2, <1>3 DEF OneFile, AtWork
<1> QED
  BY <1>4, <1>5

LEMMA LossTold ==
  ASSUME "newline" \notin Faults, Refines, Kill \/ PowerLoss
  PROVE  Told'
<1> USE DEF Refines, Durable, Told
<1>1. pc' = "closed" /\ UNCHANGED <<acked, inflight>>
  BY DEF Kill, PowerLoss, Closed, told
<1>2. OneFile' /\ AtWork'
  BY <1>1 DEF OneFile, AtWork
<1>3. CASE Kill
  BY <1>1, <1>2, <1>3, StillSettled DEF Kill, fileVars, Entries
<1>4. CASE PowerLoss
  <2>1. /\ Entries' \subseteq Entries /\ cache' = disk'
        /\ \A f \in Files : disk'[f] \in Survivors(disk[f], cache[f])
    BY <1>4, SurvivorFacts
  <2>2. \A f \in Files : /\ disk'[f].log \in {disk[f].log, cache[f].log}
                         /\ Clean(f) => disk'[f] = disk[f]
    BY <2>1, FileFacts DEF Survivors, File, Clean
  <2>3. \A e \in Entries : e.file \in Files
    BY EntryFacts
  <2>4. Settled' /\ Unsettled'
    BY <1>1, <2>1, <2>2, <2>3 DEF Settled, Unsettled, Holds, Clean
  <2> QED
    BY <1>2, <2>4
<1> QED
  BY <1>3, <1>4

LEMMA RefinesStep ==
  ASSUME "newline" \notin Faults, "rename" \notin Faults, Refines, [Next]_vars
  PROVE  Refines'
<1>1. Durable'
  BY DurableStep DEF Refines
<1>2. CASE UNCHANGED vars
  BY <1>1, <1>2 DEF vars, fileVars, procVars, told, Refines, Told, OneFile, Settled,
     Unsettled, AtWork, Clean, Holds, Entries
<1> QED
  BY <1>1, <1>2, OpenTold, RecoverTold, WriteTold, FailTold, ReturnTold, CompactionTold,
     CompactionEndsTold, LossTold DEF Next, Refines

(* What a restart would find, in the terms of the store.                    *)
FoundIn ==
  /\ inflight = {} => Found = {acked}
  /\ inflight # {} => Found \in {{}, {acked}, inflight}
  /\ cache[Now.file].end = "line" => Found = {StateOf(cache[Now.file].log)}

LEMMA FoundFacts == Refines => FoundIn
<1> SUFFICES ASSUME Refines PROVE FoundIn
  OBVIOUS
<1> USE DEF Refines, Durable, Told
<1>1. Now \in Entries /\ Now.file \in Files /\ Now.checkpoint \subseteq Seq(Record)
  BY EntryFacts
<1>2. \A c \in Now.checkpoint : IsPrefix(c, cache[Now.file].log)
  BY <1>1, BehindFacts, FileFacts, PrefixTransitive DEF Behind, CacheAhead
<1>3. cache[Now.file].end = "line" => Found = {StateOf(cache[Now.file].log)}
  BY <1>2 DEF Found, Verified
<1>4. inflight = {} => cache[Now.file].end = "line" /\ StateOf(cache[Now.file].log) = acked
  BY <1>1 DEF Settled, Clean, Holds
<1>5. ASSUME NEW s \in inflight PROVE Found \in {{}, {acked}, inflight}
  BY <1>1, <1>5 DEF Unsettled, Holds, Found
<1> QED
  BY <1>3, <1>4, <1>5 DEF FoundIn

LEMMA StoreStep ==
  ASSUME "newline" \notin Faults, "rename" \notin Faults, Refines, FoundIn',
         [Next]_vars
  PROVE  [Store!StoreNext]_Store!storeVars
<1> USE DEF Store!storeVars, Store!StoreNext
<1>1. Refines'
  BY RefinesStep
<1>2. /\ inflight' = {} => Found' = {acked'}
      /\ inflight' # {} => Found' \in {{}, {acked'}, inflight'}
  BY DEF FoundIn
<1>3. CASE UNCHANGED <<acked, inflight>>
  BY <1>2, <1>3, FoundFacts DEF FoundIn, Store!Progress, Store!Findable
<1>4. CASE BeginWrite
  <2>1. inflight = {} /\ inflight' = {used + 1} /\ acked' = acked
    BY <1>4 DEF BeginWrite, Refines, Told, AtWork
  <2>2. used + 1 \in States
    BY <1>1, <2>1 DEF Refines, Durable, TypeOK
  <2>3. Store!Begin(used + 1)
    BY <1>2, <2>1 DEF Store!Begin, Store!Findable
  <2> QED
    BY <2>2, <2>3
<1>5. CASE Recover
  <2>1. /\ Found = {StateOf(head)} /\ acked' = StateOf(head) /\ inflight' = {}
    BY <1>5, FoundFacts DEF FoundIn, Recover, Refines, Durable, InPlace
  <2>2. Found' = Found
    BY <1>2, <2>1
  <2>3. CASE inflight = {}
    BY <2>1, <2>2, <2>3, FoundFacts DEF FoundIn
  <2>4. CASE inflight # {} /\ Found = inflight
    BY <2>1, <2>2, <2>4 DEF Store!Acknowledge
  <2>5. CASE inflight # {} /\ Found = {acked}
    BY <2>1, <2>2, <2>5 DEF Store!Abandon
  <2> QED
    BY <2>1, <2>3, <2>4, <2>5, FoundFacts DEF FoundIn
<1>6. CASE ReturnFromAppend
  <2>1. /\ pc = "committed" /\ acked' = used /\ inflight = {used} /\ inflight' = {}
    BY <1>6 DEF ReturnFromAppend, Committed, Refines, Told, AtWork
  <2>2. Found = {used}
    BY <2>1, FoundFacts DEF FoundIn, Refines, Durable, Told, AtWork, InPlace, Synced, Clean
  <2> QED
    BY <1>2, <2>1, <2>2 DEF Store!Acknowledge
<1>7. CASE AppendFails /\ inflight' = {} /\ acked' = acked
  <2>1. inflight # {}
    BY <1>7 DEF AppendFails, Refines, Told, AtWork
  <2> QED
    BY <1>2, <1>7, <2>1 DEF Store!Abandon
<1>8. \/ UNCHANGED <<acked, inflight>> \/ BeginWrite \/ Recover \/ ReturnFromAppend
      \/ AppendFails /\ inflight' = {} /\ acked' = acked
  BY DEF Next, vars, told, OpenJournal, FinishWrite, SyncRecord, PreflightFails,
     AppendFails, CompactionStarts, CompactionSyncs, CompactionRenames, CompactionEnds,
     CompactionDeferred, Shutdown, Kill, PowerLoss
<1> QED
  BY <1>3, <1>4, <1>5, <1>6, <1>7, <1>8

LEMMA StoreStart == Init => Store!StoreInit
<1> SUFFICES ASSUME Init PROVE Store!StoreInit
  OBVIOUS
<1>1. acked \in States /\ inflight = {}
  BY TypeInit DEF Init, TypeOK
<1>2. Found = {acked}
  BY <1>1, RefinesInit, FoundFacts DEF FoundIn
<1> QED
  BY <1>1, <1>2 DEF Store!StoreInit

(* With a file system that keeps whole lines and whose renames are synced   *)
(* or fail: a restart finds the acknowledged state or, while one is in      *)
(* flight, that one, at any time and whichever other faults strike.         *)
THEOREM Refinement ==
  ASSUME "newline" \notin Faults, "rename" \notin Faults
  PROVE  Spec => StoreImplemented
<1>1. Refines /\ [Next]_vars => Refines'
  BY RefinesStep
<1>2. Refines /\ FoundIn' /\ [Next]_vars => [Store!StoreNext]_Store!storeVars
  BY StoreStep
<1> QED
  BY <1>1, <1>2, FoundFacts, RefinesInit, StoreStart, PTL DEF Spec, StoreImplemented, Store!StoreSpec
=============================================================================
