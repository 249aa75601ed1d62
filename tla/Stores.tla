------------------------------- MODULE Stores -------------------------------
(***************************************************************************)
(* Containers that forget or count: mruset and limitedmap, the locked      *)
(* pages of allocators.h, the network time of util.cpp and the positions   *)
(* in block and undo files that main.cpp hands out.                        *)
(***************************************************************************)
EXTENDS Integers, Sequences, SequencesExt, FiniteSets, FiniteSetsExt

CONSTANTS PageSize,                                     \* a power of two
          MAX_BLOCKFILE_SIZE, BLOCKFILE_CHUNK_SIZE, UNDOFILE_CHUNK_SIZE,
          OffsetLimit, WindowSize                       \* of the network time: 70 minutes, 200 samples

-----------------------------------------------------------------------------
(* mruset: [set, queue, max] *)

NewMru(max) == [set |-> {}, queue |-> <<>>, max |-> max]
MruDrop(m) == [m EXCEPT !.set = @ \ {Head(m.queue)}, !.queue = Tail(@)]
MruInsert(m, x) ==
  LET room == IF m.max # 0 /\ Len(m.queue) = m.max THEN MruDrop(m) ELSE m
  IN IF x \in m.set THEN m ELSE [room EXCEPT !.set = @ \cup {x}, !.queue = Append(@, x)]
RECURSIVE MruResize(_, _)
MruResize(m, s) == IF s # 0 /\ Len(m.queue) > s THEN MruResize(MruDrop(m), s) ELSE [m EXCEPT !.max = s]

-----------------------------------------------------------------------------
(* limitedmap: map, and rmap, the sequence of its <<value, key>> by value,  *)
(* equal values in the order they were inserted.                            *)

NewLimited(max) == [map |-> [k \in {} |-> 0], rmap |-> <<>>, max |-> max]
Put(map, k, v) == [x \in DOMAIN map \cup {k} |-> IF x = k THEN v ELSE map[x]]
Without(map, k) == [x \in DOMAIN map \ {k} |-> map[x]]
RInsert(rmap, v, k) ==
  SelectSeq(rmap, LAMBDA e : e[1] <= v) \o <<<<v, k>>>> \o SelectSeq(rmap, LAMBDA e : e[1] > v)
RErase(rmap, k) == SelectSeq(rmap, LAMBDA e : e[2] # k)
LimitedDrop(m) == [m EXCEPT !.map = Without(@, Head(m.rmap)[2]), !.rmap = Tail(@)]

\* The new key is in map, but not yet in rmap, when room is made for it
LimitedInsert(m, k, v) ==
  LET in   == [m EXCEPT !.map = Put(@, k, v)]
      room == IF m.max # 0 /\ Cardinality(DOMAIN in.map) = m.max THEN LimitedDrop(in) ELSE in
  IN IF k \in DOMAIN m.map THEN m ELSE [room EXCEPT !.rmap = RInsert(@, v, k)]
LimitedErase(m, k) ==
  IF k \notin DOMAIN m.map THEN m ELSE [m EXCEPT !.map = Without(@, k), !.rmap = RErase(@, k)]
LimitedUpdate(m, k, v) ==
  IF k \notin DOMAIN m.map THEN m
  ELSE [m EXCEPT !.map = Put(@, k, v), !.rmap = RInsert(RErase(@, k), v, k)]

-----------------------------------------------------------------------------
(* LockedPageManagerBase: histogram, of the pages that are locked, and the  *)
(* calls to the locker, <<"Lock" | "Unlock", page>>.                        *)

PageOf(p) == (p \div PageSize) * PageSize
PagesOf(p, size) == {page \in PageOf(p)..PageOf(p + size - 1) : page % PageSize = 0}
LockRange(m, p, size) ==
  LET pages == IF size = 0 THEN {} ELSE PagesOf(p, size)
      count(page) == IF page \in DOMAIN m.histogram THEN m.histogram[page] ELSE 0
  IN [histogram |-> [page \in DOMAIN m.histogram \cup pages |-> count(page) + (IF page \in pages THEN 1 ELSE 0)],
      locked    |-> m.locked \cup (pages \ DOMAIN m.histogram)]
UnlockRange(m, p, size) ==
  LET pages == IF size = 0 THEN {} ELSE PagesOf(p, size)
      empty == {page \in pages : m.histogram[page] = 1}
  IN [histogram |-> [page \in DOMAIN m.histogram \ empty |-> m.histogram[page] - (IF page \in pages THEN 1 ELSE 0)],
      locked    |-> m.locked \ empty]

-----------------------------------------------------------------------------
(* The network time: setKnown, the samples vTimeOffsets and the offset      *)

AbsOf(n) == IF n < 0 THEN -n ELSE n
\* C++ division: towards zero
Halved(n) == IF n < 0 THEN -((-n) \div 2) ELSE n \div 2
NewTime == [setKnown |-> {}, vValues |-> <<0>>, nTimeOffset |-> 0]
FilterInput(values, v) == Append(IF Len(values) = WindowSize THEN Tail(values) ELSE values, v)
MedianOf(values) ==
  LET sorted == SortSeq(values, LAMBDA a, b : a < b)
      size   == Len(values)
  IN IF size % 2 = 1 THEN sorted[(size \div 2) + 1]
     ELSE Halved(sorted[size \div 2] + sorted[(size \div 2) + 1])
AddTimeData(t, ip, nOffsetSample) ==
  LET values == FilterInput(t.vValues, nOffsetSample)
      median == MedianOf(values)
      decide == Len(values) >= 5 /\ Len(values) % 2 = 1
  IN IF ip \in t.setKnown THEN t
     ELSE [setKnown    |-> t.setKnown \cup {ip},
           vValues     |-> values,
           nTimeOffset |-> CASE ~decide -> t.nTimeOffset
                             [] decide /\ AbsOf(median) < OffsetLimit -> median
                             [] OTHER -> 0]

-----------------------------------------------------------------------------
(* Block and undo files.  s: nLastBlockFile and infoLastBlockFile, and what *)
(* the block tree database holds of them, disk, [last, infos].              *)

NullInfo == [nSize |-> 0, nUndoSize |-> 0]
ReadBlockFileInfo(s, nFile) == IF nFile \in DOMAIN s.disk.infos THEN s.disk.infos[nFile] ELSE NullInfo
WriteBlockFileInfo(s, nFile, info) == [s EXCEPT !.disk.infos = Put(@, nFile, info)]
WriteLastBlockFile(s) == [s EXCEPT !.disk.last = s.nLastBlockFile]
NewFiles == [nLastBlockFile |-> 0, infoLastBlockFile |-> NullInfo, disk |-> [last |-> 0, infos |-> [n \in {} |-> NullInfo]]]

\* LoadBlockIndexDB
LoadFiles(s) ==
  [s EXCEPT !.nLastBlockFile = s.disk.last, !.infoLastBlockFile = ReadBlockFileInfo(s, s.disk.last)]

Enter(s, nFile) == [s EXCEPT !.nLastBlockFile = nFile, !.infoLastBlockFile = ReadBlockFileInfo(s, nFile)]
RECURSIVE FileWithRoom(_, _)
FileWithRoom(s, nAddSize) ==
  IF s.infoLastBlockFile.nSize + nAddSize < MAX_BLOCKFILE_SIZE THEN s
  ELSE FileWithRoom(Enter(s, s.nLastBlockFile + 1), nAddSize)

Chunks(nSize, chunk) == (nSize + chunk - 1) \div chunk
Grows(old, new, chunk) == Chunks(new, chunk) > Chunks(old, chunk)

\* outcome "full": the disk is; "killed": before the number of the last file is
\* written.  Where the block is, and whether the caller may write it.
FindBlockPos(s, nAddSize, outcome) ==
  LET in      == FileWithRoom(s, nAddSize)
      pos     == [nFile |-> in.nLastBlockFile, nPos |-> in.infoLastBlockFile.nSize]
      added   == [in EXCEPT !.infoLastBlockFile.nSize = @ + nAddSize]
      fails   == outcome = "full" /\ Grows(pos.nPos, pos.nPos + nAddSize, BLOCKFILE_CHUNK_SIZE)
      written == WriteBlockFileInfo(added, in.nLastBlockFile, added.infoLastBlockFile)
  IN CASE fails -> [ok |-> FALSE, s |-> added, pos |-> pos]
       [] outcome = "killed" -> [ok |-> FALSE, s |-> LoadFiles(written), pos |-> pos]
       [] OTHER -> [ok |-> TRUE, pos |-> pos,
                    s  |-> IF in.nLastBlockFile # s.nLastBlockFile THEN WriteLastBlockFile(written) ELSE written]

\* FindBlockPos with fKnown: a block that is in the file already
KnownBlockPos(s, nFile, nAddSize) ==
  LET in      == IF s.nLastBlockFile = nFile THEN s ELSE Enter(s, nFile)
      added   == [in EXCEPT !.infoLastBlockFile.nSize = @ + nAddSize]
      written == WriteBlockFileInfo(added, nFile, added.infoLastBlockFile)
  IN IF s.nLastBlockFile = nFile THEN written ELSE WriteLastBlockFile(written)

FindUndoPos(s, nFile, nAddSize, outcome) ==
  LET last  == nFile = s.nLastBlockFile
      old   == IF last THEN s.infoLastBlockFile ELSE ReadBlockFileInfo(s, nFile)
      info  == [old EXCEPT !.nUndoSize = @ + nAddSize]
      added == IF last THEN [s EXCEPT !.infoLastBlockFile = info] ELSE s
      ok    == ~(outcome = "full" /\ Grows(old.nUndoSize, info.nUndoSize, UNDOFILE_CHUNK_SIZE))
  IN [ok |-> ok, s |-> WriteBlockFileInfo(added, nFile, info), pos |-> [nFile |-> nFile, nPos |-> old.nUndoSize]]
=============================================================================
