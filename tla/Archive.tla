-------------------------------- MODULE Archive --------------------------------
(* The ZIP writer and reader of the evidence bundle (zip.ts).                  *)
(*                                                                             *)
(* An entry is [path, data]: a path is the sequence of its segments, data the  *)
(* number of its bytes and what they say.  An archive is the sequence of its   *)
(* blocks, each with its length, so an offset is a sum of lengths; reading at  *)
(* an offset where no block begins reads nothing that has a signature.         *)
EXTENDS Integers, FiniteSets, FiniteSetsExt, SequencesExt

CONSTANTS
    Unclean,        \* segments no path may have: "", ".", "..", a backslash, a control character
    NameLength,     \* NameLength[s]: characters of segment s
    NameBytes,      \* NameBytes[s]: bytes of segment s in UTF-8
    Packed,         \* Packed[n]: bytes that n bytes deflate to
    MaxEntries, MaxOffset       \* 65535 entries and 4 GiB without ZIP64

LocalHeader == 30
CentralHeader == 46
EndHeader == 22

Total(f, s) == FoldLeft(LAMBDA n, x : n + f[x], 0, s)
PathBytes(path) == Total(NameBytes, path) + Len(path) - 1
PathLength(path) == Total(NameLength, path) + Len(path) - 1

CleanPath(path) == path # <<>> /\ {path[i] : i \in DOMAIN path} \cap Unclean = {}

\* An absolute path has an empty first segment, so it is unclean as well.
Acceptable(entries) ==
    /\ Len(entries) <= MaxEntries
    /\ \A i \in DOMAIN entries :
         /\ CleanPath(entries[i].path)
         /\ \A j \in 1..(i - 1) : entries[j].path # entries[i].path

Deflates(e) == e.data.size > 0 /\ Packed[e.data.size] < e.data.size
BodySize(e) == IF Deflates(e) THEN Packed[e.data.size] ELSE e.data.size

\* The offset of an entry, its name counted in characters.
LocalSizeInChars(e) == LocalHeader + PathLength(e.path) + BodySize(e)

\* What an entry takes before the next one.
LocalSize(e) == LocalHeader + PathBytes(e.path) + BodySize(e)

OffsetOf(entries, i) ==
    FoldLeft(LAMBDA n, e : n + LocalSize(e), 0, SubSeq(entries, 1, i - 1))

CentralSize(entries) ==
    FoldLeft(LAMBDA n, e : n + CentralHeader + PathBytes(e.path), 0, entries)

Fits(entries) == OffsetOf(entries, Len(entries) + 1) + CentralSize(entries) <= MaxOffset

\* CRC-32 is taken to tell the data of the model apart.
LocalBlock(e) ==
    <<[sig |-> "local", size |-> LocalHeader + PathBytes(e.path), skip |-> LocalHeader + PathBytes(e.path)],
      [sig |-> "data", size |-> BodySize(e), packed |-> Deflates(e), data |-> e.data]>>

CentralBlock(entries, i) ==
    [sig |-> "central", size |-> CentralHeader + PathBytes(entries[i].path),
     path |-> entries[i].path, packed |-> Deflates(entries[i]), crc |-> entries[i].data,
     csize |-> BodySize(entries[i]), usize |-> entries[i].data.size, offset |-> OffsetOf(entries, i)]

\* buildZip; <<>> when it throws.
BuildZip(entries) ==
    IF ~Acceptable(entries) \/ ~Fits(entries) THEN <<>>
    ELSE FlattenSeq([i \in DOMAIN entries |-> LocalBlock(entries[i])])
         \o [i \in DOMAIN entries |-> CentralBlock(entries, i)]
         \o <<[sig |-> "end", size |-> EndHeader, count |-> Len(entries),
               csize |-> CentralSize(entries), offset |-> OffsetOf(entries, Len(entries) + 1)]>>

\* The blocks as they lie in the file, each with the offset it begins at.
Placed(blocks) ==
    [k \in DOMAIN blocks |->
        [block |-> blocks[k], at |-> FoldLeft(LAMBDA n, b : n + b.size, 0, SubSeq(blocks, 1, k - 1))]]

BlocksOf(file, sig) == {p \in ToSet(file) : p.block.sig = sig}

\* What an entry of the directory leads to; nothing when anything is amiss.
ReadEntry(file, end, c) ==
    {[path |-> c.path, data |-> p[2].block.data] :
        p \in {q \in BlocksOf(file, "local") \X BlocksOf(file, "data") :
            /\ q[1].at = c.offset /\ q[2].at = c.offset + q[1].block.skip
            /\ q[2].at + c.csize <= end.offset
            /\ q[2].block.size = c.csize /\ q[2].block.packed = c.packed
            /\ q[2].block.data.size = c.usize /\ q[2].block.data = c.crc}}

\* listZip: the one listing, or none when it throws, as it does unless every
\* entry of the directory reads back.
ListZip(file) ==
    LET last == file[Len(file)]
        central == SelectSeq(file, LAMBDA p : p.block.sig = "central")
        read == [i \in 1..last.block.count |-> ReadEntry(file, last.block, central[i].block)]
    IN IF /\ file # <<>> /\ last.block.sig = "end"
          /\ last.block.offset + last.block.csize <= last.at
          /\ last.block.count <= Len(central)
          /\ last.block.count > 0 => central[1].at = last.block.offset
          /\ \A i \in DOMAIN read : read[i] # {}
          /\ \A i, j \in DOMAIN read : i # j => central[i].block.path # central[j].block.path
       THEN {[i \in DOMAIN read |-> CHOOSE e \in read[i] : TRUE]}
       ELSE {}

-----------------------------------------------------------------------------
\* A bundle either is refused, with a path an extractor must not write or a
\* number that does not fit its field, or it reads back: every entry at the
\* offset the directory says, with its name and its bytes (zip.ts:96-187).  Here
\* and below, file is what BuildZip makes of the entries, as it lies on disk.
ReadsBack(entries, file) ==
    IF file = <<>>
    THEN ~Acceptable(entries) \/ ~Fits(entries)
    ELSE ListZip(file) = {entries}

\* An archive that was cut anywhere is refused, never listed in part.
CutIsRefused(file) == \A n \in 0..(Len(file) - 1) : ListZip(SubSeq(file, 1, n)) = {}

\* So is one with any data changed after it was written, which the check before
\* the save would report (bundle.ts:500).
DamageIsRefused(file) ==
    \A k \in DOMAIN file :
        file[k].block.sig = "data" => ListZip([file EXCEPT ![k].block.data.says = "damaged"]) = {}
=============================================================================
