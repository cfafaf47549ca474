----------------------------- MODULE BlobStore -----------------------------
(* Bodies on their way to the disk: BodyCollector, the tee that keeps a      *)
(* small body in memory and spills a large one, bytesToBody, its counterpart *)
(* for a body known in full, and the content-addressed BlobStore both write  *)
(* to (src/engine/storage/).  All bodies are prefixes of one stream, so two  *)
(* bodies of one stored length have one id.                                  *)
EXTENDS Naturals, FiniteSets

CONSTANTS
    Writers,      \* the bodies being captured
    Cap,          \* maxCapturedBytes
    Spill,        \* spillToDiskAfterBytes
    MaxTotal,     \* bound: the bytes of one body
    Chunks,       \* the lengths a chunk may have
    MaxCrashes    \* bound: the crashes of the process

ASSUME LimitsAssumption ==
    /\ Cap \in Nat \ {0} /\ Spill \in Nat /\ MaxTotal \in Nat /\ MaxCrashes \in Nat
    /\ Chunks \subseteq Nat \ {0}

Ids == 1..Cap          \* a blob's id stands for the stored bytes

VARIABLES
    at,       \* at[w]: where the body of w is
    total,    \* total[w]: bytes seen
    stored,   \* stored[w]: bytes kept
    cut,      \* cut[w]: the truncated flag
    session,  \* session[w]: the collector has opened a staging file
    disk,     \* disk[i]: what is under the final name of blob i
    fellBack, \* the ids some move of which was a copy
    staging,  \* the temporary files: <<writer, crashes before it>>
    rows,     \* the bodies recorded in the history
    crashes

blobVars == <<at, total, stored, cut, session, disk, fellBack, staging, rows, crashes>>

Capturing == {"filling"}
Moving    == {"staged", "moving", "copying", "copied"}
Places    == {"idle"} \cup Capturing \cup Moving \cup {"body", "recorded", "dropped"}

Smaller(a, b) == IF a < b THEN a ELSE b

Body(w) == [size |-> stored[w], truncated |-> cut[w], blob |-> session[w]]

BlobTypeOK ==
    /\ at \in [Writers -> Places]
    /\ total \in [Writers -> 0..MaxTotal]
    /\ stored \in [Writers -> 0..Cap]
    /\ cut \in [Writers -> BOOLEAN] /\ session \in [Writers -> BOOLEAN]
    /\ disk \in [Ids -> {"none", "part", "whole", "mixed"}]
    /\ fellBack \subseteq Ids
    /\ staging \subseteq Writers \X (0..MaxCrashes)
    /\ rows \subseteq [size : 0..Cap, truncated : BOOLEAN, blob : BOOLEAN]
    /\ crashes \in 0..MaxCrashes

BlobInit ==
    /\ at = [w \in Writers |-> "idle"]
    /\ total = [w \in Writers |-> 0]
    /\ stored = [w \in Writers |-> 0]
    /\ cut = [w \in Writers |-> FALSE]
    /\ session = [w \in Writers |-> FALSE]
    /\ disk = [i \in Ids |-> "none"]
    /\ fellBack = {}
    /\ staging = {}
    /\ rows = {}
    /\ crashes = 0

Go(w, place) == at' = [at EXCEPT ![w] = place]

----------------------------------------------------------------------------
(* BodyCollector.                                                            *)

OpenCollector(w) ==
    /\ at[w] = "idle"
    /\ Go(w, "filling")
    /\ UNCHANGED <<total, stored, cut, session, disk, fellBack, staging, rows, crashes>>

\* The part of a chunk that is kept.
Kept(w, n) == Smaller(n, Cap - stored[w])

\* One chunk: clamped to the cap, then appended in memory or to the session.
\* The chunk that would pass the threshold opens the session and is written
\* behind what was buffered.
Write(w, n) ==
    /\ at[w] = "filling"
    /\ total[w] + n <= MaxTotal
    /\ total' = [total EXCEPT ![w] = @ + n]
    /\ cut' = [cut EXCEPT ![w] = @ \/ stored[w] >= Cap \/ Kept(w, n) < n]
    /\ stored' = [stored EXCEPT ![w] = @ + Kept(w, n)]
    /\ IF ~session[w] /\ stored[w] < Cap /\ stored[w] + Kept(w, n) > Spill
       THEN /\ session' = [session EXCEPT ![w] = TRUE]
            /\ staging' = staging \cup {<<w, crashes>>}
       ELSE UNCHANGED <<session, staging>>
    /\ UNCHANGED <<at, disk, fellBack, rows, crashes>>

\* finish: nothing, the bytes inline, or the commit of the session, which
\* closes the staging file.
Finish(w) ==
    /\ at[w] = "filling"
    /\ Go(w, IF session[w] THEN "staged" ELSE "body")
    /\ UNCHANGED <<total, stored, cut, session, disk, fellBack, staging, rows, crashes>>

\* The stream ended with an error: the collector is forgotten, and no code
\* calls abort on its session.
Drop(w) ==
    /\ at[w] = "filling"
    /\ Go(w, "dropped")
    /\ UNCHANGED <<total, stored, cut, session, disk, fellBack, staging, rows, crashes>>

\* bytesToBody: the whole body at once; putBytes seals it to a temporary file
\* only after it found no blob under the id.
BytesToBody(w, n) ==
    /\ at[w] = "idle"
    /\ total' = [total EXCEPT ![w] = n]
    /\ stored' = [stored EXCEPT ![w] = Smaller(n, Cap)]
    /\ cut' = [cut EXCEPT ![w] = n > Cap]
    /\ LET large == Smaller(n, Cap) > Spill
           fresh == large /\ disk[Smaller(n, Cap)] = "none"
       IN /\ session' = [session EXCEPT ![w] = large]
          /\ Go(w, IF fresh THEN "moving" ELSE "body")
          /\ staging' = IF fresh THEN staging \cup {<<w, crashes>>} ELSE staging
    /\ UNCHANGED <<disk, fellBack, rows, crashes>>

----------------------------------------------------------------------------
(* BlobStore: has, then the move, with other writers in between.             *)

\* finalizeStaged: has() sees any file under the name, whole or not.
Has(w) ==
    /\ at[w] = "staged"
    /\ IF disk[stored[w]] # "none"
       THEN Go(w, "body") /\ staging' = staging \ {<<w, crashes>>}
       ELSE Go(w, "moving") /\ UNCHANGED staging
    /\ UNCHANGED <<total, stored, cut, session, disk, fellBack, rows, crashes>>

\* rename replaces whatever is there in one step.
Rename(w) ==
    /\ at[w] = "moving"
    /\ disk' = [disk EXCEPT ![stored[w]] = "whole"]
    /\ staging' = staging \ {<<w, crashes>>}
    /\ Go(w, "body")
    /\ UNCHANGED <<total, stored, cut, session, fellBack, rows, crashes>>

\* rename failed, across devices or in a race: the copy truncates its target
\* and fills it.
BeginCopy(w) ==
    /\ at[w] = "moving"
    /\ disk' = [disk EXCEPT ![stored[w]] = "part"]
    /\ fellBack' = fellBack \cup {stored[w]}
    /\ Go(w, "copying")
    /\ UNCHANGED <<total, stored, cut, session, staging, rows, crashes>>

\* Two copies of one body are sealed under two nonces: where they overlap the
\* file may be a mixture of both.
EndCopy(w) ==
    /\ at[w] = "copying"
    /\ LET i == stored[w]
           others == {v \in Writers \ {w} : at[v] = "copying" /\ stored[v] = i}
       IN \E result \in IF others = {} /\ disk[i] # "mixed" THEN {"whole"}
                        ELSE {"whole", "mixed"} :
            disk' = [disk EXCEPT ![i] = result]
    /\ Go(w, "copied")
    /\ UNCHANGED <<total, stored, cut, session, fellBack, staging, rows, crashes>>

RemoveCopied(w) ==
    /\ at[w] = "copied"
    /\ staging' = staging \ {<<w, crashes>>}
    /\ Go(w, "body")
    /\ UNCHANGED <<total, stored, cut, session, disk, fellBack, rows, crashes>>

\* A mutant: the row is written while the commit is still under way.
RecordEarly(w) ==
    /\ at[w] \in {"moving", "body"}
    /\ rows' = rows \cup {Body(w)}
    /\ Go(w, "recorded")
    /\ UNCHANGED <<total, stored, cut, session, disk, fellBack, staging, crashes>>

\* The caller puts the body into the row of its exchange.
Record(w) ==
    /\ at[w] = "body"
    /\ rows' = rows \cup {Body(w)}
    /\ Go(w, "recorded")
    /\ UNCHANGED <<total, stored, cut, session, disk, fellBack, staging, crashes>>

\* The process dies and starts again; nothing looks at the files it left.
Crash ==
    /\ crashes < MaxCrashes
    /\ crashes' = crashes + 1
    /\ at' = [w \in Writers |-> "idle"]
    /\ total' = [w \in Writers |-> 0]
    /\ stored' = [w \in Writers |-> 0]
    /\ cut' = [w \in Writers |-> FALSE]
    /\ session' = [w \in Writers |-> FALSE]
    /\ UNCHANGED <<disk, fellBack, staging, rows>>

BlobNext ==
    \/ \E w \in Writers :
          \/ OpenCollector(w)
          \/ \E n \in Chunks : Write(w, n)
          \/ Finish(w) \/ Drop(w)
          \/ \E n \in 0..MaxTotal : BytesToBody(w, n)
          \/ Has(w) \/ Rename(w) \/ BeginCopy(w) \/ EndCopy(w) \/ RemoveCopied(w)
          \/ Record(w)
    \/ Crash

BlobSpec == BlobInit /\ [][BlobNext]_blobVars

----------------------------------------------------------------------------
(* Properties.                                                               *)

\* A body is the longest prefix the cap allows, says whether it is cut, and is
\* in the store exactly when it is longer than the threshold, in whatever
\* chunks it came: the tee and bytesToBody agree.
BodyIsPrefix ==
    \A w \in Writers : at[w] \notin {"idle"} =>
        /\ stored[w] = Smaller(total[w], Cap)
        /\ cut[w] = (total[w] > Cap)
        /\ session[w] = (stored[w] > Spill)

\* A row never names a blob that is not there: the file is under its final
\* name before the row is written, and no step takes a file away again.
RowsHaveBlobs == \A r \in rows : r.blob => disk[r.size] # "none"

\* And the blob is whole, through crashes and through writers of the same
\* bytes that look, move and record in any order, as long as every move into
\* the store was a rename.
RenamedBlobsAreWhole ==
    \A r \in rows : r.blob /\ r.size \notin fellBack => disk[r.size] = "whole"

\* A temporary file belongs to a writer that still needs it, or to a collector
\* that was dropped, or to a process that died: nothing else leaves one.
StagingIsExplained ==
    \A s \in staging :
        \/ s[2] < crashes
        \/ at[s[1]] = "dropped"
        \/ at[s[1]] \in {"filling"} \cup Moving

\* A body is the prefix its cap allows, a row names a blob that is there and
\* whole, and staging files have an owner (blobStore.ts, bodyCollector.ts).
StoreInv ==
    BlobTypeOK /\ BodyIsPrefix /\ RowsHaveBlobs /\ RenamedBlobsAreWhole /\ StagingIsExplained

\* A recorded body can be read back whenever no copy onto it is under way.
\* The copy the code falls back to loses this.
RecordedIsReadable ==
    \A r \in rows :
        r.blob /\ (\A w \in Writers : at[w] = "copying" => stored[w] # r.size)
            => disk[r.size] = "whole"
=============================================================================
