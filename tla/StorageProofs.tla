--------------------------- MODULE StorageProofs ---------------------------
(***************************************************************************)
(* Proofs about what a project keeps on the disk: the bodies of BlobStore, *)
(* the schema of Migrations and the tables of Records, for any number of   *)
(* writers, processes, exchanges, rules and crashes.                       *)
(***************************************************************************)
EXTENDS BlobStore, Migrations, Records, FiniteSetTheorems, SequenceTheorems, TLAPS

\* What has been kept of a body, wherever it is, follows from what was seen of it.
Prefix(w) ==
  /\ stored[w] = Smaller(total[w], Cap)
  /\ cut[w] = TRUE <=> total[w] > Cap
  /\ session[w] = TRUE <=> stored[w] > Spill
  /\ at[w] = "idle" => total[w] = 0

\* A body in the store, or on its way into it, has a blob under its name as soon as the
\* store let go of it.
InStore(w) ==
  /\ at[w] \in Moving => session[w] = TRUE
  /\ at[w] \in {"copying", "copied"} => stored[w] \in fellBack
  /\ at[w] \in {"copying", "copied"} \/ (at[w] = "body" /\ session[w] = TRUE) => disk[stored[w]] # "none"

\* What is under a name is whole unless a copy was made onto it.
WholeOrCopied == \A i \in Ids : disk[i] = "none" \/ disk[i] = "whole" \/ i \in fellBack

\* A temporary file of this run belongs to a body that still needs it or was dropped.
Held(w) == at[w] \in {"dropped"} \cup Moving \/ (at[w] = "filling" /\ session[w] = TRUE)
Staged  == \A s \in staging : s[2] < crashes \/ (s[2] = crashes /\ Held(s[1]))

RowInv(r) == r.blob = TRUE => r.size \in Ids /\ disk[r.size] # "none"

\* The inductive invariant.
BlobInv ==
  /\ BlobTypeOK /\ WholeOrCopied /\ Staged
  /\ \A w \in Writers : Prefix(w) /\ InStore(w)
  /\ \A r \in rows : RowInv(r)

LEMMA BlobStarts == BlobInit => BlobInv
<1> SUFFICES ASSUME BlobInit PROVE BlobInv
  OBVIOUS
<1>1. Cap \in Nat \ {0} /\ Spill \in Nat /\ Smaller(0, Cap) = 0 /\ 0 <= Cap /\ 0 <= Spill
  BY LimitsAssumption DEF Smaller
<1>2. BlobTypeOK
  BY <1>1, LimitsAssumption DEF BlobInit, BlobTypeOK, Places
<1>3. ASSUME NEW w \in Writers PROVE Prefix(w) /\ InStore(w)
  BY <1>1, LimitsAssumption DEF BlobInit, Prefix, InStore, Moving
<1> QED BY <1>2, <1>3 DEF BlobInit, BlobInv, WholeOrCopied, Staged

\* What is kept of a body that goes through the store is not empty: it has a name.
LEMMA HasName ==
  ASSUME BlobInv, NEW w \in Writers, session[w] = TRUE
  PROVE  stored[w] \in Ids
<1>1. stored[w] > Spill /\ Spill \in Nat /\ stored[w] \in 0..Cap /\ Cap \in Nat
  BY LimitsAssumption DEF BlobInv, BlobTypeOK, Prefix
<1> QED BY <1>1 DEF Ids

\* Only w moves; what is on the disk stays on it.
Moves(w) ==
  /\ BlobTypeOK' /\ WholeOrCopied' /\ Prefix(w)' /\ InStore(w)'
  /\ \A v \in Writers \ {w} : /\ at'[v] = at[v] /\ total'[v] = total[v] /\ stored'[v] = stored[v]
                              /\ cut'[v] = cut[v] /\ session'[v] = session[v]
  /\ fellBack \subseteq fellBack' /\ \A i \in Ids : disk[i] # "none" => disk'[i] # "none"
  /\ \A r \in rows' : r \in rows \/ RowInv(r)'
  /\ crashes' = crashes
  /\ \A s \in staging' : s \in staging \/ s = <<w, crashes>>
  /\ <<w, crashes>> \in staging' => Held(w)'

LEMMA OneMoves == ASSUME BlobInv, NEW w \in Writers, Moves(w) PROVE BlobInv'
<1>1. ASSUME NEW v \in Writers, v # w PROVE Prefix(v)' /\ InStore(v)'
  <2>1. Prefix(v) /\ InStore(v) /\ (session[v] = TRUE => stored[v] \in Ids)
    BY HasName DEF BlobInv
  <2>2. /\ at'[v] = at[v] /\ total'[v] = total[v] /\ stored'[v] = stored[v] /\ cut'[v] = cut[v] /\ session'[v] = session[v]
        /\ fellBack \subseteq fellBack' /\ \A i \in Ids : disk[i] # "none" => disk'[i] # "none"
    BY <1>1 DEF Moves
  <2>3. Prefix(v)'
    BY <2>1, <2>2 DEF Prefix
  <2>4. InStore(v)'
    BY <2>1, <2>2 DEF InStore, Moving
  <2> QED BY <2>3, <2>4
<1>2. ASSUME NEW r \in rows PROVE RowInv(r)'
  <2>1. RowInv(r) /\ \A i \in Ids : disk[i] # "none" => disk'[i] # "none"
    BY DEF BlobInv, Moves
  <2> QED BY <2>1 DEF RowInv, Ids
<1>3. Staged'
  <2>1. ASSUME NEW s \in staging' PROVE s[2] < crashes' \/ (s[2] = crashes' /\ Held(s[1])')
    <3>1. CASE s = <<w, crashes>>
      <4>1. s[1] = w /\ s[2] = crashes /\ crashes' = crashes /\ Held(w)'
        BY <2>1, <3>1 DEF Moves
      <4> QED BY <4>1 DEF Held
    <3>2. CASE s # <<w, crashes>>
      <4>1. s \in staging /\ s \in Writers \X (0..MaxCrashes) /\ crashes \in 0..MaxCrashes
        BY <2>1, <3>2 DEF Moves, BlobInv, BlobTypeOK
      <4>2. s[2] < crashes \/ (s[2] = crashes /\ Held(s[1]))
        BY <4>1 DEF BlobInv, Staged
      <4>3. s[1] \in Writers /\ s = <<s[1], s[2]>> /\ crashes' = crashes
        BY <4>1 DEF Moves
      <4>4. CASE s[1] # w
        <5>1. Held(s[1])' <=> Held(s[1])
          BY <4>3, <4>4 DEF Moves, Held, Moving
        <5> QED BY <4>2, <4>3, <5>1
      <4>5. CASE s[1] = w
        <5>1. s[2] # crashes
          BY <3>2, <4>3, <4>5
        <5> QED BY <4>2, <4>3, <5>1
      <4> QED BY <4>4, <4>5
    <3> QED BY <3>1, <3>2
  <2> QED BY <2>1 DEF Staged
<1> QED BY <1>1, <1>2, <1>3 DEF Moves, BlobInv

\* What a body has on its way, whatever place it is at.
LEMMA Facts ==
  ASSUME BlobInv, NEW w \in Writers
  PROVE  /\ BlobTypeOK /\ Prefix(w) /\ InStore(w) /\ WholeOrCopied /\ (session[w] = TRUE => stored[w] \in Ids)
         /\ Cap \in Nat \ {0} /\ Spill \in Nat /\ MaxTotal \in Nat /\ crashes \in Nat
         /\ <<w, crashes>> \in staging => Held(w)
<1>1. /\ BlobTypeOK /\ Prefix(w) /\ InStore(w) /\ WholeOrCopied /\ (session[w] = TRUE => stored[w] \in Ids)
      /\ Cap \in Nat \ {0} /\ Spill \in Nat /\ MaxTotal \in Nat /\ MaxCrashes \in Nat
  BY HasName, LimitsAssumption DEF BlobInv
<1>2. crashes \in Nat
  BY <1>1 DEF BlobTypeOK
<1>3. ASSUME <<w, crashes>> \in staging PROVE Held(w)
  <2> DEFINE s == <<w, crashes>>
  <2>1. s[2] < crashes \/ Held(s[1])
    BY <1>3 DEF BlobInv, Staged
  <2>2. s[1] = w /\ s[2] = crashes
    OBVIOUS
  <2> HIDE DEF s
  <2> QED BY <1>2, <2>1, <2>2
<1> QED BY <1>1, <1>2, <1>3

\* A body goes to another place.
LEMMA Goes ==
  ASSUME BlobInv, NEW w \in Writers, NEW place \in Places \ {"idle"}, Go(w, place),
         UNCHANGED <<total, stored, cut, session, crashes>>,
         disk' \in [Ids -> {"none", "part", "whole", "mixed"}], \A i \in Ids : disk[i] # "none" => disk'[i] # "none",
         fellBack \subseteq fellBack', fellBack' \subseteq Ids, WholeOrCopied', InStore(w)',
         rows' \subseteq [size : 0..Cap, truncated : BOOLEAN, blob : BOOLEAN], \A r \in rows' : r \in rows \/ RowInv(r)',
         staging' \subseteq staging, <<w, crashes>> \in staging' => Held(w)'
  PROVE  BlobInv'
<1>1. at \in [Writers -> Places]
  BY DEF BlobInv, BlobTypeOK
<1>2. at' \in [Writers -> Places] /\ at'[w] = place /\ \A v \in Writers \ {w} : at'[v] = at[v]
  BY <1>1 DEF Go
<1>3. BlobTypeOK'
  BY <1>2 DEF BlobInv, BlobTypeOK
<1>4. Prefix(w)'
  BY <1>2 DEF BlobInv, Prefix
<1> QED BY <1>2, <1>3, <1>4, OneMoves DEF Moves

\* The steps of one body that leave what was kept of it alone.
LEMMA StoreStep ==
  ASSUME BlobInv, NEW w \in Writers,
         OpenCollector(w) \/ Finish(w) \/ Drop(w) \/ Has(w) \/ Rename(w) \/ BeginCopy(w) \/ EndCopy(w) \/ RemoveCopied(w) \/ Record(w)
  PROVE  BlobInv'
<1>1. /\ BlobTypeOK /\ Prefix(w) /\ InStore(w) /\ WholeOrCopied /\ (session[w] = TRUE => stored[w] \in Ids)
      /\ <<w, crashes>> \in staging => Held(w)
  BY Facts
<1>2. /\ at \in [Writers -> Places] /\ stored \in [Writers -> 0..Cap] /\ session \in [Writers -> BOOLEAN] /\ cut \in [Writers -> BOOLEAN]
      /\ disk \in [Ids -> {"none", "part", "whole", "mixed"}] /\ fellBack \subseteq Ids
      /\ rows \subseteq [size : 0..Cap, truncated : BOOLEAN, blob : BOOLEAN]
  BY <1>1 DEF BlobTypeOK
<1>3. \A place : Go(w, place) => at'[w] = place
  BY <1>2 DEF Go
<1>4. CASE OpenCollector(w) \/ Finish(w) \/ Drop(w)
  <2>1. PICK place \in {"filling", "staged", "body", "dropped"} :
           /\ Go(w, place) /\ at[w] \in {"idle", "filling"}
           /\ (place = "staged" => session[w] = TRUE) /\ (place = "body" => session[w] # TRUE)
           /\ place = "filling" => at[w] = "idle"
    BY <1>2, <1>4 DEF OpenCollector, Finish, Drop
  <2>2. UNCHANGED <<total, stored, cut, session, disk, fellBack, staging, rows, crashes>>
    BY <1>4 DEF OpenCollector, Finish, Drop
  <2>3. at'[w] = place
    BY <1>3, <2>1
  <2>4. InStore(w)' /\ (<<w, crashes>> \in staging' => Held(w)')
    BY <1>1, <2>1, <2>2, <2>3 DEF InStore, Held, Moving
  <2>5. WholeOrCopied'
    BY <1>1, <2>2 DEF WholeOrCopied
  <2> QED BY <1>2, <2>1, <2>2, <2>4, <2>5, Goes DEF Places, Moving, Capturing
<1>5. CASE Has(w)
  <2>1. at[w] = "staged" /\ session[w] = TRUE /\ stored[w] \in Ids
    BY <1>1, <1>5 DEF Has, InStore, Moving
  <2>2. PICK place \in {"body", "moving"} :
           /\ Go(w, place) /\ staging' \subseteq staging
           /\ place = "body" => disk[stored[w]] # "none" /\ <<w, crashes>> \notin staging'
    BY <1>5 DEF Has
  <2>3. UNCHANGED <<total, stored, cut, session, disk, fellBack, rows, crashes>> /\ at'[w] = place
    BY <1>3, <1>5, <2>2 DEF Has
  <2>4. InStore(w)' /\ (<<w, crashes>> \in staging' => Held(w)') /\ WholeOrCopied'
    BY <1>1, <2>1, <2>2, <2>3 DEF InStore, Held, Moving, WholeOrCopied
  <2> QED BY <1>2, <2>2, <2>3, <2>4, Goes DEF Places, Moving, Capturing
<1>6. CASE Rename(w) \/ BeginCopy(w) \/ EndCopy(w)
  <2>1. at[w] \in {"moving", "copying"} /\ session[w] = TRUE /\ stored[w] \in Ids
        /\ (at[w] = "copying" => stored[w] \in fellBack)
    BY <1>1, <1>6 DEF Rename, BeginCopy, EndCopy, InStore, Moving
  <2>2. UNCHANGED <<total, stored, cut, session, rows, crashes>>
    BY <1>6 DEF Rename, BeginCopy, EndCopy
  <2>3. PICK place \in {"body", "copying", "copied"}, result \in {"whole", "part", "mixed"} :
           /\ Go(w, place) /\ disk' = [disk EXCEPT ![stored[w]] = result]
           /\ fellBack' = (IF at[w] = "moving" /\ place = "copying" THEN fellBack \cup {stored[w]} ELSE fellBack)
           /\ result = "whole" \/ stored[w] \in fellBack'
           /\ place # "body" => stored[w] \in fellBack'
           /\ staging' \subseteq staging /\ (place = "body" => <<w, crashes>> \notin staging')
    <3>1. CASE Rename(w)
      BY <3>1 DEF Rename
    <3>2. CASE BeginCopy(w)
      BY <3>2 DEF BeginCopy
    <3>3. CASE EndCopy(w)
      <4>1. PICK result \in {"whole", "mixed"} : disk' = [disk EXCEPT ![stored[w]] = result]
        BY <3>3 DEF EndCopy
      <4>2. at[w] = "copying" /\ Go(w, "copied") /\ UNCHANGED <<fellBack, staging>>
        BY <3>3 DEF EndCopy
      <4> QED BY <2>1, <4>1, <4>2
    <3> QED BY <1>6, <3>1, <3>2, <3>3
  <2>4. /\ disk' \in [Ids -> {"none", "part", "whole", "mixed"}] /\ disk'[stored[w]] = result
        /\ \A i \in Ids \ {stored[w]} : disk'[i] = disk[i]
        /\ fellBack \subseteq fellBack' /\ fellBack' \subseteq Ids
    BY <1>2, <2>1, <2>3
  <2>5. at'[w] = place
    BY <1>3, <2>3
  <2>6. InStore(w)' /\ (<<w, crashes>> \in staging' => Held(w)')
    BY <2>1, <2>2, <2>3, <2>4, <2>5 DEF InStore, Held, Moving
  <2>7. WholeOrCopied'
    BY <1>1, <2>1, <2>3, <2>4 DEF WholeOrCopied
  <2>8. \A i \in Ids : disk[i] # "none" => disk'[i] # "none"
    BY <2>3, <2>4
  <2> QED BY <1>2, <2>2, <2>3, <2>4, <2>6, <2>7, <2>8, Goes DEF Places, Moving, Capturing
<1>7. CASE RemoveCopied(w)
  <2>1. at[w] = "copied" /\ session[w] = TRUE /\ disk[stored[w]] # "none" /\ Go(w, "body") /\ at'[w] = "body"
    BY <1>1, <1>3, <1>7 DEF RemoveCopied, InStore, Moving
  <2>2. /\ UNCHANGED <<total, stored, cut, session, disk, fellBack, rows, crashes>>
        /\ staging' = staging \ {<<w, crashes>>}
    BY <1>7 DEF RemoveCopied
  <2>3. InStore(w)' /\ WholeOrCopied' /\ <<w, crashes>> \notin staging' /\ staging' \subseteq staging
    BY <1>1, <2>1, <2>2 DEF InStore, Moving, WholeOrCopied
  <2> QED BY <1>2, <2>1, <2>2, <2>3, Goes DEF Places, Moving, Capturing
<1>8. CASE Record(w)
  <2>1. at[w] = "body" /\ Go(w, "recorded") /\ at'[w] = "recorded"
    BY <1>3, <1>8 DEF Record
  <2>2. /\ UNCHANGED <<total, stored, cut, session, disk, fellBack, staging, crashes>>
        /\ rows' = rows \cup {Body(w)}
    BY <1>8 DEF Record
  <2>3. /\ Body(w) \in [size : 0..Cap, truncated : BOOLEAN, blob : BOOLEAN]
        /\ Body(w).size = stored[w] /\ Body(w).blob = session[w]
    BY <1>2 DEF Body
  <2>4. RowInv(Body(w))
    BY <1>1, <2>1, <2>3 DEF RowInv, InStore
  <2>5. \A r \in rows' : r \in rows \/ RowInv(r)'
    BY <2>2, <2>4 DEF RowInv
  <2>6. InStore(w)' /\ WholeOrCopied' /\ <<w, crashes>> \notin staging'
    BY <1>1, <2>1, <2>2 DEF InStore, Held, Moving, WholeOrCopied
  <2> QED BY <1>2, <2>1, <2>2, <2>3, <2>5, <2>6, Goes DEF Places, Moving, Capturing
<1> QED BY <1>4, <1>5, <1>6, <1>7, <1>8

\* One chunk.
LEMMA WriteStep == ASSUME BlobInv, NEW w \in Writers, NEW n \in Chunks, Write(w, n) PROVE BlobInv'
<1> DEFINE k == Kept(w, n)
           opens == session[w] = FALSE /\ stored[w] < Cap /\ stored[w] + k > Spill
<1>1. /\ BlobTypeOK /\ Prefix(w) /\ InStore(w) /\ WholeOrCopied /\ Cap \in Nat \ {0} /\ Spill \in Nat /\ MaxTotal \in Nat
      /\ <<w, crashes>> \in staging => Held(w)
      /\ n \in Nat \ {0} /\ crashes \in 0..MaxCrashes
  BY Facts, LimitsAssumption DEF BlobTypeOK
<1>2. /\ total \in [Writers -> 0..MaxTotal] /\ stored \in [Writers -> 0..Cap]
      /\ cut \in [Writers -> BOOLEAN] /\ session \in [Writers -> BOOLEAN]
  BY <1>1 DEF BlobTypeOK
<1>3. at[w] = "filling" /\ total[w] + n <= MaxTotal /\ UNCHANGED <<at, disk, fellBack, rows, crashes>>
  BY DEF Write
<1>4. total[w] \in Nat /\ stored[w] = Smaller(total[w], Cap) /\ k = Smaller(n, Cap - stored[w])
  BY <1>1, <1>2 DEF Prefix, Kept
<1> HIDE DEF k
<1>5. /\ k \in Nat /\ stored[w] \in 0..Cap /\ stored[w] + k = Smaller(total[w] + n, Cap)
      /\ Smaller(total[w] + n, Cap) \in 0..Cap /\ stored[w] <= stored[w] + k
      /\ (total[w] > Cap \/ stored[w] >= Cap \/ k < n) <=> total[w] + n > Cap
      /\ stored[w] >= Cap => k = 0
  <2>1. PICK t \in Nat : t = total[w]
    BY <1>4
  <2>2. k = Smaller(n, Cap - Smaller(t, Cap))
    BY <1>4, <2>1
  <2>3. /\ k \in Nat /\ Smaller(t, Cap) \in 0..Cap
        /\ Smaller(t, Cap) + k = Smaller(t + n, Cap)
        /\ Smaller(t + n, Cap) \in 0..Cap /\ Smaller(t, Cap) <= Smaller(t + n, Cap)
        /\ (t > Cap \/ Smaller(t, Cap) >= Cap \/ k < n) <=> t + n > Cap
        /\ Smaller(t, Cap) >= Cap => k = 0
    <3>1. PICK cap \in Nat \ {0} : cap = Cap
      BY <1>1
    <3>2. n \in Nat \ {0} /\ k = Smaller(n, cap - Smaller(t, cap))
      BY <1>1, <2>2, <3>1
    <3>3. /\ k \in Nat /\ Smaller(t, cap) \in 0..cap
          /\ Smaller(t, cap) + k = Smaller(t + n, cap)
          /\ Smaller(t + n, cap) \in 0..cap /\ Smaller(t, cap) <= Smaller(t + n, cap)
          /\ (t > cap \/ Smaller(t, cap) >= cap \/ k < n) <=> t + n > cap
          /\ Smaller(t, cap) >= cap => k = 0
      BY <3>2 DEF Smaller
    <3> QED BY <3>1, <3>3
  <2> QED BY <1>4, <2>1, <2>3
<1>6. /\ total' = [total EXCEPT ![w] = total[w] + n] /\ stored' = [stored EXCEPT ![w] = stored[w] + k]
      /\ total'[w] = total[w] + n /\ stored'[w] = stored[w] + k
      /\ total' \in [Writers -> 0..MaxTotal] /\ stored' \in [Writers -> 0..Cap]
      /\ \A v \in Writers \ {w} : total'[v] = total[v] /\ stored'[v] = stored[v]
  BY <1>1, <1>2, <1>3, <1>4, <1>5 DEF Write, k
<1>7. /\ cut' \in [Writers -> BOOLEAN] /\ \A v \in Writers \ {w} : cut'[v] = cut[v]
      /\ cut'[w] = TRUE <=> total[w] + n > Cap
  <2> DEFINE long == stored[w] >= Cap \/ k < n
  <2>1. cut' = [cut EXCEPT ![w] = cut[w] \/ long]
    BY DEF Write, k
  <2>2. long \in BOOLEAN /\ cut[w] \in BOOLEAN
    BY <1>2
  <2>3. (cut[w] = TRUE \/ long) <=> total[w] + n > Cap
    BY <1>1, <1>5 DEF Prefix
  <2> HIDE DEF long
  <2>4. cut' \in [Writers -> BOOLEAN] /\ \A v \in Writers \ {w} : cut'[v] = cut[v]
    BY <1>2, <2>1, <2>2
  <2>5. cut'[w] = (cut[w] \/ long)
    BY <1>2, <2>1
  <2>6. cut'[w] = TRUE <=> cut[w] = TRUE \/ long
    BY <2>2, <2>5
  <2> QED BY <2>3, <2>4, <2>6
<1>8. IF opens THEN session' = [session EXCEPT ![w] = TRUE] /\ staging' = staging \cup {<<w, crashes>>}
               ELSE UNCHANGED <<session, staging>>
  <2>1. session[w] = FALSE <=> ~session[w]
    BY <1>2
  <2> QED BY <2>1 DEF Write, k
<1>9. /\ session' \in [Writers -> BOOLEAN] /\ \A v \in Writers \ {w} : session'[v] = session[v]
      /\ session'[w] = TRUE <=> opens \/ session[w] = TRUE
      /\ staging' \subseteq staging \cup {<<w, crashes>>} /\ (<<w, crashes>> \in staging' => opens \/ <<w, crashes>> \in staging)
  BY <1>2, <1>8
<1>10. opens \/ session[w] = TRUE <=> stored[w] + k > Spill
  <2>1. session[w] = TRUE <=> stored[w] > Spill
    BY <1>1 DEF Prefix
  <2>2. session[w] = TRUE \/ session[w] = FALSE
    BY <1>2
  <2>3. CASE session[w] = TRUE
    BY <1>1, <1>5, <2>1, <2>3
  <2>4. CASE session[w] = FALSE /\ stored[w] < Cap
    BY <2>4
  <2>5. CASE session[w] = FALSE /\ ~(stored[w] < Cap)
    BY <1>1, <1>5, <2>1, <2>5
  <2> QED BY <2>2, <2>3, <2>4, <2>5
<1> HIDE DEF opens
<1>11. BlobTypeOK'
  <2>1. <<w, crashes>> \in Writers \X (0..MaxCrashes)
    BY <1>1
  <2> QED BY <1>1, <1>3, <1>6, <1>7, <1>9, <2>1 DEF BlobTypeOK
<1>12. Prefix(w)'
  BY <1>3, <1>5, <1>6, <1>7, <1>9, <1>10 DEF Prefix
<1>13. InStore(w)' /\ WholeOrCopied'
  BY <1>1, <1>3 DEF InStore, Moving, WholeOrCopied
<1>14. <<w, crashes>> \in staging' => Held(w)'
  <2>1. <<w, crashes>> \in staging => session[w] = TRUE
    BY <1>1, <1>3 DEF Held, Moving
  <2> QED BY <1>3, <1>9, <2>1 DEF Held
<1> QED BY <1>3, <1>6, <1>7, <1>9, <1>11, <1>12, <1>13, <1>14, OneMoves DEF Moves

\* A body known in full.
LEMMA BytesStep == ASSUME BlobInv, NEW w \in Writers, NEW n \in 0..MaxTotal, BytesToBody(w, n) PROVE BlobInv'
<1> DEFINE kept == Smaller(n, Cap)
           large == kept > Spill
<1>1. /\ BlobTypeOK /\ Prefix(w) /\ InStore(w) /\ WholeOrCopied /\ Cap \in Nat \ {0} /\ Spill \in Nat /\ MaxTotal \in Nat
      /\ <<w, crashes>> \in staging => Held(w)
      /\ n \in Nat /\ crashes \in 0..MaxCrashes
  <2>1. /\ BlobTypeOK /\ Prefix(w) /\ InStore(w) /\ WholeOrCopied /\ Cap \in Nat \ {0} /\ Spill \in Nat
        /\ MaxTotal \in Nat /\ (<<w, crashes>> \in staging => Held(w))
    BY Facts
  <2>2. n \in Nat
    BY <2>1
  <2> QED BY <2>1, <2>2 DEF BlobTypeOK
<1>2. /\ total \in [Writers -> 0..MaxTotal] /\ stored \in [Writers -> 0..Cap] /\ at \in [Writers -> Places]
      /\ cut \in [Writers -> BOOLEAN] /\ session \in [Writers -> BOOLEAN]
  BY <1>1 DEF BlobTypeOK
<1>3. at[w] = "idle" /\ UNCHANGED <<disk, fellBack, rows, crashes>>
  BY DEF BytesToBody
<1>4. kept \in 0..Cap /\ (large => kept \in Ids)
  BY <1>1 DEF Smaller, Ids
<1>5. PICK place \in {"moving", "body"} :
         /\ at' = [at EXCEPT ![w] = place]
         /\ place = "moving" <=> large /\ disk[kept] = "none"
         /\ staging' = IF place = "moving" THEN staging \cup {<<w, crashes>>} ELSE staging
  BY DEF BytesToBody, Go
<1>6. /\ total' = [total EXCEPT ![w] = n] /\ stored' = [stored EXCEPT ![w] = kept]
      /\ cut' = [cut EXCEPT ![w] = n > Cap] /\ session' = [session EXCEPT ![w] = large]
  BY DEF BytesToBody
<1>7. large \in BOOLEAN /\ (n > Cap) \in BOOLEAN
  OBVIOUS
<1>8. /\ at' \in [Writers -> Places] /\ at'[w] = place /\ \A v \in Writers \ {w} : at'[v] = at[v]
      /\ total' \in [Writers -> 0..MaxTotal] /\ total'[w] = n /\ \A v \in Writers \ {w} : total'[v] = total[v]
  BY <1>2, <1>5, <1>6 DEF Places, Moving
<1>9. /\ cut' \in [Writers -> BOOLEAN] /\ \A v \in Writers \ {w} : cut'[v] = cut[v]
      /\ cut'[w] = TRUE <=> n > Cap
  BY <1>2, <1>6, <1>7
<1> HIDE DEF large
<1>10. /\ session' \in [Writers -> BOOLEAN] /\ \A v \in Writers \ {w} : session'[v] = session[v]
       /\ session'[w] = TRUE <=> large
  BY <1>2, <1>6, <1>7
<1> HIDE DEF kept
<1>11. stored' \in [Writers -> 0..Cap] /\ stored'[w] = kept /\ \A v \in Writers \ {w} : stored'[v] = stored[v]
  BY <1>2, <1>4, <1>6
<1>12. BlobTypeOK'
  <2>1. <<w, crashes>> \in Writers \X (0..MaxCrashes)
    BY <1>1
  <2>2. staging' \subseteq Writers \X (0..MaxCrashes)
    BY <1>1, <1>5, <2>1 DEF BlobTypeOK
  <2> QED BY <1>1, <1>3, <1>8, <1>9, <1>10, <1>11, <2>2 DEF BlobTypeOK
<1>13. Prefix(w)'
  BY <1>8, <1>9, <1>10, <1>11 DEF Prefix, kept, large
<1>14. InStore(w)' /\ WholeOrCopied'
  BY <1>1, <1>3, <1>5, <1>8, <1>10, <1>11 DEF InStore, Moving, WholeOrCopied
<1>15. <<w, crashes>> \in staging' => Held(w)'
  BY <1>1, <1>3, <1>5, <1>8 DEF Held, Moving
<1> QED BY <1>3, <1>5, <1>8, <1>9, <1>10, <1>11, <1>12, <1>13, <1>14, <1>15, OneMoves DEF Moves

\* The process dies; its temporary files are of an earlier run from then on.
LEMMA CrashStep == ASSUME BlobInv, Crash PROVE BlobInv'
<1>1. /\ Cap \in Nat \ {0} /\ Spill \in Nat /\ MaxTotal \in Nat /\ MaxCrashes \in Nat /\ BlobTypeOK
      /\ crashes \in Nat /\ crashes' = crashes + 1 /\ crashes < MaxCrashes
      /\ UNCHANGED <<disk, fellBack, staging, rows>>
  BY LimitsAssumption DEF Crash, BlobInv, BlobTypeOK
<1>2. BlobTypeOK'
  BY <1>1 DEF Crash, BlobTypeOK, Places
<1>3. Smaller(0, Cap) = 0 /\ 0 <= Cap /\ 0 <= Spill
  BY <1>1 DEF Smaller
<1>4. ASSUME NEW w \in Writers PROVE Prefix(w)' /\ InStore(w)'
  BY <1>1, <1>3 DEF Crash, Prefix, InStore, Moving
<1>5. Staged'
  <2>1. ASSUME NEW s \in staging PROVE s[2] < crashes + 1
    <3>1. s[2] \in Nat
      BY <1>1 DEF BlobTypeOK
    <3>2. s[2] < crashes \/ s[2] = crashes
      BY DEF BlobInv, Staged
    <3> QED BY <1>1, <3>1, <3>2
  <2> QED BY <1>1, <2>1 DEF Staged
<1>6. WholeOrCopied' /\ \A r \in rows' : RowInv(r)'
  BY <1>1 DEF BlobInv, WholeOrCopied, RowInv
<1> QED BY <1>2, <1>4, <1>5, <1>6 DEF BlobInv

LEMMA BlobStep == BlobInv /\ [BlobNext]_blobVars => BlobInv'
<1> SUFFICES ASSUME BlobInv, [BlobNext]_blobVars PROVE BlobInv'
  OBVIOUS
<1>1. CASE UNCHANGED blobVars
  BY <1>1 DEF blobVars, BlobInv, BlobTypeOK, WholeOrCopied, Staged, Held, Prefix, InStore, RowInv
<1>2. ASSUME NEW w \in Writers, \E n \in Chunks : Write(w, n) PROVE BlobInv'
  BY <1>2, WriteStep
<1>3. ASSUME NEW w \in Writers, \E n \in 0..MaxTotal : BytesToBody(w, n) PROVE BlobInv'
  BY <1>3, BytesStep
<1>4. ASSUME NEW w \in Writers,
             OpenCollector(w) \/ Finish(w) \/ Drop(w) \/ Has(w) \/ Rename(w) \/ BeginCopy(w) \/ EndCopy(w) \/ RemoveCopied(w) \/ Record(w)
      PROVE  BlobInv'
  BY <1>4, StoreStep
<1> QED BY <1>1, <1>2, <1>3, <1>4, CrashStep DEF BlobNext

\* The inductive invariant of the blob store.
THEOREM BlobInductive == BlobSpec => []BlobInv
<1>1. BlobInit => BlobInv
  BY BlobStarts
<1>2. BlobInv /\ [BlobNext]_blobVars => BlobInv'
  BY BlobStep
<1> QED BY <1>1, <1>2, PTL DEF BlobSpec

LEMMA BlobInvSuffices == BlobInv => StoreInv
<1> SUFFICES ASSUME BlobInv PROVE StoreInv
  OBVIOUS
<1>1. BlobTypeOK
  BY DEF BlobInv
<1>2. BodyIsPrefix
  <2>1. ASSUME NEW w \in Writers
        PROVE  /\ stored[w] = Smaller(total[w], Cap) /\ cut[w] = (total[w] > Cap) /\ session[w] = (stored[w] > Spill)
    <3>1. cut[w] \in BOOLEAN /\ session[w] \in BOOLEAN
      BY <1>1 DEF BlobTypeOK
    <3>2. /\ stored[w] = Smaller(total[w], Cap) /\ (cut[w] = TRUE <=> total[w] > Cap) /\ (session[w] = TRUE <=> stored[w] > Spill)
      BY DEF BlobInv, Prefix
    <3>3. (total[w] > Cap) \in BOOLEAN /\ (stored[w] > Spill) \in BOOLEAN
      OBVIOUS
    <3> QED BY <3>1, <3>2, <3>3
  <2> QED BY <2>1 DEF BodyIsPrefix
<1>3. RowsHaveBlobs /\ RenamedBlobsAreWhole
  <2>1. ASSUME NEW r \in rows
        PROVE  /\ r.blob => disk[r.size] # "none"
               /\ r.blob /\ r.size \notin fellBack => disk[r.size] = "whole"
    <3>1. r.blob \in BOOLEAN /\ RowInv(r) /\ WholeOrCopied
      BY <1>1 DEF BlobInv, BlobTypeOK
    <3>2. r.blob = TRUE => r.size \in Ids /\ disk[r.size] # "none" /\ (r.size \notin fellBack => disk[r.size] = "whole")
      BY <3>1 DEF RowInv, WholeOrCopied
    <3> QED BY <3>1, <3>2
  <2> QED BY <2>1 DEF RowsHaveBlobs, RenamedBlobsAreWhole
<1>4. StagingIsExplained
  BY DEF BlobInv, Staged, Held, StagingIsExplained, Moving
<1> QED BY <1>1, <1>2, <1>3, <1>4 DEF StoreInv

\* A body is the prefix its cap allows, a row names a blob that is there, and whole
\* unless a copy was made onto it, and every temporary file has an owner, a body that
\* was dropped or a dead process: for any number of writers, chunks and crashes.
THEOREM StoreStaysSound == BlobSpec => []StoreInv
<1>1. BlobSpec => []BlobInv
  BY BlobInductive
<1> QED BY <1>1, BlobInvSuffices, PTL

-----------------------------------------------------------------------------
(* The schema: Migrations *)

Newest == Len(MIGRATIONS)

\* What a database of one version holds.
Upto(n) == UNION {MIGRATIONS[v] : v \in 1..n}

Procs == [at : {"down", "read", "loop", "changing", "versioned", "open", "refused"},
          knows : 0..Newest, current : 0..Newest, next : 1..(Newest + 1), opens : Nat, raced : BOOLEAN]

Alone(q) == q.raced = FALSE

\* A process is behind the file by what others committed, and only by that.
Pace(q) ==
  /\ q.at = "read" => q.current = 0 /\ q.next = 1
  /\ q.at \in {"loop", "changing", "versioned", "open"} => q.current <= saved.version /\ q.next <= saved.version + 1
  /\ q.at \in {"loop", "changing", "versioned"} => q.next <= q.knows + 1
  /\ q.at \in {"changing", "versioned"} => q.next <= q.knows /\ q.next > q.current
  /\ q.at \in {"loop", "changing", "versioned"} /\ Alone(q) =>
        saved.version = q.current \/ (q.next > q.current /\ saved.version = q.next - 1)
  /\ q.at = "open" => q.knows <= saved.version
  /\ q.at = "refused" => q.raced = TRUE

\* Who changes the file has its lock, and has what it changes from the file.
Holds(p) ==
  /\ proc[p].at \in {"changing", "versioned"} <=> lock = p
  /\ proc[p].at = "changing" => work[p] = saved
  /\ proc[p].at = "versioned" =>
        /\ proc[p].next = saved.version + 1
        /\ work[p].version = proc[p].next /\ work[p].tables = saved.tables \cup MIGRATIONS[proc[p].next]

SchemaInv ==
  /\ SchemaTypeOK /\ FileIsOfOneVersion
  /\ proc \in [Processes -> Procs] /\ work \in [Processes -> [version : 0..Newest, tables : SUBSET Upto(Newest)]]
  /\ \A p \in Processes : Pace(proc[p]) /\ Holds(p)

LEMMA SchemaConsts ==
  /\ Newest \in Nat /\ DOMAIN MIGRATIONS = 1..Newest /\ Nobody \notin Processes
  /\ \A v \in 1..Newest : MIGRATIONS[v] # {}
  /\ \A v, w \in 1..Newest : v # w => MIGRATIONS[v] \cap MIGRATIONS[w] = {}
  /\ Upto(Newest) = UNION {MIGRATIONS[v] : v \in DOMAIN MIGRATIONS}
<1>1. Newest \in Nat /\ DOMAIN MIGRATIONS = 1..Newest
  BY MigrationsAssumption DEF Newest
<1> QED BY <1>1, MigrationsAssumption DEF Nobody, Upto

\* One migration more is one version more.
LEMMA UptoNext ==
  ASSUME NEW n \in Nat, n + 1 <= Newest
  PROVE  Upto(n + 1) = Upto(n) \cup MIGRATIONS[n + 1]
<1>1. 1..(n + 1) = (1..n) \cup {n + 1}
  OBVIOUS
<1> QED BY <1>1 DEF Upto

\* A migration creates nothing that is there exactly if it is not of the version.
LEMMA FreshTables ==
  ASSUME NEW n \in 0..Newest, NEW v \in 1..Newest
  PROVE  MIGRATIONS[v] \cap Upto(n) = {} <=> v > n
<1>1. ASSUME v > n PROVE MIGRATIONS[v] \cap Upto(n) = {}
  <2>1. ASSUME NEW u \in 1..n PROVE MIGRATIONS[v] \cap MIGRATIONS[u] = {}
    <3>1. u \in 1..Newest /\ u # v
      BY <1>1, SchemaConsts
    <3> QED BY <3>1, SchemaConsts
  <2> QED BY <2>1 DEF Upto
<1>2. ASSUME ~(v > n) PROVE MIGRATIONS[v] \cap Upto(n) # {}
  <2>1. v \in 1..n
    BY <1>2, SchemaConsts
  <2>2. MIGRATIONS[v] \subseteq Upto(n)
    BY <2>1 DEF Upto
  <2> QED BY <2>2, SchemaConsts
<1> QED BY <1>1, <1>2

LEMMA UptoGrows ==
  ASSUME NEW n \in 0..Newest
  PROVE  Upto(n) \subseteq Upto(Newest)
BY SchemaConsts DEF Upto

LEMMA SchemaStarts == SchemaInit => SchemaInv
<1> SUFFICES ASSUME SchemaInit PROVE SchemaInv
  OBVIOUS
<1> USE SchemaConsts
<1>1. Upto(0) = {}
  BY DEF Upto
<1>2. SchemaTypeOK /\ FileIsOfOneVersion
  BY <1>1 DEF SchemaInit, SchemaTypeOK, FileIsOfOneVersion, Upto, Newest
<1>3. proc \in [Processes -> Procs] /\ work \in [Processes -> [version : 0..Newest, tables : SUBSET Upto(Newest)]]
  BY DEF SchemaInit, Procs
<1>4. ASSUME NEW p \in Processes PROVE Pace(proc[p]) /\ Holds(p)
  BY DEF SchemaInit, Pace, Holds, Alone
<1> QED BY <1>2, <1>3, <1>4 DEF SchemaInv

\* A step of p that leaves the file alone disturbs no other process.
Keeps(p) ==
  /\ saved' = saved
  /\ \A q \in Processes \ {p} : proc'[q] = proc[q] /\ work'[q] = work[q]
  /\ lock' = lock \/ (lock = Nobody /\ lock' = p) \/ (lock = p /\ lock' = Nobody)
  /\ proc' \in [Processes -> Procs] /\ work' \in [Processes -> [version : 0..Newest, tables : SUBSET Upto(Newest)]]
  /\ Pace(proc[p])' /\ Holds(p)'

LEMMA KeepsInv ==
  ASSUME SchemaInv, NEW p \in Processes, Keeps(p)
  PROVE  SchemaInv'
<1>1. SchemaTypeOK' /\ FileIsOfOneVersion'
  <2>1. \A q \in Processes : proc'[q] \in Procs
    BY DEF Keeps
  <2> QED BY <2>1, SchemaConsts DEF SchemaInv, Keeps, SchemaTypeOK, FileIsOfOneVersion, Procs
<1>2. ASSUME NEW q \in Processes, q # p PROVE Pace(proc[q])' /\ Holds(q)'
  <2>1. Pace(proc[q]) /\ Holds(q) /\ Holds(p) /\ saved' = saved /\ proc'[q] = proc[q] /\ work'[q] = work[q]
    BY <1>2 DEF SchemaInv, Keeps
  <2>2. lock' = q <=> lock = q
    BY <1>2, SchemaConsts DEF Keeps
  <2>3. Pace(proc[q])'
    BY <2>1 DEF Pace, Alone
  <2> QED BY <2>1, <2>2, <2>3 DEF Holds
<1>3. \A q \in Processes : Pace(proc[q])' /\ Holds(q)'
  BY <1>2 DEF Keeps
<1> QED BY <1>1, <1>3 DEF SchemaInv, Keeps

\* What the invariant says of one process.
LEMMA Reads ==
  ASSUME SchemaInv, NEW p \in Processes
  PROVE  /\ proc[p] \in Procs /\ Pace(proc[p]) /\ Holds(p)
         /\ proc \in [Processes -> Procs]
         /\ work \in [Processes -> [version : 0..Newest, tables : SUBSET Upto(Newest)]]
         /\ saved \in [version : 0..Newest, tables : SUBSET Upto(Newest)]
         /\ saved.version \in 0..Newest /\ saved.tables = Upto(saved.version)
         /\ lock \in Processes \cup {Nobody}
BY SchemaConsts DEF SchemaInv, SchemaTypeOK, FileIsOfOneVersion, Upto, Newest

\* The fields of a process, one by one.
LEMMA Fields ==
  ASSUME SchemaInv, NEW p \in Processes
  PROVE  /\ proc[p].knows \in 0..Newest /\ proc[p].current \in 0..Newest /\ proc[p].next \in 1..(Newest + 1)
         /\ proc[p].knows \in Nat /\ proc[p].current \in Nat /\ proc[p].next \in Nat
         /\ proc[p].raced \in BOOLEAN /\ saved.version \in Nat /\ Newest \in Nat
<1>1. proc[p] \in Procs /\ Newest \in Nat /\ saved.version \in 0..Newest
  BY Reads, SchemaConsts
<1> QED BY <1>1 DEF Procs

LEMMA OpenStep ==
  ASSUME SchemaInv, NEW p \in Processes, NEW k \in DOMAIN MIGRATIONS, Open(p, k)
  PROVE  SchemaInv'
<1> USE SchemaConsts
<1> DEFINE q == [at |-> "read", knows |-> k, current |-> 0, next |-> 1, opens |-> proc[p].opens + 1, raced |-> FALSE]
<1>1. proc' = [proc EXCEPT ![p] = q] /\ proc[p].at = "down" /\ UNCHANGED <<saved, work, lock>>
  BY DEF Open
<1>2. q \in Procs
  BY Reads DEF Procs
<1>3. proc' \in [Processes -> Procs] /\ proc'[p] = q
  BY <1>1, <1>2, Reads
<1>4. Pace(proc[p])' /\ Holds(p)'
  BY <1>1, <1>3, Reads DEF Pace, Holds, Alone
<1>5. Keeps(p)
  BY <1>1, <1>3, <1>4, Reads DEF Keeps
<1> QED BY <1>5, KeepsInv

LEMMA ReadVersionStep ==
  ASSUME SchemaInv, NEW p \in Processes, ReadVersion(p)
  PROVE  SchemaInv'
<1> USE SchemaConsts
<1> DEFINE q == [proc[p] EXCEPT !.at = "loop", !.current = saved.version]
<1>1. proc' = [proc EXCEPT ![p] = q] /\ proc[p].at = "read" /\ UNCHANGED <<saved, work, lock>>
  BY Reads DEF ReadVersion
<1>2. q \in Procs
  BY Reads DEF Procs
<1>3. proc' \in [Processes -> Procs] /\ proc'[p] = q
  BY <1>1, <1>2, Reads
<1>4. /\ proc[p].next = 1
      /\ q.at = "loop" /\ q.current = saved.version /\ q.next = proc[p].next /\ q.knows = proc[p].knows
  <2>1. proc[p].next = 1
    BY <1>1, Reads DEF Pace
  <2> QED BY <2>1, Reads DEF Procs
<1>5. Pace(proc[p])' /\ Holds(p)'
  <2>1. Pace(proc[p])'
    BY <1>1, <1>3, <1>4, Fields DEF Pace, Alone
  <2>2. lock # p
    BY <1>1, Reads DEF Holds
  <2> QED BY <1>1, <1>3, <1>4, <2>1, <2>2 DEF Holds
<1>6. Keeps(p)
  BY <1>1, <1>3, <1>5, Reads DEF Keeps
<1> QED BY <1>6, KeepsInv

LEMMA SkipStep ==
  ASSUME SchemaInv, NEW p \in Processes, Skip(p)
  PROVE  SchemaInv'
<1> USE SchemaConsts
<1> DEFINE q == [proc[p] EXCEPT !.next = @ + 1]
<1>1. /\ proc' = [proc EXCEPT ![p] = q] /\ proc[p].at = "loop" /\ UNCHANGED <<saved, work, lock>>
      /\ proc[p].next <= proc[p].knows /\ proc[p].next <= proc[p].current
  BY Reads DEF Skip
<1>2. /\ proc[p].next \in Nat /\ proc[p].knows \in 0..Newest /\ proc[p].current \in 0..Newest
      /\ proc[p].current <= saved.version /\ saved.version \in 0..Newest
      /\ Alone(proc[p]) => saved.version = proc[p].current
  <2>1. /\ proc[p].current <= saved.version
        /\ Alone(proc[p]) => saved.version = proc[p].current \/ (proc[p].next > proc[p].current /\ saved.version = proc[p].next - 1)
    BY <1>1, Reads DEF Pace
  <2>2. ~(proc[p].next > proc[p].current)
    BY <1>1, Fields
  <2> QED BY <2>1, <2>2, Fields, Reads
<1>3. /\ q.at = "loop" /\ q.current = proc[p].current /\ q.next = proc[p].next + 1 /\ q.knows = proc[p].knows
      /\ q.raced = proc[p].raced
  BY <1>1, Reads DEF Procs
<1>4. q \in Procs
  <2>1. proc[p].next + 1 \in 1..(Newest + 1)
    BY <1>1, <1>2, Fields
  <2> QED BY <2>1, Reads DEF Procs
<1>5. proc' \in [Processes -> Procs] /\ proc'[p] = q
  BY <1>1, <1>4, Reads
<1>6. Pace(proc[p])' /\ Holds(p)'
  <2>1. Pace(proc[p])'
    BY <1>1, <1>2, <1>3, <1>5, Fields DEF Pace, Alone
  <2>2. lock # p
    BY <1>1, Reads DEF Holds
  <2> QED BY <1>1, <1>3, <1>5, <2>1, <2>2 DEF Holds
<1>7. Keeps(p)
  BY <1>1, <1>5, <1>6, Reads DEF Keeps
<1> QED BY <1>7, KeepsInv

LEMMA BeginStep ==
  ASSUME SchemaInv, NEW p \in Processes, Begin(p)
  PROVE  SchemaInv'
<1> USE SchemaConsts
<1>1. /\ proc[p].at = "loop" /\ saved' = saved
      /\ proc[p].next <= proc[p].knows /\ proc[p].next > proc[p].current
  BY DEF Begin
<1>2. CASE lock = Nobody
  <2> DEFINE q == [proc[p] EXCEPT !.at = "changing"]
  <2>1. lock' = p /\ work' = [work EXCEPT ![p] = saved] /\ proc' = [proc EXCEPT ![p] = q]
    BY <1>2, Reads DEF Begin
  <2>2. /\ q \in Procs /\ q.at = "changing" /\ q.current = proc[p].current /\ q.next = proc[p].next
        /\ q.knows = proc[p].knows /\ q.raced = proc[p].raced
    BY Reads DEF Procs
  <2>3. proc' \in [Processes -> Procs] /\ proc'[p] = q /\ work'[p] = saved
        /\ work' \in [Processes -> [version : 0..Newest, tables : SUBSET Upto(Newest)]]
    BY <2>1, <2>2, Reads
  <2>4. Pace(proc[p])' /\ Holds(p)'
    BY <1>1, <2>1, <2>2, <2>3, Reads DEF Pace, Holds, Alone
  <2>5. Keeps(p)
    BY <1>1, <1>2, <2>1, <2>3, <2>4, Reads DEF Keeps
  <2> QED BY <2>5, KeepsInv
<1>3. CASE lock # Nobody
  <2> DEFINE q == [proc[p] EXCEPT !.at = "refused", !.raced = TRUE]
  <2>1. proc' = [proc EXCEPT ![p] = q] /\ UNCHANGED <<work, lock>>
    BY <1>3, Reads DEF Begin
  <2>2. q \in Procs /\ q.at = "refused" /\ q.raced = TRUE
    BY Reads DEF Procs
  <2>3. proc' \in [Processes -> Procs] /\ proc'[p] = q
    BY <2>1, <2>2, Reads
  <2>4. Pace(proc[p])' /\ Holds(p)'
    BY <1>1, <2>1, <2>2, <2>3, Reads DEF Pace, Holds, Alone
  <2>5. Keeps(p)
    BY <1>1, <2>1, <2>3, <2>4, Reads DEF Keeps
  <2> QED BY <2>5, KeepsInv
<1> QED BY <1>2, <1>3

LEMMA UpStep ==
  ASSUME SchemaInv, NEW p \in Processes, Up(p)
  PROVE  SchemaInv'
<1> USE SchemaConsts
<1>1. proc[p].at = "changing" /\ saved' = saved
  BY DEF Up
<1>2. /\ work[p] = saved /\ lock = p
      /\ proc[p].next <= proc[p].knows /\ proc[p].next > proc[p].current /\ proc[p].next <= saved.version + 1
      /\ Alone(proc[p]) => saved.version = proc[p].current \/ saved.version = proc[p].next - 1
  BY <1>1, Reads DEF Holds, Pace
<1>3. /\ proc[p].next \in 1..Newest /\ saved.version \in 0..Newest /\ saved.tables = Upto(saved.version)
      /\ proc[p].current \in Nat
  BY <1>2, Reads DEF Procs
<1>4. MIGRATIONS[proc[p].next] \cap work[p].tables = {} <=> proc[p].next > saved.version
  BY <1>2, <1>3, FreshTables
<1>5. CASE MIGRATIONS[proc[p].next] \cap work[p].tables = {}
  <2> DEFINE q == [proc[p] EXCEPT !.at = "versioned"]
             u == [work[p] EXCEPT !.tables = @ \cup MIGRATIONS[proc[p].next], !.version = proc[p].next]
  <2>1. work' = [work EXCEPT ![p] = u] /\ proc' = [proc EXCEPT ![p] = q] /\ lock' = lock
    BY <1>5, Reads DEF Up
  <2>2. /\ q \in Procs /\ q.at = "versioned" /\ q.current = proc[p].current /\ q.next = proc[p].next
        /\ q.knows = proc[p].knows /\ q.raced = proc[p].raced
    BY Reads DEF Procs
  <2>3. u.version = proc[p].next /\ u.tables = saved.tables \cup MIGRATIONS[proc[p].next]
    BY <1>2, Reads
  <2>4. proc[p].next = saved.version + 1
    BY <1>2, <1>3, <1>4, <1>5
  <2>5. u \in [version : 0..Newest, tables : SUBSET Upto(Newest)]
    <3>1. MIGRATIONS[proc[p].next] \subseteq Upto(Newest)
      BY <1>3 DEF Upto
    <3>2. saved.tables \subseteq Upto(Newest)
      BY <1>3, UptoGrows
    <3>3. proc[p].next \in 0..Newest
      BY <1>3
    <3>4. work[p].tables \cup MIGRATIONS[proc[p].next] \subseteq Upto(Newest)
      BY <1>2, <3>1, <3>2
    <3>5. work[p] \in [version : 0..Newest, tables : SUBSET Upto(Newest)]
      BY Reads
    <3> QED BY <3>3, <3>4, <3>5
  <2>6. proc' \in [Processes -> Procs] /\ proc'[p] = q /\ work'[p] = u
        /\ work' \in [Processes -> [version : 0..Newest, tables : SUBSET Upto(Newest)]]
    BY <2>1, <2>2, <2>5, Reads
  <2>7. Pace(proc[p])'
    BY <1>1, <1>2, <2>2, <2>6, Reads, ZenonT(60) DEF Pace, Alone
  <2>8. Holds(p)'
    BY <1>1, <1>2, <2>1, <2>2, <2>3, <2>4, <2>6 DEF Holds
  <2>9. Keeps(p)
    BY <1>1, <2>1, <2>6, <2>7, <2>8, Reads DEF Keeps
  <2> QED BY <2>9, KeepsInv
<1>6. CASE MIGRATIONS[proc[p].next] \cap work[p].tables # {}
  <2> DEFINE q == [proc[p] EXCEPT !.at = "refused"]
  <2>1. proc' = [proc EXCEPT ![p] = q] /\ lock' = Nobody /\ work' = work
    BY <1>6, Reads DEF Up
  <2>2. proc[p].raced = TRUE
    <3>1. ~Alone(proc[p])
      BY <1>2, <1>3, <1>4, <1>6
    <3>2. proc[p].raced \in BOOLEAN
      BY Reads DEF Procs
    <3> QED BY <3>1, <3>2 DEF Alone
  <2>3. q \in Procs /\ q.at = "refused" /\ q.raced = TRUE
    BY <2>2, Reads DEF Procs
  <2>4. proc' \in [Processes -> Procs] /\ proc'[p] = q
    BY <2>1, <2>3, Reads
  <2>5. Pace(proc[p])' /\ Holds(p)'
    BY <1>1, <2>1, <2>3, <2>4, Reads DEF Pace, Holds, Alone
  <2>6. Keeps(p)
    BY <1>1, <1>2, <2>1, <2>4, <2>5, Reads DEF Keeps
  <2> QED BY <2>6, KeepsInv
<1> QED BY <1>5, <1>6

\* The file goes to the next version, and everybody else has been raced.
LEMMA CommitStep ==
  ASSUME SchemaInv, NEW p \in Processes, Commit(p)
  PROVE  SchemaInv'
<1> USE SchemaConsts
<1> DEFINE q == [proc[p] EXCEPT !.at = "loop", !.next = @ + 1]
<1>1. /\ proc[p].at = "versioned" /\ saved' = work[p] /\ lock' = Nobody /\ work' = work
      /\ proc' = [o \in Processes |-> IF o = p THEN q ELSE [proc[o] EXCEPT !.raced = TRUE]]
  BY DEF Commit
<1>2. /\ lock = p /\ proc[p].next = saved.version + 1
      /\ work[p].version = proc[p].next /\ work[p].tables = saved.tables \cup MIGRATIONS[proc[p].next]
      /\ proc[p].next <= proc[p].knows /\ proc[p].next > proc[p].current
  BY <1>1, Reads DEF Holds, Pace
<1>3. proc[p].next \in 1..Newest /\ proc[p].knows \in 0..Newest /\ proc[p].current \in 0..Newest /\ saved.version \in Nat
  BY <1>2, Reads DEF Procs
<1>4. saved'.version = saved.version + 1 /\ saved'.version = proc[p].next /\ saved'.tables = Upto(saved'.version)
  <2>1. saved'.version = proc[p].next /\ saved'.tables = saved.tables \cup MIGRATIONS[proc[p].next]
    BY <1>1, <1>2
  <2>2. PICK n \in Nat : n = saved.version
    BY <1>3
  <2>3. n + 1 = proc[p].next /\ n + 1 <= Newest
    BY <1>2, <1>3, <2>2
  <2>4. Upto(n + 1) = Upto(n) \cup MIGRATIONS[n + 1]
    BY <2>3, UptoNext
  <2>5. saved.tables = Upto(n)
    BY <2>2, Reads
  <2> QED BY <2>1, <2>2, <2>3, <2>4, <2>5
<1>5. ASSUME NEW o \in Processes, o # p
      PROVE  proc'[o] \in Procs /\ Pace(proc[o])' /\ Holds(o)'
  <2> DEFINE r == [proc[o] EXCEPT !.raced = TRUE]
  <2>1. proc'[o] = r
    BY <1>1, <1>5
  <2>2. /\ r \in Procs /\ r.at = proc[o].at /\ r.knows = proc[o].knows /\ r.current = proc[o].current
        /\ r.next = proc[o].next /\ r.raced = TRUE
    BY <1>5, Reads DEF Procs
  <2>3. proc[o] \in Procs /\ Pace(proc[o]) /\ Holds(o)
    BY <1>5, Reads
  <2>4. ~(proc[o].at \in {"changing", "versioned"})
    BY <2>3, <1>2, <1>5 DEF Holds
  <2>5. proc[o].knows \in Nat /\ proc[o].current \in Nat /\ proc[o].next \in Nat
    BY <2>3 DEF Procs
  <2>6. Pace(proc[o])'
    BY <2>1, <2>2, <2>3, <2>4, <2>5, <1>3, <1>4 DEF Pace, Alone
  <2>7. Holds(o)'
    BY <2>1, <2>2, <2>4, <1>1 DEF Holds
  <2> QED BY <2>1, <2>2, <2>6, <2>7
<1>6. q \in Procs /\ Pace(proc[p])' /\ Holds(p)'
  <2>1. proc'[p] = q
    BY <1>1
  <2>2. /\ q \in Procs /\ q.at = "loop" /\ q.knows = proc[p].knows /\ q.current = proc[p].current
        /\ q.next = proc[p].next + 1 /\ q.raced = proc[p].raced
    <3>1. proc[p].next + 1 \in 1..(Newest + 1)
      BY <1>3
    <3> QED BY <3>1, Reads DEF Procs
  <2>3. Pace(proc[p])'
    BY <2>1, <2>2, <1>2, <1>3, <1>4 DEF Pace, Alone
  <2>4. Holds(p)'
    BY <2>1, <2>2, <1>1 DEF Holds
  <2> QED BY <2>2, <2>3, <2>4
<1>7. proc' \in [Processes -> Procs]
  BY <1>1, <1>5, <1>6
<1>8. SchemaTypeOK' /\ FileIsOfOneVersion'
  <2>1. saved' \in [version : 0..Newest, tables : SUBSET Upto(Newest)]
    BY <1>1, Reads
  <2>2. \A o \in Processes : proc'[o] \in Procs
    BY <1>7
  <2> QED BY <2>1, <2>2, <1>1, <1>4 DEF SchemaTypeOK, FileIsOfOneVersion, Procs, Upto, Newest
<1>9. \A o \in Processes : Pace(proc[o])' /\ Holds(o)'
  BY <1>5, <1>6
<1> QED BY <1>1, <1>7, <1>8, <1>9, Reads DEF SchemaInv

LEMMA OpenedStep ==
  ASSUME SchemaInv, NEW p \in Processes, Opened(p)
  PROVE  SchemaInv'
<1> USE SchemaConsts
<1> DEFINE q == [proc[p] EXCEPT !.at = "open"]
<1>1. proc' = [proc EXCEPT ![p] = q] /\ proc[p].at = "loop" /\ proc[p].next > proc[p].knows /\ UNCHANGED <<saved, work, lock>>
  BY Reads DEF Opened
<1>2. /\ q \in Procs /\ q.at = "open" /\ q.current = proc[p].current /\ q.next = proc[p].next /\ q.knows = proc[p].knows
  BY Reads DEF Procs
<1>3. proc' \in [Processes -> Procs] /\ proc'[p] = q
  BY <1>1, <1>2, Reads
<1>4. Pace(proc[p])' /\ Holds(p)'
  <2>1. Pace(proc[p]) /\ Holds(p)
    BY Reads
  <2>2. Pace(proc[p])'
    BY <1>1, <1>2, <1>3, <2>1, Fields DEF Pace, Alone
  <2> QED BY <1>1, <1>2, <1>3, <2>1, <2>2 DEF Holds
<1>5. Keeps(p)
  BY <1>1, <1>3, <1>4, Reads DEF Keeps
<1> QED BY <1>5, KeepsInv

LEMMA ExitStep ==
  ASSUME SchemaInv, NEW p \in Processes, Exit(p)
  PROVE  SchemaInv'
<1> USE SchemaConsts
<1> DEFINE q == Down(p)
<1>1. /\ proc' = [proc EXCEPT ![p] = q] /\ proc[p].at # "down" /\ UNCHANGED <<saved, work>>
      /\ lock' = IF lock = p THEN Nobody ELSE lock
  BY DEF Exit
<1>2. q \in Procs /\ q.at = "down"
  BY Reads DEF Procs, Down
<1>3. proc' \in [Processes -> Procs] /\ proc'[p] = q
  BY <1>1, <1>2, Reads
<1>4. Pace(proc[p])' /\ Holds(p)'
  BY <1>1, <1>2, <1>3, Reads DEF Pace, Holds, Alone
<1>5. Keeps(p)
  BY <1>1, <1>3, <1>4, Reads DEF Keeps
<1> QED BY <1>5, KeepsInv

LEMMA SchemaStep == SchemaInv /\ [SchemaNext]_schemaVars => SchemaInv'
<1> SUFFICES ASSUME SchemaInv, [SchemaNext]_schemaVars PROVE SchemaInv'
  OBVIOUS
<1>1. CASE UNCHANGED schemaVars
  BY <1>1 DEF schemaVars, SchemaInv, SchemaTypeOK, FileIsOfOneVersion, Pace, Holds, Alone
<1>2. CASE SchemaNext
  BY <1>2, OpenStep, ReadVersionStep, SkipStep, BeginStep, UpStep, CommitStep, OpenedStep, ExitStep DEF SchemaNext
<1> QED BY <1>1, <1>2

\* The inductive invariant of the migrations.
THEOREM SchemaInductive == SchemaSpec => []SchemaInv
<1> QED BY SchemaStarts, SchemaStep, PTL DEF SchemaSpec

LEMMA SchemaInvSuffices == SchemaInv => SchemaCorrect
<1> SUFFICES ASSUME SchemaInv PROVE SchemaCorrect
  OBVIOUS
<1>1. LoneOpenSucceeds /\ OpenMeansCurrent
  <2>1. ASSUME NEW p \in Processes PROVE (proc[p].at = "refused" => proc[p].raced) /\ (proc[p].at = "open" => saved.version >= proc[p].knows)
    <3>1. /\ proc[p].at = "refused" => proc[p].raced = TRUE
          /\ proc[p].at = "open" => proc[p].knows <= saved.version
          /\ proc[p].knows \in Nat /\ saved.version \in 0..Newest /\ Newest \in Nat
      BY Reads, Fields, SchemaConsts DEF Pace
    <3> QED BY <3>1
  <2> QED BY <2>1 DEF LoneOpenSucceeds, OpenMeansCurrent
<1> QED BY <1>1 DEF SchemaInv, SchemaCorrect

\* The database file is at all times that of one version, an open that nobody raced is
\* not refused, and an open project has the tables of its build: for any number of
\* processes, builds and migrations, whatever crashes.
THEOREM SchemaStaysCorrect == SchemaSpec => []SchemaCorrect
<1> QED BY SchemaInductive, SchemaInvSuffices, PTL

-----------------------------------------------------------------------------
(* The tables: Records *)

\* The rows agree with one another and with the scans, and the badge with the list.
Findings == [ex : Ex, key : Keys, hidden : BOOLEAN]

Badge(f) == Pair(f) \notin toggled => (f.hidden = TRUE <=> Pair(f) \notin announced)

\* What was announced is in the table, or its exchange is gone and does not return.
Announced(x) == scan[x[1]] # "none" /\ (x[1] \in exchanges => Exists(findings, x[1], x[2]))

RowsInv ==
  /\ exchanges \subseteq Ex /\ IsFiniteSet(exchanges) /\ frames \subseteq exchanges
  /\ findings \subseteq Findings /\ rules \subseteq Rules
  /\ scan \in [Ex -> {"none", "running", "done"}]
  /\ announced \subseteq Ex \X Keys /\ toggled \subseteq Ex \X Keys
  /\ OneFindingPerKey
  /\ \A f \in findings : f.ex \in exchanges /\ Badge(f)
  /\ \A e \in exchanges : scan[e] # "none"
  /\ \A x \in announced : Announced(x)

\* What the tool does not know of came after its read.
NotesInv ==
  /\ notes \in [Ex -> SUBSET Marks]
  /\ tool \in [on : BOOLEAN, ex : Ex \cup {0}, read : SUBSET Marks, missed : SUBSET Marks]
  /\ tool.on = TRUE => tool.ex \in Ex /\ notes[tool.ex] \subseteq tool.read \cup tool.missed

Exports == [at : {"none", "page", "done"}, offset : Nat, page : Seq(Ex), total : Nat, rows : Seq(Ex),
            disturbed : BOOLEAN, imports : BOOLEAN, whole : BOOLEAN]

Increasing(all) == \A i, j \in DOMAIN all : i < j => all[i] < all[j]

\* The rows of an undisturbed export are the oldest, and its page the next ones.
Paging(x) ==
  /\ x.total = Cardinality(exchanges) /\ x.offset = Len(x.rows)
  /\ x.offset + Len(x.page) <= Cardinality(exchanges)
  /\ x.offset + Len(x.page) = Cardinality(exchanges) \/ Len(x.page) = PageSize
  /\ \A i \in 1..Len(x.rows) : x.rows[i] = Sorted[i]
  /\ \A i \in 1..Len(x.page) : x.page[i] = Sorted[x.offset + i]

ExportInv ==
  /\ export \in Exports
  /\ export.disturbed = FALSE =>
       /\ export.at = "page" => Paging(export)
       /\ export.at = "done" => export.imports = TRUE /\ export.whole = TRUE /\ Increasing(export.rows)

RecordsInv == RowsInv /\ NotesInv /\ ExportInv
-----------------------------------------------------------------------------
(* The order of the history *)

LEMMA RankIs ==
  ASSUME exchanges \subseteq Nat, IsFiniteSet(exchanges)
  PROVE  /\ Cardinality(exchanges) \in Nat
         /\ \A e \in exchanges : Rank(e) \in 1..Cardinality(exchanges)
         /\ \A d, e \in exchanges : d < e => Rank(d) < Rank(e)
<1> DEFINE Older(e) == {d \in exchanges : d <= e}
<1>1. Cardinality(exchanges) \in Nat
  BY FS_CardinalityType
<1>2. ASSUME NEW e \in exchanges PROVE IsFiniteSet(Older(e)) /\ Cardinality(Older(e)) \in 1..Cardinality(exchanges)
  <2>1. Older(e) \in SUBSET exchanges /\ e \in Older(e)
    OBVIOUS
  <2>2. IsFiniteSet(Older(e)) /\ Cardinality(Older(e)) <= Cardinality(exchanges)
    BY <2>1, FS_Subset
  <2>3. Cardinality(Older(e)) \in Nat /\ Cardinality(Older(e)) # 0
    BY <2>1, <2>2, FS_CardinalityType, FS_EmptySet
  <2> QED BY <1>1, <2>2, <2>3
<1>3. ASSUME NEW d \in exchanges, NEW e \in exchanges, d < e PROVE Cardinality(Older(d)) < Cardinality(Older(e))
  <2>1. IsFiniteSet(Older(e)) /\ Cardinality(Older(e)) \in Nat /\ Cardinality(Older(d)) \in Nat
    BY <1>1, <1>2
  <2>2. e \in Older(e) /\ Older(d) \in SUBSET (Older(e) \ {e})
    <3>1. ASSUME NEW c \in exchanges, c <= d PROVE c <= e /\ c # e
      <4>1. c \in Nat /\ d \in Nat /\ e \in Nat
        OBVIOUS
      <4> QED BY <1>3, <3>1, <4>1
    <3>2. e <= e
      OBVIOUS
    <3> QED BY <3>1, <3>2
  <2> HIDE DEF Older
  <2>3. IsFiniteSet(Older(e) \ {e}) /\ Cardinality(Older(e) \ {e}) = Cardinality(Older(e)) - 1
    BY <2>1, <2>2, FS_RemoveElement
  <2>4. Cardinality(Older(d)) <= Cardinality(Older(e) \ {e})
    BY <2>2, <2>3, FS_Subset
  <2> QED BY <2>1, <2>3, <2>4
<1> QED BY <1>1, <1>2, <1>3 DEF Rank

\* A set of numbers in order: each once, all of them.
LEMMA SortedIs ==
  ASSUME exchanges \subseteq Nat, IsFiniteSet(exchanges)
  PROVE  /\ \A i \in 1..Cardinality(exchanges) : Sorted[i] \in exchanges
         /\ \A i, j \in 1..Cardinality(exchanges) : i < j => Sorted[i] < Sorted[j]
         /\ \A e \in exchanges : \E i \in 1..Cardinality(exchanges) : Sorted[i] = e
<1> DEFINE N == Cardinality(exchanges)
           f == [e \in exchanges |-> Rank(e)]
<1>1. /\ N \in Nat /\ \A e \in exchanges : Rank(e) \in 1..N
      /\ \A d, e \in exchanges : d < e => Rank(d) < Rank(e)
  BY RankIs
<1>2. \A d, e \in exchanges : Rank(d) = Rank(e) => d = e
  <2> SUFFICES ASSUME NEW d \in exchanges, NEW e \in exchanges, Rank(d) = Rank(e) PROVE d = e
    OBVIOUS
  <2>1. Rank(d) \in Nat /\ Rank(e) \in Nat /\ ~(d < e) /\ ~(e < d) /\ d \in Nat /\ e \in Nat
    BY <1>1
  <2> QED BY <2>1
<1>3. f \in Injection(exchanges, 1..N)
  BY <1>1, <1>2 DEF Injection, IsInjective
<1>4. f \in Surjection(exchanges, 1..N)
  <2>1. IsFiniteSet(1..N) /\ Cardinality(1..N) = N
    BY <1>1, FS_Interval
  <2> QED BY <1>3, <2>1, FS_Injection
<1>5. \A i \in 1..N : \E e \in exchanges : Rank(e) = i
  BY <1>4 DEF Surjection
<1>6. ASSUME NEW i \in 1..N PROVE Sorted[i] \in exchanges /\ Rank(Sorted[i]) = i
  BY <1>5 DEF Sorted
<1>7. ASSUME NEW i \in 1..N, NEW j \in 1..N, i < j PROVE Sorted[i] < Sorted[j]
  <2> DEFINE a == Sorted[i]
             b == Sorted[j]
  <2>1. a \in exchanges /\ b \in exchanges /\ Rank(a) = i /\ Rank(b) = j
    BY <1>6
  <2> HIDE DEF a, b
  <2>2. ~(b < a) /\ a # b
    BY <1>1, <1>7, <2>1
  <2>3. a \in Nat /\ b \in Nat
    BY <2>1
  <2>4. a < b
    BY <2>2, <2>3
  <2> QED BY <2>4 DEF a, b
<1>8. ASSUME NEW e \in exchanges PROVE \E i \in 1..N : Sorted[i] = e
  BY <1>1, <1>2, <1>6
<1> QED BY <1>6, <1>7, <1>8

-----------------------------------------------------------------------------
(* The rows *)

LEMMA RowsReads ==
  ASSUME RowsInv
  PROVE  /\ \A f \in findings : f.ex \in Ex /\ f.key \in Keys /\ f.hidden \in BOOLEAN /\ f.ex \in exchanges /\ Badge(f)
         /\ \A x \in announced : x[1] \in Ex /\ x[2] \in Keys /\ x = <<x[1], x[2]>>
         /\ exchanges \subseteq Ex
BY DEF RowsInv, Findings

\* What upsert wrote.
Written == findings' \ findings

\* upsert for some keys of an exchange: one row for each that had none, hidden if a rule
\* says so, announced if not.
LEMMA UpsertIs ==
  ASSUME NEW e \in Ex, NEW keys \in SUBSET Keys, NEW host, Upsert(e, keys, host)
  PROVE  /\ findings \subseteq findings'
         /\ \A f \in Written : /\ f \in Findings /\ f.ex = e /\ f.key \in keys /\ ~Exists(findings, e, f.key)
                               /\ f.hidden = TRUE <=> Suppressed(e, f.key, host)
         /\ \A f, g \in Written : f.key = g.key => f = g
         /\ \A x : x \in announced' <=> x \in announced \/ \E f \in Written : f.hidden = FALSE /\ x = <<e, f.key>>
<1> DEFINE New(k) == [ex |-> e, key |-> k, hidden |-> Suppressed(e, k, host)]
           Fresh == {k \in keys : ~Exists(findings, e, k)}
<1>1. \A k \in keys : Upserted(findings, e, k, host) = IF k \in Fresh THEN findings \cup {New(k)} ELSE findings
  BY DEF Upserted
<1>2. findings' = findings \cup {New(k) : k \in Fresh}
  <2>1. findings' = findings \cup UNION {Upserted(findings, e, k, host) : k \in keys}
    BY DEF Upsert
  <2> HIDE DEF New
  <2>2. \A k \in Fresh : k \in keys
    OBVIOUS
  <2> HIDE DEF Fresh
  <2> QED BY <2>1, <2>2, <1>1
<1>3. \A k \in keys : Suppressed(e, k, host) \in BOOLEAN
  BY DEF Suppressed
<1>4. ASSUME NEW k \in Fresh
      PROVE  /\ New(k) \in Findings /\ New(k).ex = e /\ New(k).key = k
             /\ New(k).hidden = TRUE <=> Suppressed(e, k, host)
             /\ New(k).hidden = FALSE <=> ~Suppressed(e, k, host)
             /\ New(k) \notin findings
  <2>1. PICK b \in BOOLEAN : b = Suppressed(e, k, host)
    BY <1>3
  <2>2. New(k) = [ex |-> e, key |-> k, hidden |-> b]
    BY <2>1
  <2>3. New(k) \in Findings /\ New(k).ex = e /\ New(k).key = k /\ New(k).hidden = b
    BY <2>2 DEF Findings
  <2>4. b = TRUE <=> Suppressed(e, k, host)
    BY <2>1
  <2>5. New(k) \notin findings
    BY <2>3 DEF Exists
  <2> HIDE DEF New
  <2> QED BY <2>3, <2>4, <2>5
<1> HIDE DEF New
<1>5. Written = {New(k) : k \in Fresh}
  BY <1>2, <1>4 DEF Written
<1>6. announced' = announced \cup {<<e, k>> : k \in {k \in Fresh : ~Suppressed(e, k, host)}}
  BY DEF Upsert, NewlyVisible
<1>7. \A x : x \in announced' <=> x \in announced \/ \E f \in Written : f.hidden = FALSE /\ x = <<e, f.key>>
  <2>1. ASSUME NEW k \in Fresh, ~Suppressed(e, k, host)
        PROVE  \E f \in Written : f.hidden = FALSE /\ <<e, k>> = <<e, f.key>>
    <3>1. New(k) \in Written /\ New(k).hidden = FALSE /\ New(k).key = k
      BY <2>1, <1>4, <1>5
    <3> QED BY <3>1
  <2>2. ASSUME NEW f \in Written, f.hidden = FALSE
        PROVE  <<e, f.key>> \in {<<e, k>> : k \in {k \in Fresh : ~Suppressed(e, k, host)}}
    <3>1. PICK k \in Fresh : f = New(k)
      BY <1>5
    <3>2. f.key = k /\ ~Suppressed(e, k, host)
      BY <2>2, <3>1, <1>4
    <3> QED BY <3>2
  <2> HIDE DEF Fresh
  <2> QED BY <2>1, <2>2, <1>6, ZenonT(60)
<1>8. \A f \in Written : \E k \in Fresh : f = New(k)
  BY <1>5
<1>9. \A k \in Fresh : k \in keys /\ ~Exists(findings, e, k)
  OBVIOUS
<1> HIDE DEF Fresh
<1>10. ASSUME NEW f \in Written
       PROVE  /\ f \in Findings /\ f.ex = e /\ f.key \in keys /\ ~Exists(findings, e, f.key)
              /\ f.hidden = TRUE <=> Suppressed(e, f.key, host)
              /\ f = New(f.key)
  <2>1. PICK k \in Fresh : f = New(k)
    BY <1>8
  <2>2. f \in Findings /\ f.ex = e /\ f.key = k /\ (f.hidden = TRUE <=> Suppressed(e, k, host))
    BY <2>1, <1>4
  <2> QED BY <2>1, <2>2, <1>9
<1>11. ASSUME NEW f \in Written, NEW g \in Written, f.key = g.key PROVE f = g
  BY <1>10, <1>11
<1>12. findings \subseteq findings'
  BY <1>2
<1> QED BY <1>7, <1>10, <1>11, <1>12

\* The rows an upsert leaves are again in order.
LEMMA UpsertKeeps ==
  ASSUME RowsInv, NEW e \in exchanges, NEW keys \in SUBSET Keys, NEW host, Upsert(e, keys, host),
         scan' \in [Ex -> {"none", "running", "done"}], \A d \in Ex : scan[d] # "none" => scan'[d] # "none",
         UNCHANGED <<exchanges, frames, rules, toggled>>
  PROVE  RowsInv'
<1>1. /\ e \in Ex /\ scan[e] # "none" /\ findings \subseteq Findings /\ announced \subseteq Ex \X Keys
      /\ \A f \in findings : f.ex \in exchanges /\ Badge(f)
      /\ \A x \in announced : Announced(x)
  BY DEF RowsInv
<1>2. /\ findings \subseteq findings'
      /\ \A f \in Written : /\ f \in Findings /\ f.ex = e /\ f.key \in keys /\ ~Exists(findings, e, f.key)
                            /\ f.hidden \in BOOLEAN
      /\ \A f, g \in Written : f.key = g.key => f = g
      /\ \A x : x \in announced' <=> x \in announced \/ \E f \in Written : f.hidden = FALSE /\ x = <<e, f.key>>
  BY <1>1, UpsertIs DEF Findings
<1>3. \A f \in findings' : f \in findings \/ f \in Written
  BY DEF Written
<1>4. \A f \in Written : <<e, f.key>> \notin announced
  BY <1>1, <1>2 DEF Announced
<1>5. findings' \subseteq Findings
  BY <1>1, <1>2, <1>3
<1>6. announced' \subseteq Ex \X Keys
  BY <1>1, <1>2
<1>7. OneFindingPerKey'
  <2>1. ASSUME NEW f \in findings', NEW g \in findings', Pair(f) = Pair(g) PROVE f = g
    <3>1. f.ex = g.ex /\ f.key = g.key
      BY <2>1 DEF Pair
    <3>2. CASE f \in findings /\ g \in findings
      BY <2>1, <3>2 DEF RowsInv, OneFindingPerKey
    <3>3. CASE f \in Written /\ g \in Written
      BY <3>1, <3>3, <1>2
    <3>4. CASE (f \in findings /\ g \in Written) \/ (f \in Written /\ g \in findings)
      BY <3>1, <3>4, <1>2 DEF Exists
    <3> QED BY <1>3, <3>2, <3>3, <3>4
  <2> QED BY <2>1 DEF OneFindingPerKey, Pair
<1>8. ASSUME NEW f \in findings' PROVE f.ex \in exchanges' /\ Badge(f)'
  <2>1. CASE f \in Written
    <3>1. f.ex = e /\ f.hidden \in BOOLEAN /\ Pair(f) = <<e, f.key>> /\ Pair(f) \notin announced
      BY <2>1, <1>2, <1>4 DEF Pair
    <3>2. Pair(f) \in announced' <=> f.hidden = FALSE
      <4>1. ASSUME NEW g \in Written, <<e, g.key>> = Pair(f) PROVE g = f
        <5>1. g.key = f.key
          BY <3>1, <4>1
        <5> QED BY <2>1, <5>1, <1>2
      <4> QED BY <2>1, <3>1, <4>1, <1>2
    <3> QED BY <3>1, <3>2 DEF Badge, Pair
  <2>2. CASE f \in findings
    <3>1. f.ex \in exchanges /\ Badge(f)
      BY <2>2, <1>1
    <3>2. Pair(f) \in announced' <=> Pair(f) \in announced
      <4>1. ASSUME NEW g \in Written, <<e, g.key>> = Pair(f) PROVE FALSE
        <5>1. f.ex = e /\ f.key = g.key
          BY <4>1 DEF Pair
        <5> QED BY <2>2, <4>1, <5>1, <1>2 DEF Exists
      <4> QED BY <4>1, <1>2
    <3> QED BY <3>1, <3>2 DEF Badge, Pair
  <2> QED BY <1>3, <2>1, <2>2
<1>9. ASSUME NEW x \in announced' PROVE Announced(x)'
  <2>1. CASE x \in announced
    <3>1. Announced(x) /\ x[1] \in Ex
      BY <2>1, <1>1
    <3> QED BY <3>1, <1>2 DEF Announced, Exists
  <2>2. CASE \E f \in Written : x = <<e, f.key>>
    <3>1. PICK f \in Written : x = <<e, f.key>>
      BY <2>2
    <3>2. x[1] = e /\ x[2] = f.key /\ f \in findings' /\ f.ex = e
      BY <3>1, <1>2 DEF Written
    <3> QED BY <3>2, <1>1 DEF Announced, Exists
  <2> QED BY <2>1, <2>2, <1>2
<1> QED BY <1>5, <1>6, <1>7, <1>8, <1>9 DEF RowsInv

LEMMA IngestRows ==
  ASSUME RowsInv, NEW e \in Ex, Ingest(e)
  PROVE  RowsInv'
<1>1. /\ scan[e] = "none" /\ scan' = [scan EXCEPT ![e] = "running"]
      /\ exchanges' = exchanges \/ exchanges' = exchanges \cup {e}
      /\ UNCHANGED <<findings, frames, rules, announced, toggled>>
  BY DEF Ingest
<1>2. IsFiniteSet(exchanges') /\ exchanges \subseteq exchanges' /\ exchanges' \subseteq Ex
  BY <1>1, FS_AddElement DEF RowsInv
<1>3. /\ scan' \in [Ex -> {"none", "running", "done"}] /\ scan'[e] = "running"
      /\ \A d \in Ex \ {e} : scan'[d] = scan[d]
  BY <1>1 DEF RowsInv
<1>4. ASSUME NEW x \in announced PROVE Announced(x)'
  <2>1. x[1] \in Ex /\ scan[x[1]] # "none" /\ (x[1] \in exchanges => Exists(findings, x[1], x[2]))
    BY RowsReads DEF RowsInv, Announced
  <2>2. x[1] # e /\ (x[1] \in exchanges' => x[1] \in exchanges)
    BY <1>1, <2>1
  <2> QED BY <1>1, <1>3, <2>1, <2>2 DEF Announced, Exists
<1>5. \A d \in exchanges' : scan'[d] # "none"
  BY <1>1, <1>2, <1>3 DEF RowsInv
<1>6. \A f \in findings : Badge(f)'
  BY <1>1 DEF RowsInv, Badge, Pair
<1> QED BY <1>1, <1>2, <1>3, <1>4, <1>5, <1>6 DEF RowsInv, OneFindingPerKey, Pair

\* A row that was not there is written by a scan or by an extension, for a reason.
Reasoned(f) ==
  f.hidden /\ ~Exists(findings, f.ex, f.key) =>
    \E rule \in rules : rule.key = f.key \/ rule.host = HostOf[f.ex]

LEMMA Reasons ==
  ASSUME RowsInv, NEW e \in Ex, NEW keys \in SUBSET Keys, NEW host \in {HostOf[e], NoHost}, Upsert(e, keys, host)
  PROVE  \A f \in findings' \ findings : Reasoned(f)
<1>1. ASSUME NEW f \in Written, f.hidden
      PROVE  \E rule \in rules : rule.key = f.key \/ rule.host = HostOf[f.ex]
  <2>1. f \in Findings /\ f.ex = e /\ (f.hidden = TRUE <=> Suppressed(e, f.key, host))
    BY UpsertIs
  <2>2. f.hidden = TRUE
    BY <1>1, <2>1 DEF Findings
  <2>3. PICK rule \in rules : Matches(rule, e, f.key, host)
    BY <2>1, <2>2 DEF Suppressed
  <2>4. rule.host \in Hosts \cup {""} /\ NoHost \notin Hosts /\ NoHost # ""
    BY RecordsAssumption DEF RowsInv, NoHost
  <2>5. rule.key = f.key \/ rule.host = HostOf[f.ex]
    BY <2>1, <2>3, <2>4 DEF Matches
  <2> QED BY <2>5
<1> QED BY <1>1 DEF Written, Reasoned

\* What a scan or an extension does to the rows.
LEMMA ScanRows ==
  ASSUME RowsInv, NEW e \in Ex, NEW keys \in SUBSET Keys, ScanResolves(e, keys)
  PROVE  RowsInv' /\ \A f \in findings' \ findings : Reasoned(f)
<1>1. /\ scan[e] = "running" /\ scan' = [scan EXCEPT ![e] = "done"] /\ UNCHANGED <<exchanges, frames, rules, toggled>>
  BY DEF ScanResolves
<1>2. scan' \in [Ex -> {"none", "running", "done"}] /\ \A d \in Ex : scan[d] # "none" => scan'[d] # "none"
  BY <1>1 DEF RowsInv
<1>3. CASE e \in exchanges
  <2>1. Upsert(e, keys, HostOf[e])
    BY <1>3 DEF ScanResolves
  <2> QED BY <1>1, <1>2, <1>3, <2>1, UpsertKeeps, Reasons
<1>4. CASE e \notin exchanges
  <2>1. UNCHANGED <<findings, announced>>
    BY <1>4 DEF ScanResolves
  <2>2. ASSUME NEW x \in announced PROVE Announced(x)'
    BY <1>1, <1>2, <2>1, RowsReads DEF RowsInv, Announced, Exists
  <2>3. \A d \in exchanges : scan'[d] # "none"
    BY <1>2 DEF RowsInv
  <2> QED BY <1>1, <1>2, <2>1, <2>2, <2>3 DEF RowsInv, OneFindingPerKey, Badge, Pair
<1> QED BY <1>3, <1>4

LEMMA ExtensionRows ==
  ASSUME RowsInv, NEW e \in Ex, NEW key \in Keys, ExtensionFinding(e, key)
  PROVE  RowsInv' /\ \A f \in findings' \ findings : Reasoned(f)
<1>1. /\ e \in exchanges /\ Upsert(e, {key}, NoHost) /\ UNCHANGED <<exchanges, frames, rules, toggled, scan>>
      /\ {key} \in SUBSET Keys /\ NoHost \in {HostOf[e], NoHost}
  BY DEF ExtensionFinding
<1>2. scan' \in [Ex -> {"none", "running", "done"}] /\ \A d \in Ex : scan[d] # "none" => scan'[d] # "none"
  BY <1>1 DEF RowsInv
<1> QED BY <1>1, <1>2, UpsertKeeps, Reasons

LEMMA FrameRows ==
  ASSUME RowsInv, NEW e \in Ex, IngestWsMessage(e)
  PROVE  RowsInv'
BY DEF RowsInv, IngestWsMessage, OneFindingPerKey, Badge, Announced, Pair, Exists

LEMMA RuleRows ==
  ASSUME RowsInv, NEW rule \in Rules, AddSuppression(rule) \/ RemoveSuppression(rule)
  PROVE  RowsInv'
<1>1. rules' \subseteq Rules /\ UNCHANGED <<exchanges, findings, frames, scan, announced, toggled>>
  BY DEF RowsInv, AddSuppression, RemoveSuppression
<1> QED BY <1>1 DEF RowsInv, OneFindingPerKey, Badge, Announced, Pair, Exists

LEMMA ToggleRows ==
  ASSUME RowsInv, NEW f \in findings, SetSuppressed(f)
  PROVE  RowsInv' /\ \A g \in findings' \ findings : Reasoned(g)
<1>1. PICK b \in BOOLEAN : b = ~f.hidden
  OBVIOUS
<1> DEFINE h == [f EXCEPT !.hidden = b]
<1>2. /\ findings' = (findings \ {f}) \cup {h} /\ toggled' = toggled \cup {Pair(f)}
      /\ UNCHANGED <<exchanges, frames, rules, scan, announced>>
  BY <1>1 DEF SetSuppressed
<1>3. f \in Findings
  BY DEF RowsInv
<1>4. h \in Findings /\ h.ex = f.ex /\ h.key = f.key
  BY <1>3 DEF Findings
<1> HIDE DEF h
<1>5. Pair(h) = Pair(f) /\ Pair(f) \in Ex \X Keys
  BY <1>3, <1>4 DEF Pair, Findings
<1>6. findings' \subseteq Findings /\ toggled' \subseteq Ex \X Keys
  BY <1>2, <1>4, <1>5 DEF RowsInv
<1>7. OneFindingPerKey'
  <2>1. ASSUME NEW g \in findings \ {f} PROVE Pair(g) # Pair(h)
    BY <1>5 DEF RowsInv, OneFindingPerKey
  <2>2. ASSUME NEW g \in findings', NEW i \in findings', Pair(g) = Pair(i) PROVE g = i
    BY <1>2, <2>1, <2>2 DEF RowsInv, OneFindingPerKey
  <2> QED BY <2>2 DEF OneFindingPerKey, Pair
<1>8. ASSUME NEW g \in findings' PROVE g.ex \in exchanges /\ Badge(g)'
  <2>1. CASE g = h
    BY <2>1, <1>2, <1>4, <1>5 DEF RowsInv, Badge, Pair
  <2>2. CASE g \in findings
    BY <2>2, <1>2 DEF RowsInv, Badge, Pair
  <2> QED BY <1>2, <2>1, <2>2
<1>9. ASSUME NEW e \in Ex, NEW k \in Keys, Exists(findings, e, k) PROVE Exists(findings', e, k)
  BY <1>2, <1>4, <1>9 DEF Exists
<1>10. ASSUME NEW x \in announced PROVE Announced(x)'
  BY <1>2, <1>9, RowsReads DEF RowsInv, Announced
<1>11. \A g \in findings' \ findings : Reasoned(g)
  BY <1>2, <1>4 DEF Reasoned, Exists
<1> QED BY <1>2, <1>6, <1>7, <1>8, <1>10, <1>11 DEF RowsInv

LEMMA ClearRows ==
  ASSUME RowsInv, ClearHistory
  PROVE  RowsInv'
<1>1. exchanges' = {} /\ findings' = {} /\ frames' = {} /\ UNCHANGED <<rules, scan, announced, toggled>>
  BY DEF ClearHistory
<1> QED BY <1>1, FS_EmptySet DEF RowsInv, OneFindingPerKey, Announced

-----------------------------------------------------------------------------
(* The notes *)

\* What a step may take of the notes.
KeptMarks(e) ==
  \A mark \in notes[e] \ notes'[e] :
    exchanges' = {} \/ (tool.on /\ tool.ex = e /\ mark \in tool.missed)

LEMMA MarkNotes ==
  ASSUME NotesInv, NEW e \in Ex, NEW mark \in Marks, UpdateNotesTags(e, mark)
  PROVE  NotesInv' /\ \A d \in Ex : KeptMarks(d)
<1>1. /\ notes' = [notes EXCEPT ![e] = @ \cup {mark}]
      /\ tool' = IF tool.on /\ tool.ex = e THEN [tool EXCEPT !.missed = @ \cup {mark}] ELSE tool
  BY DEF UpdateNotesTags
<1>2. notes' \in [Ex -> SUBSET Marks] /\ notes'[e] = notes[e] \cup {mark} /\ \A d \in Ex \ {e} : notes'[d] = notes[d]
  BY <1>1 DEF NotesInv
<1>3. CASE tool.on /\ tool.ex = e
  <2>1. /\ tool' \in [on : BOOLEAN, ex : Ex \cup {0}, read : SUBSET Marks, missed : SUBSET Marks]
        /\ tool'.on = tool.on /\ tool'.ex = e /\ tool'.read = tool.read /\ tool'.missed = tool.missed \cup {mark}
    BY <1>1, <1>3 DEF NotesInv
  <2>2. notes[e] \subseteq tool.read \cup tool.missed
    BY <1>3 DEF NotesInv
  <2> QED BY <1>2, <2>1, <2>2 DEF NotesInv, KeptMarks
<1>4. CASE ~(tool.on /\ tool.ex = e)
  <2>1. tool' = tool /\ (tool.on = TRUE => tool.ex # e)
    BY <1>1, <1>4
  <2> QED BY <1>2, <2>1 DEF NotesInv, KeptMarks
<1> QED BY <1>3, <1>4

LEMMA ReadNotes ==
  ASSUME NotesInv, NEW e \in Ex, NoteReads(e)
  PROVE  NotesInv' /\ \A d \in Ex : KeptMarks(d)
<1>1. tool' = [on |-> TRUE, ex |-> e, read |-> notes[e], missed |-> {}] /\ notes' = notes
  BY DEF NoteReads
<1> QED BY <1>1 DEF NotesInv, KeptMarks

LEMMA WriteNotes ==
  ASSUME NotesInv, NoteWrites
  PROVE  NotesInv' /\ \A d \in Ex : KeptMarks(d)
<1>1. /\ tool.on /\ tool' = NoTool
      /\ notes' = IF tool.ex \in exchanges THEN [notes EXCEPT ![tool.ex] = tool.read \cup {"tool"}] ELSE notes
  BY DEF NoteWrites
<1>2. /\ tool.ex \in Ex /\ notes[tool.ex] \subseteq tool.read \cup tool.missed
      /\ notes \in [Ex -> SUBSET Marks] /\ tool.read \in SUBSET Marks /\ "tool" \in Marks
  BY <1>1, RecordsAssumption DEF NotesInv
<1>3. NoTool \in [on : BOOLEAN, ex : Ex \cup {0}, read : SUBSET Marks, missed : SUBSET Marks] /\ NoTool.on = FALSE
  BY DEF NoTool
<1>4. notes' \in [Ex -> SUBSET Marks]
  BY <1>1, <1>2
<1>5. ASSUME NEW d \in Ex PROVE KeptMarks(d)
  <2>1. CASE d = tool.ex /\ d \in exchanges
    BY <2>1, <1>1, <1>2 DEF KeptMarks
  <2>2. CASE ~(d = tool.ex /\ d \in exchanges)
    BY <2>2, <1>1, <1>2 DEF KeptMarks
  <2> QED BY <2>1, <2>2
<1> QED BY <1>1, <1>3, <1>4, <1>5 DEF NotesInv

LEMMA ClearNotes ==
  ASSUME NotesInv, ClearHistory
  PROVE  NotesInv' /\ \A d \in Ex : KeptMarks(d)
<1>1. notes' = [d \in Ex |-> {}] /\ tool' = tool /\ exchanges' = {}
  BY DEF ClearHistory
<1> QED BY <1>1 DEF NotesInv, KeptMarks

LEMMA OtherNotes ==
  ASSUME NotesInv, UNCHANGED <<notes, tool>>
  PROVE  NotesInv' /\ \A d \in Ex : KeptMarks(d)
BY DEF NotesInv, KeptMarks

-----------------------------------------------------------------------------
(* The export *)

\* An export that is disturbed promises nothing; a finished one is not disturbed.
LEMMA DisturbedExport ==
  ASSUME ExportInv, export' = Disturb(export)
  PROVE  ExportInv'
<1>1. PICK b \in BOOLEAN : b = (export.disturbed \/ export.at = "page")
  OBVIOUS
<1>2. export' = [export EXCEPT !.disturbed = b]
  BY <1>1 DEF Disturb
<1>3. /\ export' \in Exports /\ export'.disturbed = b /\ export'.at = export.at /\ export'.rows = export.rows
      /\ export'.imports = export.imports /\ export'.whole = export.whole
  BY <1>2 DEF ExportInv, Exports
<1>4. b = FALSE => export.at # "page" /\ export.disturbed = FALSE
  BY <1>1 DEF ExportInv, Exports
<1> QED BY <1>3, <1>4 DEF ExportInv

\* The history is a finite set of numbers.
LEMMA HistoryIs ==
  ASSUME RowsInv
  PROVE  exchanges \subseteq Nat /\ IsFiniteSet(exchanges) /\ exchanges \subseteq Ex /\ Cardinality(exchanges) \in Nat
<1>1. exchanges \subseteq Nat /\ IsFiniteSet(exchanges) /\ exchanges \subseteq Ex
  BY RecordsAssumption DEF RowsInv
<1> QED BY <1>1, FS_CardinalityType

\* A page holds the next rows of the history, as many as there are or as fit.
LEMMA PageIs ==
  ASSUME RowsInv, NEW offset \in Nat
  PROVE  /\ Query(offset).rows \in Seq(Ex) /\ Query(offset).total = Cardinality(exchanges)
         /\ offset <= Cardinality(exchanges) =>
              /\ offset + Len(Query(offset).rows) <= Cardinality(exchanges)
              /\ offset + Len(Query(offset).rows) = Cardinality(exchanges) \/ Len(Query(offset).rows) = PageSize
              /\ \A i \in 1..Len(Query(offset).rows) : Query(offset).rows[i] = Sorted[offset + i]
<1> DEFINE N == Cardinality(exchanges)
           last == Min({offset + PageSize, N})
           page == SubSeq(Sorted, offset + 1, last)
<1>1. Query(offset).rows = page /\ Query(offset).total = N
  BY DEF Query
<1>2. N \in Nat /\ PageSize \in Nat \ {0} /\ \A i \in 1..N : Sorted[i] \in Ex
  BY HistoryIs, SortedIs, RecordsAssumption
<1>3. last \in Nat /\ last <= N /\ (offset <= N => last >= offset) /\ (last = N \/ last = offset + PageSize)
  <2>1. \E m \in {offset + PageSize, N} : \A n \in {offset + PageSize, N} : m <= n
    BY <1>2
  <2>2. last \in {offset + PageSize, N} /\ \A n \in {offset + PageSize, N} : last <= n
    BY <2>1 DEF Min
  <2> HIDE DEF last, N
  <2> QED BY <1>2, <2>2
<1> HIDE DEF last, N
<1>4. /\ page \in Seq(Ex)
      /\ Len(page) = IF offset + 1 <= last THEN last - (offset + 1) + 1 ELSE 0
      /\ \A i \in 1..(last - (offset + 1) + 1) : page[i] = Sorted[offset + 1 + i - 1]
  <2>1. \A i \in (offset + 1)..last : Sorted[i] \in Ex
    BY <1>2, <1>3
  <2> QED BY <1>3, <2>1, SubSeqProperties
<1> HIDE DEF page
<1>5. ASSUME offset <= N
      PROVE  /\ offset + Len(page) <= N /\ (offset + Len(page) = N \/ Len(page) = PageSize)
             /\ \A i \in 1..Len(page) : page[i] = Sorted[offset + i]
  <2>1. Len(page) = last - offset
    BY <1>3, <1>4, <1>5
  <2>2. \A i \in 1..(last - offset) : page[i] = Sorted[offset + i]
    BY <1>3, <1>4
  <2> QED BY <1>2, <1>3, <2>1, <2>2
<1> QED BY <1>1, <1>4, <1>5 DEF N

LEMMA StartedExport ==
  ASSUME RowsInv, ExportInv, ExportStarts
  PROVE  ExportInv'
<1> DEFINE x == [NoExport EXCEPT !.at = "page", !.page = Query(0).rows, !.total = Query(0).total]
<1>1. Cardinality(exchanges) \in Nat
  BY HistoryIs
<1>2. export' = x /\ exchanges' = exchanges
  BY DEF ExportStarts
<1>3. <<>> \in Seq(Ex) /\ Len(<<>>) = 0
  OBVIOUS
<1>4. /\ Query(0).rows \in Seq(Ex) /\ Query(0).total = Cardinality(exchanges)
      /\ 0 + Len(Query(0).rows) <= Cardinality(exchanges)
      /\ 0 + Len(Query(0).rows) = Cardinality(exchanges) \/ Len(Query(0).rows) = PageSize
      /\ \A i \in 1..Len(Query(0).rows) : Query(0).rows[i] = Sorted[0 + i]
  BY <1>1, PageIs
<1>5. /\ x.at = "page" /\ x.offset = 0 /\ x.page = Query(0).rows /\ x.total = Query(0).total /\ x.rows = <<>>
      /\ x.disturbed = FALSE
  BY DEF NoExport
<1>6. x \in Exports
  BY <1>1, <1>3, <1>4 DEF NoExport, Exports
<1> HIDE DEF x
<1>7. Paging(x)
  <2>1. \A i \in 1..Len(x.rows) : x.rows[i] = Sorted[i]
    BY <1>3, <1>5
  <2> QED BY <1>3, <1>4, <1>5, <2>1 DEF Paging
<1>8. Paging(export)'
  <2>1. Sorted' = Sorted /\ Cardinality(exchanges)' = Cardinality(exchanges)
    BY <1>2 DEF Sorted, Rank
  <2> QED BY <1>2, <1>7, <2>1 DEF Paging
<1> QED BY <1>2, <1>5, <1>6, <1>8 DEF ExportInv

\* A history read from end to end imports.
LEMMA WholeImports ==
  ASSUME RowsInv, NEW all \in Seq(Ex), Len(all) = Cardinality(exchanges),
         \A i \in 1..Len(all) : all[i] = Sorted[i]
  PROVE  Importable(all) /\ ToSet(all) = exchanges /\ Increasing(all)
<1>1. DOMAIN all = 1..Cardinality(exchanges)
  OBVIOUS
<1>2. /\ \A i \in DOMAIN all : all[i] \in exchanges
      /\ \A i, j \in DOMAIN all : i < j => all[i] < all[j]
      /\ \A e \in exchanges : \E i \in DOMAIN all : all[i] = e
  BY <1>1, HistoryIs, SortedIs
<1>3. IsInjective(all)
  <2>1. ASSUME NEW i \in DOMAIN all, NEW j \in DOMAIN all, all[i] = all[j] PROVE i = j
    <3>1. i \in Nat /\ j \in Nat
      BY <1>1, HistoryIs
    <3>2. all[i] \in Nat
      BY <1>2, HistoryIs
    <3>3. ~(i < j) /\ ~(j < i)
      BY <1>2, <2>1, <3>2
    <3> QED BY <3>1, <3>3
  <2> QED BY <2>1 DEF IsInjective
<1>4. ToSet(all) = exchanges
  BY <1>2 DEF ToSet
<1>5. Importable(all)
  BY <1>3, <1>4 DEF Importable, RowsInv
<1> QED BY <1>2, <1>4, <1>5 DEF Increasing

\* The rows an undisturbed export has after its page are the oldest of the history.
LEMMA PageAdded ==
  ASSUME RowsInv, export \in Exports, Paging(export), NEW all, all = export.rows \o export.page
  PROVE  /\ all \in Seq(Ex) /\ Len(all) = export.offset + Len(export.page)
         /\ \A i \in 1..Len(all) : all[i] = Sorted[i]
         /\ export.total = Cardinality(exchanges) /\ Len(all) <= Cardinality(exchanges)
         /\ Len(all) = Cardinality(exchanges) \/ Len(all) = export.offset + PageSize
<1> DEFINE a == export.rows
           b == export.page
<1>1. a \in Seq(Ex) /\ b \in Seq(Ex) /\ all = a \o b /\ Len(a) \in Nat /\ Len(b) \in Nat
  BY DEF Exports
<1>2. /\ export.offset = Len(a) /\ export.total = Cardinality(exchanges) /\ export.offset + Len(b) <= Cardinality(exchanges)
      /\ export.offset + Len(b) = Cardinality(exchanges) \/ Len(b) = PageSize
      /\ \A i \in 1..Len(a) : a[i] = Sorted[i]
      /\ \A i \in 1..Len(b) : b[i] = Sorted[Len(a) + i]
  BY DEF Paging
<1> HIDE DEF a, b
<1>3. /\ all \in Seq(Ex) /\ Len(all) = Len(a) + Len(b)
      /\ \A i \in 1..(Len(a) + Len(b)) : all[i] = IF i <= Len(a) THEN a[i] ELSE b[i - Len(a)]
  BY <1>1, ConcatProperties
<1>4. ASSUME NEW i \in 1..(Len(a) + Len(b)) PROVE all[i] = Sorted[i]
  <2>1. CASE i <= Len(a)
    BY <2>1, <1>1, <1>2, <1>3
  <2>2. CASE i > Len(a)
    <3>1. i - Len(a) \in 1..Len(b) /\ Len(a) + (i - Len(a)) = i
      BY <2>2, <1>1
    <3> QED BY <2>2, <3>1, <1>1, <1>2, <1>3
  <2> QED BY <2>1, <2>2, <1>1
<1> QED BY <1>1, <1>2, <1>3, <1>4 DEF b

LEMMA AdvancedExport ==
  ASSUME RowsInv, ExportInv, ExportAdvances
  PROVE  ExportInv'
<1> DEFINE last == export.offset + Len(export.page) >= export.total \/ export.page = <<>>
<1>1. PICK all : all = export.rows \o export.page
  OBVIOUS
<1>2. /\ export.at = "page" /\ exchanges' = exchanges
      /\ export \in Exports /\ export.rows \in Seq(Ex) /\ export.page \in Seq(Ex)
      /\ export.offset \in Nat /\ export.disturbed \in BOOLEAN
      /\ Len(export.page) \in Nat
  BY DEF ExportAdvances, ExportInv, Exports
<1>3. PageSize \in Nat \ {0} /\ Cardinality(exchanges) \in Nat
  BY HistoryIs, RecordsAssumption
<1>4. all \in Seq(Ex)
  BY <1>1, <1>2, ConcatProperties
<1>5. export.disturbed = FALSE => Paging(export)
  BY <1>2 DEF ExportInv
<1>6. CASE last
  <2>1. PICK i \in BOOLEAN : i = Importable(all)
    BY DEF Importable
  <2>2. PICK w \in BOOLEAN : w = (ToSet(all) = exchanges)
    OBVIOUS
  <2>3. export' = [export EXCEPT !.at = "done", !.rows = all, !.page = <<>>, !.offset = 0,
                                 !.total = 0, !.imports = i, !.whole = w]
    BY <1>1, <1>6, <2>1, <2>2 DEF ExportAdvances
  <2>4. <<>> \in Seq(Ex)
    OBVIOUS
  <2>5. /\ export' \in Exports /\ export'.at = "done" /\ export'.rows = all /\ export'.imports = i /\ export'.whole = w
        /\ export'.disturbed = export.disturbed
    BY <1>2, <1>4, <2>3, <2>4 DEF Exports
  <2>6. ASSUME export.disturbed = FALSE PROVE i = TRUE /\ w = TRUE /\ Increasing(all)
    <3>1. /\ \A n \in 1..Len(all) : all[n] = Sorted[n]
          /\ export.total = Cardinality(exchanges) /\ Len(all) <= Cardinality(exchanges)
          /\ Len(all) = Cardinality(exchanges) \/ Len(all) = export.offset + PageSize
          /\ Len(all) = export.offset + Len(export.page)
      BY <1>1, <1>2, <1>5, <2>6, PageAdded
    <3>2. export.page = <<>> => Len(export.page) = 0
      OBVIOUS
    <3>3. Len(all) = Cardinality(exchanges)
      BY <1>2, <1>3, <1>6, <3>1, <3>2
    <3> QED BY <1>4, <2>1, <2>2, <3>1, <3>3, WholeImports
  <2> QED BY <2>5, <2>6 DEF ExportInv, Increasing
<1>7. CASE ~last
  <2>1. PICK next \in Nat : next = export.offset + PageSize
    BY <1>2, <1>3
  <2>2. export' = [export EXCEPT !.rows = all, !.offset = next, !.page = Query(next).rows, !.total = Query(next).total]
    BY <1>1, <1>7, <2>1 DEF ExportAdvances, NextOffset
  <2>3. PICK page \in Seq(Ex) : page = Query(next).rows
    BY PageIs
  <2>4. Query(next).total = Cardinality(exchanges)
    BY PageIs
  <2>5. /\ export' \in Exports /\ export'.at = "page" /\ export'.rows = all /\ export'.offset = next
        /\ export'.page = page /\ export'.total = Cardinality(exchanges) /\ export'.disturbed = export.disturbed
    BY <1>2, <1>3, <1>4, <2>2, <2>3, <2>4 DEF Exports
  <2>6. ASSUME export.disturbed = FALSE PROVE Paging(export)'
    <3>1. /\ \A n \in 1..Len(all) : all[n] = Sorted[n]
          /\ export.total = Cardinality(exchanges) /\ Len(all) <= Cardinality(exchanges)
          /\ Len(all) = Cardinality(exchanges) \/ Len(all) = export.offset + PageSize
          /\ Len(all) = export.offset + Len(export.page)
      BY <1>1, <1>2, <1>5, <2>6, PageAdded
    <3>2. next = Len(all) /\ next <= Cardinality(exchanges)
      BY <1>2, <1>3, <1>7, <2>1, <3>1
    <3>3. /\ next + Len(page) <= Cardinality(exchanges)
          /\ next + Len(page) = Cardinality(exchanges) \/ Len(page) = PageSize
          /\ \A i \in 1..Len(page) : page[i] = Sorted[next + i]
      BY <2>3, <3>2, PageIs
    <3>4. Sorted' = Sorted /\ Cardinality(exchanges)' = Cardinality(exchanges)
      BY <1>2 DEF Sorted, Rank
    <3> QED BY <2>5, <3>1, <3>2, <3>3, <3>4 DEF Paging
  <2> QED BY <2>5, <2>6 DEF ExportInv
<1> QED BY <1>6, <1>7

LEMMA OtherExport ==
  ASSUME ExportInv, UNCHANGED <<exchanges, export>> \/ ExportForgotten
  PROVE  ExportInv'
<1>1. CASE UNCHANGED <<exchanges, export>>
  <2>1. Sorted' = Sorted /\ Cardinality(exchanges)' = Cardinality(exchanges) /\ export' = export
    BY <1>1 DEF Sorted, Rank
  <2>2. Paging(export) => Paging(export)'
    BY <2>1 DEF Paging
  <2> QED BY <2>1, <2>2 DEF ExportInv, Increasing
<1>2. CASE ExportForgotten
  <2>1. export' = NoExport /\ <<>> \in Seq(Ex)
    BY <1>2 DEF ExportForgotten
  <2> QED BY <2>1 DEF ExportInv, NoExport, Exports
<1> QED BY <1>1, <1>2

-----------------------------------------------------------------------------
(* The theorems *)

LEMMA RecordsStart == RecordsInit => RecordsInv
<1> SUFFICES ASSUME RecordsInit PROVE RecordsInv
  OBVIOUS
<1>1. RowsInv
  BY FS_EmptySet DEF RecordsInit, RowsInv, OneFindingPerKey
<1>2. NotesInv
  BY DEF RecordsInit, NotesInv, NoTool
<1>3. <<>> \in Seq(Ex)
  OBVIOUS
<1>4. ExportInv
  BY <1>3 DEF RecordsInit, ExportInv, NoExport, Exports
<1> QED BY <1>1, <1>2, <1>4 DEF RecordsInv

\* What a step may do to the rows and to the notes.
Allowed == (\A f \in findings' \ findings : Reasoned(f)) /\ \A e \in Ex : KeptMarks(e)

LEMMA RowsUnchanged ==
  ASSUME RowsInv, UNCHANGED <<exchanges, findings, frames, rules, scan, announced, toggled>>
  PROVE  RowsInv'
BY DEF RowsInv, OneFindingPerKey, Badge, Announced, Pair, Exists

LEMMA RecordsStep ==
  ASSUME RecordsInv, RecordsNext
  PROVE  RecordsInv' /\ Allowed
<1> USE DEF RecordsInv, Allowed
<1>1. ASSUME NEW e \in Ex, Ingest(e) PROVE RecordsInv' /\ Allowed
  <2>1. export' = Disturb(export) /\ UNCHANGED <<findings, notes, tool>>
    BY <1>1 DEF Ingest
  <2> QED BY <1>1, <2>1, IngestRows, OtherNotes, DisturbedExport
<1>2. ASSUME NEW e \in Ex, NEW keys \in SUBSET Keys, ScanResolves(e, keys) PROVE RecordsInv' /\ Allowed
  <2>1. export' = Disturb(export) /\ UNCHANGED <<notes, tool>>
    BY <1>2 DEF ScanResolves
  <2> QED BY <1>2, <2>1, ScanRows, OtherNotes, DisturbedExport
<1>3. ASSUME NEW e \in Ex, NEW key \in Keys, ExtensionFinding(e, key) PROVE RecordsInv' /\ Allowed
  <2>1. export' = Disturb(export) /\ UNCHANGED <<notes, tool>>
    BY <1>3 DEF ExtensionFinding
  <2> QED BY <1>3, <2>1, ExtensionRows, OtherNotes, DisturbedExport
<1>4. ASSUME NEW e \in Ex, IngestWsMessage(e) PROVE RecordsInv' /\ Allowed
  <2>1. export' = Disturb(export) /\ UNCHANGED <<findings, notes, tool>>
    BY <1>4 DEF IngestWsMessage
  <2> QED BY <1>4, <2>1, FrameRows, OtherNotes, DisturbedExport
<1>5. ASSUME NEW e \in Ex, NEW mark \in Marks, UpdateNotesTags(e, mark) PROVE RecordsInv' /\ Allowed
  <2>1. UNCHANGED <<exchanges, findings, frames, rules, scan, announced, toggled, export>>
    BY <1>5 DEF UpdateNotesTags
  <2> QED BY <1>5, <2>1, RowsUnchanged, MarkNotes, OtherExport
<1>6. ASSUME NEW e \in Ex, NoteReads(e) PROVE RecordsInv' /\ Allowed
  <2>1. UNCHANGED <<exchanges, findings, frames, rules, scan, announced, toggled, export>>
    BY <1>6 DEF NoteReads
  <2> QED BY <1>6, <2>1, RowsUnchanged, ReadNotes, OtherExport
<1>7. ASSUME NEW rule \in Rules, AddSuppression(rule) \/ RemoveSuppression(rule) PROVE RecordsInv' /\ Allowed
  <2>1. export' = Disturb(export) /\ UNCHANGED <<findings, notes, tool>>
    BY <1>7 DEF AddSuppression, RemoveSuppression
  <2> QED BY <1>7, <2>1, RuleRows, OtherNotes, DisturbedExport
<1>8. ASSUME NEW f \in findings, SetSuppressed(f) PROVE RecordsInv' /\ Allowed
  <2>1. export' = Disturb(export) /\ UNCHANGED <<notes, tool>>
    BY <1>8 DEF SetSuppressed
  <2> QED BY <1>8, <2>1, ToggleRows, OtherNotes, DisturbedExport
<1>9. CASE ClearHistory
  <2>1. export' = Disturb(export) /\ findings' = {}
    BY <1>9 DEF ClearHistory
  <2> QED BY <1>9, <2>1, ClearRows, ClearNotes, DisturbedExport
<1>10. CASE NoteWrites
  <2>1. UNCHANGED <<exchanges, findings, frames, rules, scan, announced, toggled, export>>
    BY <1>10 DEF NoteWrites
  <2> QED BY <1>10, <2>1, RowsUnchanged, WriteNotes, OtherExport
<1>11. CASE ExportStarts \/ ExportAdvances \/ ExportForgotten
  <2>1. UNCHANGED <<exchanges, findings, frames, rules, notes, scan, announced, toggled, tool>>
    BY <1>11 DEF ExportStarts, ExportAdvances, ExportForgotten
  <2>2. ExportInv'
    BY <1>11, StartedExport, AdvancedExport, OtherExport
  <2> QED BY <2>1, <2>2, RowsUnchanged, OtherNotes
<1> QED BY <1>1, <1>2, <1>3, <1>4, <1>5, <1>6, <1>7, <1>8, <1>9, <1>10, <1>11 DEF RecordsNext

\* The inductive invariant of the tables.
THEOREM RecordsInductive == RecordsSpec => []RecordsInv
<1>1. RecordsInv /\ UNCHANGED recordsVars => RecordsInv'
  BY RowsUnchanged, OtherNotes, OtherExport DEF RecordsInv, recordsVars
<1>2. RecordsInv /\ [RecordsNext]_recordsVars => RecordsInv'
  BY <1>1, RecordsStep
<1> QED BY <1>2, RecordsStart, PTL DEF RecordsSpec

LEMMA RecordsInvSuffices == RecordsInv => RecordsCorrect
<1> SUFFICES ASSUME RecordsInv PROVE RecordsCorrect
  OBVIOUS
<1>1. RowsInv /\ NotesInv /\ ExportInv
  BY DEF RecordsInv
<1>2. RecordsTypeOK /\ NoOrphans
  BY <1>1 DEF RowsInv, NotesInv, ExportInv, Exports, RecordsTypeOK, NoOrphans, Findings
<1>3. BadgeMatchesList
  <2>1. ASSUME NEW f \in findings, Pair(f) \notin toggled PROVE f.hidden <=> Pair(f) \notin announced
    <3>1. f.hidden \in BOOLEAN /\ (f.hidden = TRUE <=> Pair(f) \notin announced)
      BY <1>1, <2>1, RowsReads DEF Badge
    <3> QED BY <3>1
  <2> QED BY <2>1 DEF BadgeMatchesList
<1>4. QuietExportIsComplete
  <2>1. ASSUME export.at = "done", ~export.disturbed
        PROVE  export.imports /\ export.whole /\ Increasing(export.rows)
    BY <1>1, <2>1 DEF ExportInv, Exports
  <2> QED BY <2>1 DEF QuietExportIsComplete, Increasing
<1> QED BY <1>1, <1>2, <1>3, <1>4 DEF RecordsCorrect, TablesAgree, RowsInv

\* One finding per key, nothing outlives its exchange, the badge matches the list, and
\* an export that nothing disturbed is whole and in order: for any number of exchanges,
\* keys and rules, and pages of any size.
THEOREM RecordsStayCorrect == RecordsSpec => []RecordsCorrect
<1> QED BY RecordsInductive, RecordsInvSuffices, PTL

LEMMA RecordsAllow == RecordsInv /\ [RecordsNext]_recordsVars => [Allowed]_recordsVars
BY RecordsStep

\* No rule hides a finding it does not name (matchesSuppression).
THEOREM HiddenStaysReasoned == RecordsSpec => HiddenForAReason
<1>1. RecordsInv /\ [RecordsNext]_recordsVars =>
        [\A f \in findings' \ findings :
           f.hidden /\ ~Exists(findings, f.ex, f.key) =>
             \E rule \in rules : \/ rule.key = f.key
                                 \/ rule.host = HostOf[f.ex]]_recordsVars
  BY RecordsAllow DEF Allowed, Reasoned
<1> QED BY <1>1, RecordsInductive, PTL DEF RecordsSpec, HiddenForAReason

\* A tool's note costs no mark but one that came between its read and its write.
THEOREM MarksStayKept == RecordsSpec => MarksAreKept
<1>1. RecordsInv /\ [RecordsNext]_recordsVars =>
        [\A e \in Ex : \A mark \in notes[e] \ notes'[e] :
           \/ exchanges' = {}
           \/ tool.on /\ tool.ex = e /\ mark \in tool.missed]_recordsVars
  BY RecordsAllow DEF Allowed, KeptMarks
<1> QED BY <1>1, RecordsInductive, PTL DEF RecordsSpec, MarksAreKept

\* No finding is hidden and no mark is lost without a cause (findingsRepo.ts,
\* ai/tools.ts:540).
THEOREM WritesStayJustified == RecordsSpec => WritesAreJustified
BY HiddenStaysReasoned, MarksStayKept DEF WritesAreJustified
=============================================================================
