------------------------------ MODULE CaProofs ------------------------------
(***************************************************************************)
(* Proofs about CertificateAuthority: for any number of overlapping calls, *)
(* crashes and sockets, there is one chain at a time and none after revoke.*)
(***************************************************************************)
EXTENDS CertificateAuthority, TLAPS

\* A call that is under way is a mint, a rotate or a revoke; the first two have
\* generated a CA.
Material ==
  \A c \in Calls :
    /\ call[c].at # "idle" => call[c].op \in {"mint", "rotate", "revoke"}
    /\ call[c].op \in {"mint", "rotate"} => call[c].new \in Cas

\* A process that does not run has no CA in memory; without a CA there is no leaf.
Quiet ==
  /\ ~running => ca = None
  /\ ca = None => leaf = None

CaInv == TypeOK /\ Material /\ Quiet /\ OneChain /\ RevokedInterceptsNothing

Files   == [key : Cas \cup {None}, dek : BOOLEAN]
Records == [op : {"none", "mint", "rotate", "revoke"}, at : Steps, new : Cas \cup {None}, read : Files]

\* The record of a call that does nothing, and of one that begins.
LEMMA Fresh ==
  /\ Nothing \in Files
  /\ Idle \in Records /\ Idle.op = "none" /\ Idle.at = "idle"
  /\ \A op \in {"mint", "rotate", "revoke"}, at \in Steps, n \in Cas \cup {None} :
       /\ Doing(op, at, n) \in Records
       /\ Doing(op, at, n).op = op /\ Doing(op, at, n).new = n
BY DEF Nothing, Idle, Doing, Files, Records, Steps

\* A call's record with another step, and with what it read.
LEMMA Moved ==
  ASSUME NEW r \in Records, NEW at \in Steps
  PROVE  /\ [r EXCEPT !.at = at] \in Records
         /\ [r EXCEPT !.at = at].op = r.op /\ [r EXCEPT !.at = at].new = r.new
BY DEF Records

LEMMA HasRead ==
  ASSUME NEW r \in Records, NEW at \in Steps, NEW f \in Files
  PROVE  /\ [r EXCEPT !.at = at, !.read = f] \in Records
         /\ [r EXCEPT !.at = at, !.read = f].op = r.op /\ [r EXCEPT !.at = at, !.read = f].new = r.new
BY DEF Records

\* The initial state satisfies the invariant.
LEMMA CaStarts == Init => CaInv
<1> SUFFICES ASSUME Init PROVE CaInv
  OBVIOUS
<1>1. 1 \in Cas /\ 0 \in 0..MaxRuns /\ 1 \in 0..MaxCas /\ None \notin Cas
  BY CaAssumption DEF Cas
<1>2. secrets \in Files
  BY <1>1 DEF Init, Files
<1>3. call \in [Calls -> Records] /\ \A c \in Calls : call[c] = Idle
  BY Fresh DEF Init
<1>4. TypeOK
  BY <1>1, <1>2, <1>3 DEF Init, TypeOK, Files, Records
<1>5. Material
  BY <1>3, Fresh DEF Material
<1> QED BY <1>1, <1>4, <1>5 DEF Init, CaInv, Quiet, OneChain, RevokedInterceptsNothing

\* What a call under way knows about its record.
Sound(r) ==
  /\ r \in Records
  /\ r.at # "idle" => r.op \in {"mint", "rotate", "revoke"}
  /\ r.op \in {"mint", "rotate"} => r.new \in Cas

\* Replacing one call's record by a sound one keeps all of them sound.
LEMMA Recorded ==
  ASSUME call \in [Calls -> Records], Material, NEW c \in Calls, NEW r, Sound(r),
         call' = [call EXCEPT ![c] = r]
  PROVE  call' \in [Calls -> Records] /\ Material'
<1>1. call' \in [Calls -> Records]
  BY DEF Sound
<1>2. \A d \in Calls : call'[d] = IF d = c THEN r ELSE call[d]
  OBVIOUS
<1> QED BY <1>1, <1>2 DEF Material, Sound

\* A step of a call that only touches the disk and its own record.
LEMMA DiskStep ==
  ASSUME CaInv, NEW c \in Calls,
         \/ TruncateCert(c) \/ WriteCert(c)
         \/ ReadSecrets(c) \/ TruncateSecrets(c) \/ WriteSecrets(c)
         \/ Unmark(c) \/ RemoveCert(c) \/ TruncateMark(c) \/ Mark(c)
  PROVE  CaInv'
<1>0. /\ TypeOK /\ Material /\ Quiet /\ OneChain /\ RevokedInterceptsNothing
  BY DEF CaInv
<1>1. UNCHANGED <<ca, running, runs, made, sock, leaf, revoked, untidy>>
  BY DEF TruncateCert, WriteCert, ReadSecrets, TruncateSecrets, WriteSecrets, Unmark, RemoveCert, TruncateMark, Mark, disk
<1>2. Quiet' /\ OneChain' /\ RevokedInterceptsNothing'
  BY <1>0, <1>1 DEF Quiet, OneChain, RevokedInterceptsNothing
<1>3. call[c].at # "idle"
  BY DEF TruncateCert, WriteCert, ReadSecrets, TruncateSecrets, WriteSecrets, Unmark, RemoveCert, TruncateMark, Mark
<1>4. /\ call \in [Calls -> Records] /\ call[c] \in Records
      /\ call[c].op \in {"mint", "rotate", "revoke"}
      /\ call[c].op \in {"mint", "rotate"} => call[c].new \in Cas
  BY <1>0, <1>3 DEF Material, TypeOK, Records, Files
<1>5. call[c].new \in Cas \cup {None} /\ call[c].read \in Files
  BY <1>4 DEF Records
<1>6. ASSUME NEW r \in Records, r.op = call[c].op, r.new = call[c].new,
             call' = [call EXCEPT ![c] = r]
      PROVE  call' \in [Calls -> Records] /\ Material'
  <2>1. Sound(r)
    BY <1>4, <1>6 DEF Sound
  <2> QED BY <1>0, <1>4, <1>6, <2>1, Recorded
<1>7. ASSUME NEW at \in Steps, Goes(c, at)
      PROVE  call' \in [Calls -> Records] /\ Material'
  <2>1. call' = [call EXCEPT ![c] = [call[c] EXCEPT !.at = at]]
    BY <1>7 DEF Goes
  <2>2. [call[c] EXCEPT !.at = at] \in Records
        /\ [call[c] EXCEPT !.at = at].op = call[c].op /\ [call[c] EXCEPT !.at = at].new = call[c].new
    BY <1>4, Moved
  <2> QED BY <1>6, <2>1, <2>2
<1>8. ASSUME call' \in [Calls -> Records], Material',
             cert' \in Cas \cup {None}, secrets' \in Files, marker' \in BOOLEAN
      PROVE  CaInv'
  BY <1>0, <1>1, <1>2, <1>8 DEF CaInv, TypeOK, Files, Records
<1>9. cert \in Cas \cup {None} /\ secrets \in Files /\ marker \in BOOLEAN
  BY <1>0 DEF TypeOK, Files
<1>10. CASE WriteCert(c)
  <2>1. Goes(c, "get") /\ cert' = call[c].new /\ UNCHANGED <<secrets, marker>>
    BY <1>10 DEF WriteCert
  <2> QED BY <1>5, <1>7, <1>8, <1>9, <2>1 DEF Steps
<1>11. CASE ReadSecrets(c)
  <2> DEFINE f == [key |-> call[c].new, dek |-> secrets.dek]
             r == [call[c] EXCEPT !.at = "truncate", !.read = f]
  <2>1. f \in Files
    BY <1>5, <1>9 DEF Files
  <2>2. r \in Records /\ r.op = call[c].op /\ r.new = call[c].new
    BY <1>4, <2>1, HasRead DEF Steps
  <2>3. call' = [call EXCEPT ![c] = r] /\ UNCHANGED <<cert, secrets, marker>>
    BY <1>11 DEF ReadSecrets, disk
  <2> QED BY <1>6, <1>8, <1>9, <2>2, <2>3
<1>12. CASE TruncateSecrets(c)
  <2>1. Goes(c, "write") /\ secrets' = Nothing /\ UNCHANGED <<cert, marker>>
    BY <1>12 DEF TruncateSecrets
  <2> QED BY <1>7, <1>8, <1>9, <2>1, Fresh DEF Steps
<1>13. CASE WriteSecrets(c)
  <2>1. AfterSecrets[call[c].op] \in {"publish", "unmark", "remove"}
    BY <1>4 DEF AfterSecrets
  <2>2. Goes(c, AfterSecrets[call[c].op]) /\ secrets' = call[c].read /\ UNCHANGED <<cert, marker>>
    BY <1>13 DEF WriteSecrets
  <2> QED BY <1>5, <1>7, <1>8, <1>9, <2>1, <2>2 DEF Steps
<1>14. CASE Unmark(c)
  <2>1. Goes(c, "publish") /\ marker' = FALSE /\ UNCHANGED <<cert, secrets>>
    BY <1>14 DEF Unmark
  <2> QED BY <1>7, <1>8, <1>9, <2>1 DEF Steps
<1>15. CASE RemoveCert(c)
  <2>1. Goes(c, "mark") /\ cert' = None /\ UNCHANGED <<secrets, marker>>
    BY <1>15 DEF RemoveCert
  <2> QED BY <1>7, <1>8, <1>9, <2>1 DEF Steps
<1>16. CASE Mark(c)
  <2>1. Goes(c, "publish") /\ marker' = TRUE /\ UNCHANGED <<cert, secrets>>
    BY <1>16 DEF Mark
  <2> QED BY <1>7, <1>8, <1>9, <2>1 DEF Steps
<1>17. CASE TruncateCert(c)
  <2>1. Goes(c, "text") /\ cert' = None /\ UNCHANGED <<secrets, marker>>
    BY <1>17 DEF TruncateCert
  <2> QED BY <1>7, <1>8, <1>9, <2>1 DEF Steps
<1>18. CASE TruncateMark(c)
  <2>1. Goes(c, "stamp") /\ marker' = FALSE /\ UNCHANGED <<cert, secrets>>
    BY <1>18 DEF TruncateMark
  <2> QED BY <1>7, <1>8, <1>9, <2>1 DEF Steps
<1> QED BY <1>10, <1>11, <1>12, <1>13, <1>14, <1>15, <1>16, <1>17, <1>18

\* A step of a socket.
LEMMA SocketStep ==
  ASSUME CaInv, NEW s \in Sockets, Connect(s) \/ Handshake(s) \/ Hangup(s)
  PROVE  CaInv'
<1> USE CaAssumption DEF disk
<1>0. /\ TypeOK /\ Material /\ Quiet /\ OneChain /\ RevokedInterceptsNothing
  BY DEF CaInv
<1>1. UNCHANGED <<cert, secrets, marker, ca, running, runs, made, call, revoked, untidy>>
  BY DEF Connect, Handshake, Hangup
<1>2. Material'
  BY <1>0, <1>1 DEF Material
<1>3. CASE Connect(s)
  BY <1>0, <1>1, <1>2, <1>3 DEF Connect, CaInv, TypeOK, Quiet, OneChain, RevokedInterceptsNothing, Cas
<1>4. CASE Handshake(s)
  <2>1. LeafFor = ca.cert /\ ca # None /\ ca.cert \in Cas
    BY <1>0, <1>4 DEF Handshake, LeafFor, OneChain, TypeOK
  <2>2. leaf' = ca.cert /\ sock' = [sock EXCEPT ![s] = ca.cert]
    BY <1>4, <2>1 DEF Handshake
  <2> QED BY <1>0, <1>1, <1>2, <2>1, <2>2 DEF CaInv, TypeOK, Quiet, OneChain, RevokedInterceptsNothing
<1>5. CASE Hangup(s)
  BY <1>0, <1>1, <1>2, <1>5 DEF Hangup, CaInv, TypeOK, Quiet, OneChain, RevokedInterceptsNothing, Cas
<1> QED BY <1>3, <1>4, <1>5

\* Every step keeps the invariant.
LEMMA CaKeeps == CaInv /\ [Next]_vars => CaInv'
<1> SUFFICES ASSUME CaInv, [Next]_vars PROVE CaInv'
  OBVIOUS
<1> USE CaAssumption DEF disk
<1>0. /\ TypeOK /\ Material /\ Quiet /\ OneChain /\ RevokedInterceptsNothing
  BY DEF CaInv
<1>1. CASE UNCHANGED vars
  BY <1>0, <1>1 DEF vars, CaInv, TypeOK, Material, Quiet, OneChain, RevokedInterceptsNothing
<1>2. ASSUME NEW s \in Sockets, Connect(s) \/ Handshake(s) \/ Hangup(s) PROVE CaInv'
  BY <1>2, SocketStep
<1>3. ASSUME NEW c \in Calls, NEW op \in {"rotate", "revoke"}, Begin(c, op) PROVE CaInv'
  <2>1. /\ UNCHANGED <<cert, secrets, marker, ca, running, runs, sock, leaf>>
        /\ untidy' \in BOOLEAN /\ revoked' \in BOOLEAN
    BY <1>0, <1>3 DEF Begin, TypeOK
  <2>2. Quiet' /\ OneChain' /\ RevokedInterceptsNothing'
    BY <1>0, <2>1 DEF Quiet, OneChain, RevokedInterceptsNothing
  <2>3. call \in [Calls -> Records]
    BY <1>0 DEF TypeOK, Records, Files
  <2>4. ASSUME NEW r, Sound(r), call' = [call EXCEPT ![c] = r], made' \in 0..MaxCas PROVE CaInv'
    <3>1. call' \in [Calls -> Records] /\ Material'
      BY <1>0, <2>3, <2>4, Recorded
    <3> QED BY <1>0, <2>1, <2>2, <2>4, <3>1 DEF CaInv, TypeOK, Records, Files
  <2>5. CASE op = "rotate"
    <3>1. made' \in 0..MaxCas /\ made + 1 \in Cas /\ call' = [call EXCEPT ![c] = Doing(op, "cert", made + 1)]
      BY <1>0, <1>3, <2>5 DEF Begin, TypeOK, Cas
    <3>2. Sound(Doing(op, "cert", made + 1))
      BY <2>5, <3>1, Fresh DEF Sound, Steps
    <3> QED BY <2>4, <3>1, <3>2
  <2>6. CASE op = "revoke"
    <3>1. made' \in 0..MaxCas /\ call' = [call EXCEPT ![c] = Doing(op, "get", None)]
      BY <1>0, <1>3, <2>6 DEF Begin, TypeOK
    <3>2. Sound(Doing(op, "get", None))
      BY <2>6, Fresh DEF Sound, Steps
    <3> QED BY <2>4, <3>1, <3>2
  <2> QED BY <2>5, <2>6
<1>4. ASSUME NEW c \in Calls,
             \/ TruncateCert(c) \/ WriteCert(c)
             \/ ReadSecrets(c) \/ TruncateSecrets(c) \/ WriteSecrets(c)
             \/ Unmark(c) \/ RemoveCert(c) \/ TruncateMark(c) \/ Mark(c)
      PROVE CaInv'
  BY <1>4, DiskStep
<1>5. ASSUME NEW c \in Calls, Publish(c) PROVE CaInv'
  <2>1. call[c].op \in {"mint", "rotate", "revoke"}
    BY <1>0, <1>5 DEF Publish, Material
  <2>2. ca' \in [cert : Cas, key : Cas] \cup {None}
    BY <1>0, <1>5, <2>1 DEF Publish, Material
  <2>3. /\ sock' = [s \in Sockets |-> None] /\ leaf' = None /\ running' = TRUE
        /\ call' = [call EXCEPT ![c] = Idle] /\ revoked' \in BOOLEAN
        /\ UNCHANGED <<cert, secrets, marker, runs, made, untidy>>
    BY <1>0, <1>5, <2>1 DEF Publish, DropIntercepted, TypeOK
  <2>4. call' \in [Calls -> Records] /\ Material'
    BY <1>0, <2>3, Fresh, Recorded DEF TypeOK, Sound, Records, Files
  <2>5. TypeOK'
    BY <1>0, <2>2, <2>3, <2>4 DEF TypeOK, Records, Files
  <2> QED BY <2>2, <2>3, <2>4, <2>5, CaAssumption DEF CaInv, Quiet, OneChain, RevokedInterceptsNothing, Cas
<1>6. ASSUME NEW c \in Calls, Open(c) PROVE CaInv'
  <2>1. /\ ca = None /\ leaf = None /\ \A s \in Sockets : sock[s] = None
        /\ UNCHANGED <<cert, secrets, marker, sock, leaf, revoked>>
        /\ runs' \in 0..MaxRuns
    BY <1>0, <1>6 DEF Open, Quiet, RevokedInterceptsNothing, TypeOK
  <2>2. OneChain' /\ RevokedInterceptsNothing'
    BY <2>1 DEF OneChain, RevokedInterceptsNothing, Cas
  <2>3. CASE UNCHANGED <<made, call, untidy>> /\ running' = TRUE /\ ca' \in [cert : Cas, key : Cas] \cup {None}
    BY <1>0, <2>1, <2>2, <2>3 DEF CaInv, TypeOK, Material, Quiet
  <2>4. CASE /\ made < MaxCas /\ made' = made + 1 /\ UNCHANGED <<ca, running>> /\ untidy' = FALSE
             /\ call' = [call EXCEPT ![c] = Doing("mint", "cert", made + 1)]
    <3>1. made + 1 \in Cas /\ made' \in 0..MaxCas
      BY <1>0, <2>4 DEF TypeOK, Cas
    <3>2. Sound(Doing("mint", "cert", made + 1))
      BY <3>1, Fresh DEF Sound, Steps
    <3>3. call' \in [Calls -> Records] /\ Material'
      <4>1. call \in [Calls -> Records]
        BY <1>0 DEF TypeOK, Records, Files
      <4> QED BY <1>0, <2>4, <3>2, <4>1, Recorded
    <3> QED BY <1>0, <2>1, <2>2, <2>4, <3>1, <3>3 DEF CaInv, TypeOK, Quiet, Records, Files
  <2>5. cert # None /\ secrets.key # None
          => [cert |-> cert, key |-> secrets.key] \in [cert : Cas, key : Cas]
    BY <1>0 DEF TypeOK
  <2>6. Load(c)
    BY <1>6 DEF Open
  <2> QED BY <1>0, <2>3, <2>4, <2>5, <2>6 DEF Load, TypeOK
<1>7. CASE Crash
  <2>1. /\ ca' = None /\ leaf' = None /\ running' = FALSE
        /\ sock' = [s \in Sockets |-> None] /\ call' = [c \in Calls |-> Idle]
        /\ UNCHANGED <<cert, secrets, marker, runs, made, revoked>> /\ untidy' \in BOOLEAN
    BY <1>0, <1>7 DEF Crash, DropIntercepted, TypeOK
  <2>2. call' \in [Calls -> Records] /\ Material'
    BY <2>1, Fresh DEF Material
  <2>3. TypeOK'
    BY <1>0, <2>1, <2>2 DEF TypeOK, Records, Files
  <2> QED BY <2>1, <2>2, <2>3, CaAssumption DEF CaInv, Quiet, OneChain, RevokedInterceptsNothing, Cas
<1>8. ASSUME NEW c \in Calls, Fails(c) PROVE CaInv'
  <2>1. /\ call' = [call EXCEPT ![c] = Idle] /\ untidy' = TRUE
        /\ UNCHANGED <<cert, secrets, marker, ca, running, runs, made, sock, leaf, revoked>>
    BY <1>8 DEF Fails
  <2>2. call' \in [Calls -> Records] /\ Material'
    BY <1>0, <2>1, Fresh, Recorded DEF TypeOK, Sound, Records, Files
  <2> QED BY <1>0, <2>1, <2>2 DEF CaInv, TypeOK, Quiet, OneChain, RevokedInterceptsNothing, Records, Files
<1> QED BY <1>1, <1>2, <1>3, <1>4, <1>5, <1>6, <1>7, <1>8 DEF Next

\* The invariant holds in every reachable state.
THEOREM CaInductive == Spec => []CaInv
BY CaStarts, CaKeeps, PTL DEF Spec

\* However rotates, revokes and crashes interleave, every intercepted socket and every
\* cached leaf was signed by the CA in memory.
THEOREM AlwaysOneChain == Spec => []OneChain
<1>1. CaInv => OneChain
  BY DEF CaInv
<1> QED BY <1>1, CaInductive, PTL

\* Without a CA in memory nothing is intercepted.
THEOREM AlwaysRevoked == Spec => []RevokedInterceptsNothing
<1>1. CaInv => RevokedInterceptsNothing
  BY DEF CaInv
<1> QED BY <1>1, CaInductive, PTL

\* Interception goes with the CA in memory, and with no other.
THEOREM AlwaysSigned == Spec => []OnlyTheCaSigns
<1>1. CaInv => OnlyTheCaSigns
  BY DEF CaInv, OnlyTheCaSigns
<1> QED BY <1>1, CaInductive, PTL

----------------------------------------------------------------------------
(* What the disk holds between two calls.                                     *)

\* The CA in memory, None when it is revoked, and a disk that holds CA k, or k's
\* absence and the marker of a revocation.
Mem == IF ca = None THEN None ELSE ca.cert

Stored(k) ==
  /\ cert = k /\ secrets.key = k
  /\ (marker = TRUE) <=> k = None

\* What a mint, a rotate or a revoke has done to the disk where it is suspended.
Halfway(r) ==
  /\ r.op \in {"mint", "rotate", "revoke"}
  /\ r.op \in {"mint", "rotate"}
       => /\ r.new \in Cas
          /\ r.at \in {"cert", "text", "get", "truncate", "write", "unmark", "publish"}
          /\ r.at \notin {"cert", "text"} => cert = r.new
  /\ r.op = "mint" => marker = FALSE
  /\ r.op = "revoke" => /\ r.new = None
                        /\ r.at \in {"get", "truncate", "write", "remove", "mark", "stamp", "publish"}
                        /\ r.at \in {"mark", "stamp", "publish"} => cert = None
  /\ r.at \in {"truncate", "write"} => r.read.key = r.new
  /\ r.at \in {"unmark", "remove", "mark", "stamp", "publish"} => secrets.key = r.new
  /\ r.at = "publish" => ((marker = TRUE) <=> r.new = None)

AllIdle == \A c \in Calls : call[c] = Idle

\* As long as the last call ran alone and did not fail or die, it is the only one, halfway
\* through its writes, or it has returned and the disk holds the CA in memory: what the
\* calls before it left on disk is all overwritten.
Tidy ==
  untidy = FALSE =>
    /\ \A c \in Calls : call[c] # Idle => Halfway(call[c])
    /\ \A c, d \in Calls : call[c] # Idle /\ call[d] # Idle => c = d
    /\ AllIdle /\ running = TRUE => Stored(Mem) /\ (ca # None => ca.key = ca.cert)
    /\ AllIdle /\ running = FALSE => Stored(cert)

\* Since a revoke that returned nothing has touched the disk.
Gone == revoked = TRUE => AllIdle /\ ca = None /\ cert = None /\ Stored(None)

DiskInv == CaInv /\ Tidy /\ Gone

LEMMA DiskStarts == Init => DiskInv
<1> SUFFICES ASSUME Init PROVE DiskInv
  OBVIOUS
<1>1. CaInv
  BY CaStarts
<1>2. 1 # None
  BY CaAssumption
<1>3. Stored(cert)
  BY <1>2 DEF Init, Stored
<1>4. Tidy
  BY <1>2, <1>3 DEF Init, Tidy, AllIdle
<1> QED BY <1>1, <1>4 DEF Init, DiskInv, Gone

\* A step of the one call that is under way, to where the disk is.
LEMMA Proceeds ==
  ASSUME DiskInv, NEW c \in Calls, call[c] # Idle, call'[c] # Idle,
         \A d \in Calls : d # c => call'[d] = call[d],
         untidy = FALSE => Halfway(call[c])',
         UNCHANGED <<ca, running, revoked, untidy>>
  PROVE  Tidy' /\ Gone'
<1>1. Gone'
  BY DEF DiskInv, Gone, AllIdle
<1> SUFFICES ASSUME untidy = FALSE PROVE Tidy'
  BY <1>1 DEF Tidy
<1>2. \A d \in Calls : call[d] # Idle => d = c
  BY DEF DiskInv, Tidy
<1>3. \A d \in Calls : call'[d] # Idle => d = c
  BY <1>2
<1>4. Halfway(call[c])' /\ ~AllIdle'
  BY DEF AllIdle
<1> QED BY <1>3, <1>4 DEF Tidy

\* The steps of a call between its beginning and its end.
LEMMA DiskStepTidy ==
  ASSUME DiskInv, NEW c \in Calls,
         \/ TruncateCert(c) \/ WriteCert(c)
         \/ ReadSecrets(c) \/ TruncateSecrets(c) \/ WriteSecrets(c)
         \/ Unmark(c) \/ RemoveCert(c) \/ TruncateMark(c) \/ Mark(c)
  PROVE  Tidy' /\ Gone'
<1>1. UNCHANGED <<ca, running, revoked, untidy>>
  BY DEF TruncateCert, WriteCert, ReadSecrets, TruncateSecrets, WriteSecrets, Unmark, RemoveCert, TruncateMark, Mark, disk
<1>2. call \in [Calls -> Records] /\ call[c] \in Records /\ Material
      /\ cert \in Cas \cup {None} /\ secrets \in Files
  BY DEF DiskInv, CaInv, TypeOK, Records, Files
<1>3. call[c].at # "idle" /\ call[c] # Idle
  BY Fresh DEF TruncateCert, WriteCert, ReadSecrets, TruncateSecrets, WriteSecrets, Unmark, RemoveCert, TruncateMark, Mark
<1>4. call[c].op \in {"mint", "rotate", "revoke"}
  BY <1>2, <1>3 DEF Material
<1>5. untidy = FALSE => Halfway(call[c])
  BY <1>3 DEF DiskInv, Tidy
<1>6. ASSUME NEW at \in Steps \ {"idle"}, Goes(c, at)
      PROVE  /\ call'[c].op = call[c].op /\ call'[c].at = at /\ call'[c].new = call[c].new
             /\ call'[c].read = call[c].read
             /\ call'[c] # Idle /\ \A d \in Calls : d # c => call'[d] = call[d]
  <2>1. call'[c] = [call[c] EXCEPT !.at = at] /\ \A d \in Calls : d # c => call'[d] = call[d]
    BY <1>2, <1>6 DEF Goes
  <2>2. PICK r \in Records : r = call[c]
    BY <1>2
  <2>3. /\ [r EXCEPT !.at = at].op = r.op /\ [r EXCEPT !.at = at].new = r.new
        /\ [r EXCEPT !.at = at].at = at /\ [r EXCEPT !.at = at].read = r.read
    BY DEF Records
  <2>4. at # "idle" /\ Idle.at = "idle"
    BY Fresh
  <2> QED BY <2>1, <2>2, <2>3, <2>4
<1>7. None \notin Cas
  BY CaAssumption DEF Cas
<1>8. CASE WriteCert(c)
  <2>1. Goes(c, "get") /\ cert' = call[c].new /\ call[c].at = "text" /\ UNCHANGED <<secrets, marker>>
    BY <1>8 DEF WriteCert
  <2>2. call'[c].op = call[c].op /\ call'[c].at = "get" /\ call'[c].new = call[c].new
        /\ call'[c] # Idle /\ \A d \in Calls : d # c => call'[d] = call[d]
    BY <1>6, <2>1 DEF Steps
  <2>3. untidy = FALSE => Halfway(call[c])'
    BY <1>5, <2>1, <2>2 DEF Halfway
  <2> QED BY <1>1, <1>3, <2>2, <2>3, Proceeds
<1>9. CASE ReadSecrets(c)
  <2> DEFINE f == [key |-> call[c].new, dek |-> secrets.dek]
  <2>1. call[c].at = "get" /\ call' = [call EXCEPT ![c] = [call[c] EXCEPT !.at = "truncate", !.read = f]]
        /\ UNCHANGED <<cert, secrets, marker>>
    BY <1>9 DEF ReadSecrets, disk
  <2>2. f \in Files /\ f.key = call[c].new
    BY <1>2 DEF Files, Records
  <2> HIDE DEF f
  <2>3. /\ call'[c].op = call[c].op /\ call'[c].at = "truncate" /\ call'[c].new = call[c].new
        /\ call'[c].read = f /\ call'[c] # Idle /\ \A d \in Calls : d # c => call'[d] = call[d]
    <3>1. call'[c] = [call[c] EXCEPT !.at = "truncate", !.read = f]
          /\ \A d \in Calls : d # c => call'[d] = call[d]
      BY <1>2, <2>1
    <3>2. PICK r \in Records : r = call[c]
      BY <1>2
    <3>3. PICK g \in Files : g = f
      BY <2>2
    <3>4. /\ [r EXCEPT !.at = "truncate", !.read = g].op = r.op
          /\ [r EXCEPT !.at = "truncate", !.read = g].new = r.new
          /\ [r EXCEPT !.at = "truncate", !.read = g].at = "truncate"
          /\ [r EXCEPT !.at = "truncate", !.read = g].read = g
      BY DEF Records
    <3>5. Idle.at = "idle"
      BY Fresh
    <3> QED BY <3>1, <3>2, <3>3, <3>4, <3>5
  <2>4. untidy = FALSE => Halfway(call[c])'
    BY <1>5, <2>1, <2>2, <2>3 DEF Halfway
  <2> QED BY <1>1, <1>3, <2>3, <2>4, Proceeds
<1>10. CASE TruncateSecrets(c)
  <2>1. Goes(c, "write") /\ UNCHANGED <<cert, marker>> /\ call[c].at = "truncate"
    BY <1>10 DEF TruncateSecrets
  <2>2. /\ call'[c].op = call[c].op /\ call'[c].at = "write" /\ call'[c].new = call[c].new
        /\ call'[c].read = call[c].read
        /\ call'[c] # Idle /\ \A d \in Calls : d # c => call'[d] = call[d]
    BY <1>6, <2>1 DEF Steps
  <2>3. untidy = FALSE => Halfway(call[c])'
    BY <1>5, <2>1, <2>2 DEF Halfway
  <2> QED BY <1>1, <1>3, <2>2, <2>3, Proceeds
<1>11. CASE WriteSecrets(c)
  <2> DEFINE at == AfterSecrets[call[c].op]
  <2>1. Goes(c, at) /\ secrets' = call[c].read /\ UNCHANGED <<cert, marker>> /\ call[c].at = "write"
    BY <1>11 DEF WriteSecrets
  <2>2. /\ call[c].op = "rotate" => at = "unmark"
        /\ call[c].op = "mint" => at = "publish"
        /\ call[c].op = "revoke" => at = "remove"
        /\ at \in Steps \ {"idle"}
    BY <1>4 DEF AfterSecrets, Steps
  <2>3. /\ call'[c].op = call[c].op /\ call'[c].at = at /\ call'[c].new = call[c].new
        /\ call'[c].read = call[c].read
        /\ call'[c] # Idle /\ \A d \in Calls : d # c => call'[d] = call[d]
    <3>1. PICK a \in Steps \ {"idle"} : a = at
      BY <2>2
    <3> HIDE DEF at
    <3>2. Goes(c, a)
      BY <2>1, <3>1
    <3> QED BY <1>6, <3>1, <3>2
  <2> HIDE DEF at
  <2>4. untidy = FALSE => Halfway(call[c])'
    <3> SUFFICES ASSUME untidy = FALSE PROVE Halfway(call[c])'
      OBVIOUS
    <3>1. Halfway(call[c])
      BY <1>5
    <3>2. call[c].read.key = call[c].new /\ call[c].op \in {"mint", "rotate", "revoke"}
          /\ (call[c].op \in {"mint", "rotate"} => call[c].new \in Cas /\ cert = call[c].new)
          /\ (call[c].op = "mint" => marker = FALSE)
          /\ (call[c].op = "revoke" => call[c].new = None)
      BY <2>1, <3>1 DEF Halfway
    <3> QED BY <1>7, <2>1, <2>2, <2>3, <3>2 DEF Halfway
  <2> QED BY <1>1, <1>3, <2>3, <2>4, Proceeds
<1>12. CASE Unmark(c)
  <2>1. Goes(c, "publish") /\ UNCHANGED <<cert, secrets>> /\ call[c].at = "unmark" /\ marker' = FALSE
    BY <1>12 DEF Unmark
  <2>2. /\ call'[c].op = call[c].op /\ call'[c].at = "publish" /\ call'[c].new = call[c].new
        /\ call'[c] # Idle /\ \A d \in Calls : d # c => call'[d] = call[d]
    BY <1>6, <2>1 DEF Steps
  <2>3. untidy = FALSE => Halfway(call[c])'
    BY <1>5, <1>7, <2>1, <2>2 DEF Halfway
  <2> QED BY <1>1, <1>3, <2>2, <2>3, Proceeds
<1>13. CASE RemoveCert(c)
  <2>1. Goes(c, "mark") /\ UNCHANGED <<secrets, marker>> /\ call[c].at = "remove" /\ cert' = None
    BY <1>13 DEF RemoveCert
  <2>2. /\ call'[c].op = call[c].op /\ call'[c].at = "mark" /\ call'[c].new = call[c].new
        /\ call'[c] # Idle /\ \A d \in Calls : d # c => call'[d] = call[d]
    BY <1>6, <2>1 DEF Steps
  <2>3. untidy = FALSE => Halfway(call[c])'
    BY <1>5, <1>7, <2>1, <2>2 DEF Halfway
  <2> QED BY <1>1, <1>3, <2>2, <2>3, Proceeds
<1>14. CASE Mark(c)
  <2>1. Goes(c, "publish") /\ UNCHANGED <<cert, secrets>> /\ call[c].at = "stamp" /\ marker' = TRUE
    BY <1>14 DEF Mark
  <2>2. /\ call'[c].op = call[c].op /\ call'[c].at = "publish" /\ call'[c].new = call[c].new
        /\ call'[c] # Idle /\ \A d \in Calls : d # c => call'[d] = call[d]
    BY <1>6, <2>1 DEF Steps
  <2>3. untidy = FALSE => Halfway(call[c])'
    BY <1>5, <1>7, <2>1, <2>2 DEF Halfway
  <2> QED BY <1>1, <1>3, <2>2, <2>3, Proceeds
<1>15. CASE TruncateCert(c)
  <2>1. Goes(c, "text") /\ UNCHANGED <<secrets, marker>> /\ call[c].at = "cert" /\ cert' = None
    BY <1>15 DEF TruncateCert
  <2>2. /\ call'[c].op = call[c].op /\ call'[c].at = "text" /\ call'[c].new = call[c].new
        /\ call'[c] # Idle /\ \A d \in Calls : d # c => call'[d] = call[d]
    BY <1>6, <2>1 DEF Steps
  <2>3. untidy = FALSE => Halfway(call[c])'
    BY <1>5, <1>7, <2>1, <2>2 DEF Halfway
  <2> QED BY <1>1, <1>3, <2>2, <2>3, Proceeds
<1>16. CASE TruncateMark(c)
  <2>1. Goes(c, "stamp") /\ UNCHANGED <<cert, secrets>> /\ call[c].at = "mark" /\ marker' = FALSE
    BY <1>16 DEF TruncateMark
  <2>2. /\ call'[c].op = call[c].op /\ call'[c].at = "stamp" /\ call'[c].new = call[c].new
        /\ call'[c] # Idle /\ \A d \in Calls : d # c => call'[d] = call[d]
    BY <1>6, <2>1 DEF Steps
  <2>3. untidy = FALSE => Halfway(call[c])'
    BY <1>5, <1>7, <2>1, <2>2 DEF Halfway
  <2> QED BY <1>1, <1>3, <2>2, <2>3, Proceeds
<1> QED BY <1>8, <1>9, <1>10, <1>11, <1>12, <1>13, <1>14, <1>15, <1>16

LEMMA DiskKeeps == DiskInv /\ [Next]_vars => DiskInv'
<1> SUFFICES ASSUME DiskInv, [Next]_vars PROVE DiskInv'
  OBVIOUS
<1>0. CaInv /\ TypeOK /\ Material /\ Quiet /\ Tidy /\ Gone /\ CaInv'
  BY CaKeeps DEF DiskInv, CaInv
<1> SUFFICES Tidy' /\ Gone'
  BY <1>0 DEF DiskInv
<1>1. /\ call \in [Calls -> Records] /\ running \in BOOLEAN /\ untidy \in BOOLEAN /\ revoked \in BOOLEAN
      /\ ca \in [cert : Cas, key : Cas] \cup {None} /\ cert \in Cas \cup {None} /\ secrets \in Files
      /\ None \notin Cas /\ None \notin [cert : Cas, key : Cas] /\ marker \in BOOLEAN
  BY <1>0, CaAssumption DEF TypeOK, Records, Files, Cas
<1>2. CASE UNCHANGED <<disk, ca, running, call, revoked, untidy>>
  BY <1>0, <1>2 DEF Tidy, Gone, AllIdle, Halfway, Stored, Mem, disk
<1>3. ASSUME NEW s \in Sockets, Connect(s) \/ Handshake(s) \/ Hangup(s) PROVE Tidy' /\ Gone'
  BY <1>2, <1>3 DEF Connect, Handshake, Hangup
<1>4. ASSUME NEW c \in Calls, NEW op \in {"rotate", "revoke"}, Begin(c, op) PROVE Tidy' /\ Gone'
  <2>1. /\ running = TRUE /\ call[c] = Idle /\ UNCHANGED <<cert, secrets, marker, ca, running>>
        /\ untidy' = (Busy # {})
    BY <1>1, <1>4 DEF Begin, disk
  <2>2. Gone'
    <3>1. CASE op = "rotate"
      BY <1>4, <3>1 DEF Begin, Gone
    <3>2. CASE op = "revoke"
      BY <1>0, <1>4, <3>2 DEF Begin, Gone
    <3> QED BY <3>1, <3>2
  <2> SUFFICES ASSUME untidy' = FALSE PROVE Tidy'
    BY <2>2 DEF Tidy
  <2>3. \A d \in Calls : call[d] = Idle
    BY <2>1 DEF Busy
  <2>4. Idle.at = "idle" /\ \A d \in Calls : d # c => call'[d] = Idle
    BY <1>1, <1>4, <2>3, Fresh DEF Begin
  <2>5. call'[c] # Idle /\ Halfway(call[c])'
    <3>1. CASE op = "rotate"
      <4>1. made < MaxCas /\ made \in 0..MaxCas /\ call'[c] = Doing(op, "cert", made + 1)
        BY <1>0, <1>1, <1>4, <3>1 DEF Begin, TypeOK
      <4>2. made + 1 \in Cas
        BY <4>1, CaAssumption DEF Cas
      <4>3. call'[c].op = "rotate" /\ call'[c].at = "cert" /\ call'[c].new = made + 1
        BY <3>1, <4>1 DEF Doing
      <4> QED BY <2>4, <4>2, <4>3 DEF Halfway
    <3>2. CASE op = "revoke"
      <4>1. call'[c] = Doing(op, "get", None)
        BY <1>1, <1>4, <3>2 DEF Begin
      <4>2. call'[c].op = "revoke" /\ call'[c].at = "get" /\ call'[c].new = None
        BY <3>2, <4>1 DEF Doing
      <4> QED BY <2>4, <4>2 DEF Halfway
    <3> QED BY <3>1, <3>2
  <2>6. (\A d \in Calls : call'[d] # Idle => d = c) /\ ~AllIdle'
    BY <2>4, <2>5 DEF AllIdle
  <2> QED BY <2>5, <2>6 DEF Tidy
<1>5. ASSUME NEW c \in Calls,
             \/ TruncateCert(c) \/ WriteCert(c)
             \/ ReadSecrets(c) \/ TruncateSecrets(c) \/ WriteSecrets(c)
             \/ Unmark(c) \/ RemoveCert(c) \/ TruncateMark(c) \/ Mark(c)
      PROVE Tidy' /\ Gone'
  BY <1>5, DiskStepTidy
<1>6. ASSUME NEW c \in Calls, Publish(c) PROVE Tidy' /\ Gone'
  <2>1. /\ ca' = (IF call[c].op = "revoke" THEN None ELSE [cert |-> call[c].new, key |-> call[c].new])
        /\ revoked' = (call[c].op = "revoke" /\ ~untidy)
        /\ running' = TRUE /\ call' = [call EXCEPT ![c] = Idle] /\ call[c].at = "publish"
        /\ UNCHANGED <<cert, secrets, marker, untidy>>
    BY <1>6 DEF Publish, disk
  <2>2. CASE untidy = TRUE
    BY <2>1, <2>2 DEF Tidy, Gone
  <2> SUFFICES ASSUME untidy = FALSE PROVE Tidy' /\ Gone'
    BY <1>1, <2>2
  <2>3. call[c] # Idle
    BY <2>1, Fresh
  <2>4. Halfway(call[c]) /\ \A d \in Calls : d # c => call[d] = Idle
    BY <1>0, <2>3 DEF Tidy
  <2>5. \A d \in Calls : call'[d] = Idle
    BY <1>1, <2>1, <2>4
  <2>6. CASE call[c].op \in {"mint", "rotate"}
    <3>1. call[c].new \in Cas /\ Stored(call[c].new)
      BY <2>1, <2>4, <2>6 DEF Halfway, Stored
    <3>2. ca' = [cert |-> call[c].new, key |-> call[c].new] /\ revoked' = FALSE
      BY <2>1, <2>6
    <3>3. ca' # None /\ ca'.cert = call[c].new /\ ca'.key = call[c].new
      BY <1>1, <3>1, <3>2
    <3>4. Stored(Mem)'
      BY <2>1, <3>1, <3>3 DEF Stored, Mem
    <3> QED BY <2>1, <2>5, <3>2, <3>3, <3>4 DEF Tidy, Gone
  <2>7. CASE call[c].op = "revoke"
    <3>1. Stored(None)
      BY <2>1, <2>4, <2>7 DEF Halfway, Stored
    <3>2. ca' = None
      BY <2>1, <2>7
    <3>3. Stored(Mem)' /\ Stored(None)' /\ cert' = None
      BY <2>1, <3>1, <3>2 DEF Stored, Mem
    <3> QED BY <2>1, <2>5, <3>2, <3>3 DEF Tidy, Gone, AllIdle
  <2> QED BY <2>4, <2>6, <2>7 DEF Halfway
<1>7. ASSUME NEW c \in Calls, Open(c) PROVE Tidy' /\ Gone'
  <2>1. /\ running = FALSE /\ (\A d \in Calls : call[d] = Idle) /\ Load(c)
        /\ UNCHANGED <<cert, secrets, marker, revoked>>
    BY <1>1, <1>7 DEF Open, Busy, disk
  <2>2. ca = None
    BY <1>0, <2>1 DEF Quiet
  <2>3. CASE /\ secrets.key = None \/ cert = None
             /\ marker = FALSE /\ untidy' = FALSE
             /\ made < MaxCas
             /\ call' = [call EXCEPT ![c] = Doing("mint", "cert", made + 1)]
    <3>1. made + 1 \in Cas
      BY <1>0, <2>3, CaAssumption DEF TypeOK, Cas
    <3>2. call'[c].op = "mint" /\ call'[c].at = "cert" /\ call'[c].new = made + 1
      BY <1>1, <2>3 DEF Doing
    <3>3. call'[c] # Idle /\ \A d \in Calls : d # c => call'[d] = Idle
      BY <1>1, <2>1, <2>3, <3>2, Fresh
    <3>4. Halfway(call[c])'
      BY <2>1, <2>3, <3>1, <3>2 DEF Halfway
    <3>5. revoked = FALSE
      BY <1>0, <1>1, <2>3 DEF Gone, Stored
    <3> QED BY <2>1, <3>3, <3>4, <3>5 DEF Tidy, Gone, AllIdle
  <2>4. CASE running' = TRUE /\ UNCHANGED <<call, untidy>>
    <3>1. CASE cert # None /\ secrets.key # None
      <4>1. ca' = [cert |-> cert, key |-> secrets.key]
        BY <2>1, <2>3, <2>4, <3>1 DEF Load
      <4>2. cert \in Cas /\ secrets.key \in Cas /\ ca' # None /\ ca'.cert = cert /\ ca'.key = secrets.key
        BY <1>1, <3>1, <4>1 DEF Files
      <4>3. Gone'
        BY <1>0, <1>1, <2>1, <3>1 DEF Gone
      <4>4. untidy = FALSE => Stored(Mem)' /\ ca'.key = ca'.cert
        BY <1>0, <2>1, <3>1, <4>2 DEF Tidy, AllIdle, Stored, Mem
      <4> QED BY <2>1, <2>4, <4>3, <4>4 DEF Tidy, AllIdle
    <3>2. CASE cert = None \/ secrets.key = None
      <4>1. ca' = None
        BY <2>1, <2>2, <3>2 DEF Load
      <4>2. Gone'
        BY <1>0, <2>1, <2>4, <4>1 DEF Gone, AllIdle, Stored
      <4>3. untidy = FALSE => Stored(Mem)'
        BY <1>0, <2>1, <3>2, <4>1 DEF Tidy, AllIdle, Stored, Mem
      <4> QED BY <2>1, <2>4, <4>1, <4>2, <4>3 DEF Tidy, AllIdle
    <3> QED BY <3>1, <3>2
  <2> QED BY <2>1, <2>3, <2>4, <1>1 DEF Load
<1>8. CASE Crash
  <2>1. /\ running' = FALSE /\ call' = [c \in Calls |-> Idle] /\ UNCHANGED <<cert, secrets, marker, revoked>>
        /\ untidy' = (untidy \/ Busy # {}) /\ (running \/ Busy # {}) /\ ca' = None
    BY <1>8 DEF Crash, disk
  <2>2. Gone'
    BY <1>0, <2>1 DEF Gone, AllIdle, Stored
  <2> SUFFICES ASSUME untidy' = FALSE PROVE Tidy'
    BY <2>2 DEF Tidy
  <2>3. untidy = FALSE /\ (\A d \in Calls : call[d] = Idle) /\ running = TRUE
    BY <1>1, <2>1 DEF Busy
  <2>4. Stored(Mem)
    BY <1>0, <2>3 DEF Tidy, AllIdle
  <2>5. Stored(cert)
    BY <2>4 DEF Stored
  <2>6. Stored(cert)' /\ \A d \in Calls : call'[d] = Idle
    BY <2>1, <2>5 DEF Stored
  <2> QED BY <2>1, <2>6 DEF Tidy
<1>9. CASE UNCHANGED vars
  BY <1>2, <1>9 DEF vars
<1>10. ASSUME NEW c \in Calls, Fails(c) PROVE Tidy' /\ Gone'
  <2>1. call[c].at # "idle" /\ untidy' = TRUE /\ revoked' = revoked
    BY <1>10 DEF Fails, MayStopAt
  <2>2. call[c] # Idle
    BY <2>1, Fresh
  <2> QED BY <1>0, <1>1, <2>1, <2>2 DEF Tidy, Gone, AllIdle
<1> QED BY <1>3, <1>4, <1>5, <1>6, <1>7, <1>8, <1>9, <1>10 DEF Next

\* The strengthening: in every reachable state a call that runs alone is halfway through
\* its writes, whatever earlier calls left when they failed or died.
THEOREM DiskInductive == Spec => []DiskInv
BY DiskStarts, DiskKeeps, PTL DEF Spec

\* After a call that ran alone and returned, what is on disk is what is in memory, however
\* many calls failed or died before it, and a revoke that returned holds across restarts
\* until a rotate is asked for (certificateAuthority.ts).
THEOREM DiskStaysTrue == Spec => []DiskIsTrue
<1>1. DiskInv => DiskIsTrue
  <2> SUFFICES ASSUME DiskInv PROVE DiskIsTrue
    OBVIOUS
  <2>1. TypeOK /\ Tidy /\ Gone
    BY DEF DiskInv, CaInv
  <2>2. /\ running \in BOOLEAN /\ untidy \in BOOLEAN /\ marker \in BOOLEAN /\ revoked \in BOOLEAN
        /\ ca \in [cert : Cas, key : Cas] \cup {None} /\ None \notin Cas
    BY <2>1, CaAssumption DEF TypeOK, Cas
  <2>3. ASSUME running, ~untidy, Busy = {}
        PROVE  /\ Stored(Mem)
               /\ ca # None => ca.key = ca.cert /\ ca.cert # None
    BY <2>1, <2>2, <2>3 DEF Tidy, AllIdle, Busy
  <2>4. DiskAgrees
    BY <2>2, <2>3 DEF DiskAgrees, Stored, Mem
  <2>5. RevokedStaysRevoked
    BY <2>1, <2>2 DEF RevokedStaysRevoked, Gone
  <2> QED BY <2>1, <2>4, <2>5 DEF DiskIsTrue
<1> QED BY <1>1, DiskInductive, PTL

\* A running process parts with its CA only when key and certificate are off the disk, so
\* a revoke that failed can be asked for again (certificateAuthority.ts, revoke).
THEOREM AlwaysTakesTheKey == Spec => RevokeTakesTheKey
<1>1. DiskInv /\ [Next]_vars
        => [running /\ running' /\ ca # None /\ ca' = None /\ ~untidy
              => secrets.key = None /\ cert = None /\ marker]_vars
  <2> SUFFICES ASSUME DiskInv, [Next]_vars, running, running', ca # None, ca' = None, ~untidy
               PROVE  secrets.key = None /\ cert = None /\ marker
    OBVIOUS
  <2>1. TypeOK /\ Tidy /\ marker \in BOOLEAN /\ None \notin Cas /\ None \notin [cert : Cas, key : Cas]
    BY CaAssumption DEF DiskInv, CaInv, TypeOK, Cas
  <2>2. PICK c \in Calls : Publish(c)
    BY DEF Next, vars, disk, Connect, Handshake, Hangup, Begin, TruncateCert, WriteCert, ReadSecrets,
           TruncateSecrets, WriteSecrets, Unmark, RemoveCert, TruncateMark, Mark, Fails, Open, Crash
  <2>3. call[c].at = "publish" /\ call[c] # Idle
    BY <2>2, Fresh DEF Publish
  <2>4. Halfway(call[c])
    BY <2>1, <2>3 DEF Tidy
  <2>5. call[c].op = "revoke"
    BY <2>1, <2>2, <2>4 DEF Publish, Halfway
  <2> QED BY <2>1, <2>3, <2>4, <2>5 DEF Halfway
<1> QED BY <1>1, DiskInductive, PTL DEF Spec, RevokeTakesTheKey

=============================================================================
