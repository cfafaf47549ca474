------------------------- MODULE CertificateAuthority -------------------------
(***************************************************************************)
(* The interception CA of a project: its material in memory, on disk and in*)
(* the secret store, the rotate and revoke calls that replace it one write *)
(* at a time, the writes that may fail, the process that may die between   *)
(* two of them, and the intercepted sockets whose leaves it signed.        *)
(*                                                                         *)
(* Writing a file truncates it first.  An empty certificate or marker      *)
(* counts as absent.  The secret store is one file, read, changed and      *)
(* written back; one that does not parse reads as empty.                   *)
(***************************************************************************)
EXTENDS Naturals

CONSTANTS
  Calls,    \* callers of rotateCa and revokeCa
  Sockets,  \* sockets of CONNECTs
  None,
  Unsigned, \* a socket whose handshake has not come yet
  MaxCas,   \* bound: CAs generated
  MaxRuns,  \* bound: times the project is opened
  MayFail   \* whether a write may fail while the process goes on

Cas == 1..MaxCas

ASSUME CaAssumption ==
  /\ MaxCas \in Nat \ {0} /\ MaxRuns \in Nat \ {0}
  /\ None \notin Nat /\ None \notin [cert : Cas, key : Cas]
  /\ Unsigned \notin Nat \cup {None}
  /\ MayFail \in BOOLEAN

VARIABLES
  cert,     \* ca.pem: the CA it holds, or None
  secrets,  \* the secret file: its CA key, and whether it has the data key
  marker,   \* ca.pem.revoked.json exists
  ca,       \* the CA in memory: [cert, key], or None when it is revoked
  running,  \* the project is open in this process
  runs,     \* processes so far
  made,     \* CAs generated so far
  call,     \* call[c]: what the call does and where it is suspended
  sock,     \* sock[s]: the CA that signed the leaf of an intercepted socket
  leaf,     \* the CA that signed the leaves in the cache, None when it is empty
  revoked,  \* a revoke that overlapped no call has returned, and no rotate began since
  untidy    \* the last call failed, died with its process or overlapped another

disk == <<cert, secrets, marker>>
vars == <<disk, ca, running, runs, made, call, sock, leaf, revoked, untidy>>

\* A secret file that is being written, and the empty store it is read as.
Nothing == [key |-> None, dek |-> FALSE]

Doing(op, at, new) == [op |-> op, at |-> at, new |-> new, read |-> Nothing]

Idle  == Doing("none", "idle", None)
Steps == {"idle", "cert", "text", "get", "truncate", "write", "unmark", "remove", "mark", "stamp", "publish"}

\* A project that was created, with a CA and a data key, and is not open.
Init ==
  /\ cert = 1 /\ marker = FALSE
  /\ secrets = [key |-> 1, dek |-> TRUE]
  /\ ca = None
  /\ running = FALSE /\ runs = 0
  /\ made = 1
  /\ call = [c \in Calls |-> Idle]
  /\ sock = [s \in Sockets |-> None]
  /\ leaf = None
  /\ revoked = FALSE
  /\ untidy = FALSE

Busy == {c \in Calls : call[c] # Idle}

----------------------------------------------------------------------------
(* Traffic *)

\* onConnect: intercepted while there is a CA, else relayed unread (not tracked).
Connect(s) ==
  /\ running /\ ca # None
  /\ sock[s] = None
  /\ sock' = [sock EXCEPT ![s] = Unsigned]
  /\ UNCHANGED <<disk, ca, running, runs, made, call, leaf, revoked, untidy>>

\* The TLS handshake asks for a leaf: from the cache, or signed now.
LeafFor == IF leaf # None THEN leaf ELSE ca.cert

Handshake(s) ==
  /\ running /\ ca # None
  /\ sock[s] = Unsigned
  /\ leaf' = LeafFor
  /\ sock' = [sock EXCEPT ![s] = LeafFor]
  /\ UNCHANGED <<disk, ca, running, runs, made, call, revoked, untidy>>

Hangup(s) ==
  /\ sock[s] # None
  /\ sock' = [sock EXCEPT ![s] = None]
  /\ UNCHANGED <<disk, ca, running, runs, made, call, leaf, revoked, untidy>>

----------------------------------------------------------------------------
(* Rotate, revoke, and the mint of a first CA *)

Goes(c, at) == call' = [call EXCEPT ![c].at = at]

\* rotate generates the new material off to the side and writes the certificate
\* first; revoke deletes the key first.  A call that begins alone is tidy whatever
\* the calls before it left.
Begin(c, op) ==
  /\ running
  /\ call[c] = Idle
  /\ \/ /\ op = "rotate"
        /\ made < MaxCas
        /\ made' = made + 1
        /\ call' = [call EXCEPT ![c] = Doing(op, "cert", made + 1)]
        /\ revoked' = FALSE
     \/ /\ op = "revoke"
        /\ ca # None
        /\ call' = [call EXCEPT ![c] = Doing(op, "get", None)]
        /\ UNCHANGED <<made, revoked>>
  /\ untidy' = (Busy # {})
  /\ UNCHANGED <<disk, ca, running, runs, sock, leaf>>

TruncateCert(c) ==
  /\ call[c].at = "cert"
  /\ cert' = None
  /\ Goes(c, "text")
  /\ UNCHANGED <<secrets, marker, ca, running, runs, made, sock, leaf, revoked, untidy>>

WriteCert(c) ==
  /\ call[c].at = "text"
  /\ cert' = call[c].new
  /\ Goes(c, "get")
  /\ UNCHANGED <<secrets, marker, ca, running, runs, made, sock, leaf, revoked, untidy>>

\* set and delete read the whole file, change one entry and write it back.
ReadSecrets(c) ==
  /\ call[c].at = "get"
  /\ call' = [call EXCEPT ![c].at = "truncate",
                          ![c].read = [key |-> call[c].new, dek |-> secrets.dek]]
  /\ UNCHANGED <<disk, ca, running, runs, made, sock, leaf, revoked, untidy>>

TruncateSecrets(c) ==
  /\ call[c].at = "truncate"
  /\ secrets' = Nothing
  /\ Goes(c, "write")
  /\ UNCHANGED <<cert, marker, ca, running, runs, made, sock, leaf, revoked, untidy>>

AfterSecrets == [mint |-> "publish", rotate |-> "unmark", revoke |-> "remove"]

WriteSecrets(c) ==
  /\ call[c].at = "write"
  /\ secrets' = call[c].read
  /\ Goes(c, AfterSecrets[call[c].op])
  /\ UNCHANGED <<cert, marker, ca, running, runs, made, sock, leaf, revoked, untidy>>

Unmark(c) ==
  /\ call[c].at = "unmark"
  /\ marker' = FALSE
  /\ Goes(c, "publish")
  /\ UNCHANGED <<cert, secrets, ca, running, runs, made, sock, leaf, revoked, untidy>>

RemoveCert(c) ==
  /\ call[c].at = "remove"
  /\ cert' = None
  /\ Goes(c, "mark")
  /\ UNCHANGED <<secrets, marker, ca, running, runs, made, sock, leaf, revoked, untidy>>

TruncateMark(c) ==
  /\ call[c].at = "mark"
  /\ marker' = FALSE
  /\ Goes(c, "stamp")
  /\ UNCHANGED <<cert, secrets, ca, running, runs, made, sock, leaf, revoked, untidy>>

\* Mutant: the marker of a revoke stays empty.
MarkForgotten(c) ==
  /\ call[c].at = "stamp"
  /\ Goes(c, "publish")
  /\ UNCHANGED <<disk, ca, running, runs, made, sock, leaf, revoked, untidy>>

Mark(c) ==
  /\ call[c].at = "stamp"
  /\ marker' = TRUE
  /\ Goes(c, "publish")
  /\ UNCHANGED <<cert, secrets, ca, running, runs, made, sock, leaf, revoked, untidy>>

\* Every write can fail: the call rejects, the files are as the steps before left them,
\* and memory is as the call found it.  Reads do not fail here.
MayStopAt == Steps \ {"idle", "get", "publish"}

\* Mutant: revoke drops the CA from memory first, and destroys the files then.
FailsForgotten(c) ==
  /\ MayFail
  /\ call[c].at \in MayStopAt
  /\ call' = [call EXCEPT ![c] = Idle]
  /\ untidy' = TRUE
  /\ ca' = IF call[c].op = "revoke" THEN None ELSE ca
  /\ UNCHANGED <<disk, running, runs, made, sock, leaf, revoked>>

Fails(c) ==
  /\ MayFail
  /\ call[c].at \in MayStopAt
  /\ call' = [call EXCEPT ![c] = Idle]
  /\ untidy' = TRUE
  /\ UNCHANGED <<disk, ca, running, runs, made, sock, leaf, revoked>>

\* refreshCa: every intercepted socket is destroyed.
DropIntercepted == sock' = [s \in Sockets |-> None]

\* Mutant: the leaf cache survives a rotate.
PublishKeepsLeaves(c) ==
  /\ call[c].at = "publish"
  /\ ca' = IF call[c].op = "revoke" THEN None ELSE [cert |-> call[c].new, key |-> call[c].new]
  /\ DropIntercepted
  /\ revoked' = (call[c].op = "revoke" /\ ~untidy)
  /\ running' = TRUE
  /\ call' = [call EXCEPT ![c] = Idle]
  /\ UNCHANGED <<disk, runs, made, leaf, untidy>>

\* The material in memory is swapped in one turn, the leaf cache is emptied and
\* the proxy told.  A mint publishes when the project opens.
Publish(c) ==
  /\ call[c].at = "publish"
  /\ ca' = IF call[c].op = "revoke" THEN None ELSE [cert |-> call[c].new, key |-> call[c].new]
  /\ leaf' = None
  /\ DropIntercepted
  /\ revoked' = (call[c].op = "revoke" /\ ~untidy)
  /\ running' = TRUE
  /\ call' = [call EXCEPT ![c] = Idle]
  /\ UNCHANGED <<disk, runs, made, untidy>>

----------------------------------------------------------------------------
(* The process *)

\* loadOrCreate: the stored pair, the revoked state, or a CA minted anew.  The
\* data key is read next; an opened project that has none counts as unencrypted.
Load(c) ==
  \/ /\ secrets.key # None /\ cert # None
     /\ ca' = [cert |-> cert, key |-> secrets.key]
     /\ running' = TRUE
     /\ UNCHANGED <<made, call, untidy>>
  \/ /\ secrets.key = None \/ cert = None
     /\ marker
     /\ ca' = None
     /\ running' = TRUE
     /\ UNCHANGED <<made, call, untidy>>
  \/ /\ secrets.key = None \/ cert = None
     /\ ~marker
     /\ made < MaxCas
     /\ made' = made + 1
     /\ call' = [call EXCEPT ![c] = Doing("mint", "cert", made + 1)]
     /\ untidy' = FALSE
     /\ UNCHANGED <<ca, running>>

Open(c) ==
  /\ ~running /\ Busy = {}
  /\ runs < MaxRuns
  /\ runs' = runs + 1
  /\ Load(c)
  /\ UNCHANGED <<disk, sock, leaf, revoked>>

\* The process dies: memory and sockets go, the disk stays as it is.
Crash ==
  /\ running \/ Busy # {}
  /\ running' = FALSE
  /\ ca' = None /\ leaf' = None
  /\ call' = [c \in Calls |-> Idle]
  /\ DropIntercepted
  /\ untidy' = (untidy \/ Busy # {})
  /\ UNCHANGED <<disk, runs, made, revoked>>

----------------------------------------------------------------------------
Next ==
  \/ \E s \in Sockets : Connect(s) \/ Handshake(s) \/ Hangup(s)
  \/ \E c \in Calls :
       \/ \E op \in {"rotate", "revoke"} : Begin(c, op)
       \/ TruncateCert(c) \/ WriteCert(c)
       \/ ReadSecrets(c) \/ TruncateSecrets(c) \/ WriteSecrets(c)
       \/ Unmark(c) \/ RemoveCert(c) \/ TruncateMark(c) \/ Mark(c)
       \/ Publish(c) \/ Fails(c)
       \/ Open(c)
  \/ Crash

Spec == Init /\ [][Next]_vars

----------------------------------------------------------------------------
\* Every variable has the type of what it stands for.
TypeOK ==
  /\ cert \in Cas \cup {None}
  /\ secrets \in [key : Cas \cup {None}, dek : BOOLEAN]
  /\ marker \in BOOLEAN
  /\ ca \in [cert : Cas, key : Cas] \cup {None}
  /\ running \in BOOLEAN /\ runs \in 0..MaxRuns /\ made \in 0..MaxCas
  /\ call \in [Calls -> [op : {"none", "mint", "rotate", "revoke"}, at : Steps, new : Cas \cup {None},
                         read : [key : Cas \cup {None}, dek : BOOLEAN]]]
  /\ sock \in [Sockets -> Cas \cup {None, Unsigned}]
  /\ leaf \in Cas \cup {None}
  /\ revoked \in BOOLEAN /\ untidy \in BOOLEAN

\* One chain at a time: every intercepted socket and every cached leaf was signed by
\* the CA in memory, whichever calls are between two writes.
OneChain ==
  /\ \A s \in Sockets : sock[s] \in Cas => ca # None /\ sock[s] = ca.cert
  /\ leaf # None => ca # None /\ leaf = ca.cert

\* Nothing is intercepted once the CA is revoked.
RevokedInterceptsNothing == ca = None => \A s \in Sockets : sock[s] = None

\* After a rotate, a revoke or a mint that returned and overlapped no other call, the
\* disk holds what memory does, whatever the calls before it left there when they failed
\* or died: a retry repairs the files, and a reopen then changes nothing.
DiskAgrees ==
  running /\ ~untidy /\ Busy = {} =>
    IF ca = None
    THEN cert = None /\ secrets.key = None /\ marker
    ELSE ca.cert = ca.key /\ cert = ca.cert /\ secrets.key = ca.key /\ ~marker

\* A revoke that returned holds, in every run of the program that can read the marker,
\* until a rotate is asked for.
RevokedStaysRevoked == revoked => ca = None

\* A project that is opened has its data key.
DataKeyKept == running /\ Busy = {} => secrets.dek

\* What is intercepted is signed by the CA in memory, and nothing is without one.
OnlyTheCaSigns == OneChain /\ RevokedInterceptsNothing

\* The files agree with memory after a call that ran alone and returned, and a revoke
\* that did outlives the process (certificateAuthority.ts, revoke).
DiskIsTrue == TypeOK /\ DiskAgrees /\ RevokedStaysRevoked

\* A running process parts with its CA only when the key and the certificate are off the
\* disk, unless calls overlap: after a revoke that failed at any of its writes the CA is
\* still there to be revoked again (certificateAuthority.ts, revoke).
RevokeTakesTheKey ==
  [][running /\ running' /\ ca # None /\ ca' = None /\ ~untidy
       => secrets.key = None /\ cert = None /\ marker]_vars

=============================================================================
