------------------------------ MODULE HuntFolder ------------------------------
(* The engagement folder: adopting it as the place of a project, listing it,   *)
(* reading and searching its files within the sandbox of workspace.ts, ranking *)
(* its documents, choosing the ones scope is read out of, and suggesting the   *)
(* parent folder when the one in use is empty.                                 *)
(*                                                                             *)
(* A path is the sequence of its names from the top of the disk.  A file's     *)
(* text is the sequence of its chunks, each the set of what can be told of it: *)
(* "nul", "key", "needle", and the content rules of docScan.ts it matches.     *)
(* Listing awaits between any two entries, and reading between finding where a *)
(* path leads and opening it, so files may come and go while they run.         *)
EXTENDS Integers, FiniteSets, FiniteSetsExt, SequencesExt, TLC

CONSTANTS
    Trees,          \* the disks a behavior may start with: path -> node
    Extras,         \* nodes that may come and go, <<path, node>>
    Picks,          \* the folders the operator may adopt
    Asked,          \* relative paths a tool may ask for
    Alphabet,       \* the names in the order of localeCompare
    Locked,         \* folders that cannot be listed, whose files can be reached
    Malformed,      \* absolute paths, drives, alternate streams: names no path may hold
    DeniedNames, TextNames, DocNames, NotableNames,   \* what a name says of a file
    NameRules, ContentRules,    \* sets of <<word, kind, score>>
    DecisiveWords,  \* content rules that settle the classification
    MaxEntries, MaxDepth, MaxText, DefaultRead,     \* bounds of workspace.ts
    MaxNotable, MaxSources, MaxScanned, MaxMatches, MaxFiles,
    MaxOps, MaxChanges          \* bounds of the model

VARIABLES
    tree,           \* the disk
    project,        \* directory of the open project, or None
    chosen,         \* chosen[d]: workspaceDir in the profile of project d, or None
    op,             \* the listing or reading in flight, or NoOp
    suggested,      \* the folder suggested, the count given for it and since when
    adoption,       \* how the last adoption ended
    ops, changes    \* counters of the bounds

folderVars == <<tree, project, chosen, op, suggested, adoption, ops, changes>>

None == <<"none">>
NoOp == [phase |-> "idle"]
Failed == [ok |-> FALSE]
NoSuggestion == [root |-> None, count |-> 0, since |-> 0]
NotAdopted == [dir |-> None, created |-> FALSE, before |-> {}, earlier |-> None]
DbFile == "belcher.db"

IsFile(p) == p \in DOMAIN tree /\ tree[p].kind = "file"
IsFolder(p) == p \in DOMAIN tree /\ tree[p].kind = "dir"
Relative(root, p) == SubSeq(p, Len(root) + 1, Len(p))

\* What readdir tells of a folder, <<path, kind>> in the order of the names; a
\* folder that cannot be read is passed over without a word.
Children(dir) ==
    LET paths == SelectSeq([i \in DOMAIN Alphabet |-> Append(dir, Alphabet[i])], LAMBDA p : p \in DOMAIN tree)
    IN IF dir \in Locked THEN <<>> ELSE [i \in DOMAIN paths |-> <<paths[i], tree[paths[i]].kind>>]

-----------------------------------------------------------------------------
(* The sandbox. *)

AnyDenied(path) == ToSet(path) \cap DeniedNames # {}

Lexical(path) ==
    FoldLeft(LAMBDA out, name : CASE name = "." -> out
                                  [] name = ".." -> IF out = <<>> THEN out ELSE Front(out)
                                  [] OTHER -> Append(out, name), <<>>, path)

\* Where a path really is, links resolved at every name; None if nowhere.
RealPath(path) ==
    FoldLeft(LAMBDA at, name :
                 LET p == Append(at, name)
                 IN IF p \notin DOMAIN tree THEN None
                    ELSE IF tree[p].kind = "link" THEN tree[p].to ELSE p, <<>>, path)

WellFormed(root, rel) ==
    /\ ToSet(rel) \cap Malformed = {} /\ ~AnyDenied(rel)
    /\ IsPrefix(root, Lexical(root \o rel))

ResolveInside(root, rel) ==
    LET real == RealPath(Lexical(root \o rel))
    IN IF WellFormed(root, rel) /\ IsPrefix(root, real) /\ ~AnyDenied(Relative(root, real))
       THEN real ELSE None

NamesOf(f) == {q \in DOMAIN tree : IsFile(q) /\ tree[q].ino = tree[f].ino}

\* Of the file f opened by the path p: one of several names of a denied file
\* beside p, as far as the folder can be listed.
AliasOfDenied(p, f) ==
    /\ tree[f].ino # 0 /\ Cardinality(NamesOf(f)) > 1 /\ Front(p) \notin Locked
    /\ \E q \in NamesOf(f) : Front(q) = Front(p) /\ Last(q) \in DeniedNames

\* A path tells the type, what it leads to the size.
Readable(p) == Last(p) \in TextNames /\ Len(tree[RealPath(p)].text) <= MaxText

\* fs.open follows the links that are there now.
OpenAndRead(p, rel, budget) ==
    LET f == RealPath(p)
    IN IF p = None \/ ~IsFile(f) \/ AliasOfDenied(p, f) \/ ~Readable(p) THEN Failed
       ELSE LET got == SubSeq(tree[f].text, 1, Min({budget, Len(tree[f].text)}))
            IN IF UNION ToSet(got) \cap {"nul", "key"} # {} THEN Failed
               ELSE [ok |-> TRUE, path |-> rel, from |-> f, text |-> got,
                     truncated |-> Len(tree[f].text) > Len(got)]

\* The reading as it goes when nothing changes on the way.
ReadWorkspaceFile(root, rel, budget) == OpenAndRead(ResolveInside(root, rel), rel, budget)

-----------------------------------------------------------------------------
(* Ranking documents. *)

KindOrder == <<"scope", "engagement", "report", "recon", "notes", "other">>

ScoreOf(rules, words, kind) ==
    FoldSet(LAMBDA r, s : s + r[3], 0, {r \in rules : r[1] \in words /\ r[2] = kind})

\* The kind with the most points, the first of the order on a tie.
BestKind(score) ==
    LET top == Max({score[i] : i \in DOMAIN score})
    IN IF top = 0 THEN "other"
       ELSE KindOrder[Min({i \in DOMAIN score : score[i] = top})]

NameRank(path) ==
    LET score == [i \in DOMAIN KindOrder |-> ScoreOf(NameRules, ToSet(path), KindOrder[i])]
    IN [kind |-> BestKind(score),
        score |-> Max({0, Max({score[i] : i \in DOMAIN score}) - 4 * (Len(path) - 1)})]

\* The scope document decided by points alone.
ClassifyByScore(path, text) ==
    LET name == NameRank(path)
        words == UNION ToSet(text)
        score == [i \in DOMAIN KindOrder |->
                    (IF KindOrder[i] = name.kind THEN name.score ELSE 0)
                    + ScoreOf(ContentRules, words, KindOrder[i])]
    IN [path |-> path, kind |-> BestKind(score), score |-> Max({score[i] : i \in DOMAIN score})]

ClassifyDocument(path, text) ==
    LET byScore == ClassifyByScore(path, text)
    IN IF UNION ToSet(text) \cap DecisiveWords = {} THEN byScore
       ELSE [byScore EXCEPT !.kind = "scope"]

BuildDocScan(read, listed) ==
    [i \in DOMAIN read |-> ClassifyDocument(read[i].path, read[i].text)]
    \o [i \in DOMAIN listed |-> ClassifyDocument(listed[i], <<>>)]

-----------------------------------------------------------------------------
(* Listing. *)

WorkspaceRoot == IF chosen[project] = None THEN project ELSE chosen[project]

StartOp(kind, root) ==
    op' = [for |-> kind, phase |-> "walk", root |-> root, todo |-> Children(root), entries |-> <<>>,
           truncated |-> FALSE, queue |-> <<>>, at |-> None, read |-> <<>>, listed |-> <<>>, searched |-> 0,
           since |-> changes, above |-> FALSE, moved |-> FALSE]

BeginOp(kind) ==
    /\ op.phase \in {"idle", "done"} /\ project # None /\ ops < MaxOps
    /\ StartOp(kind, WorkspaceRoot)
    /\ ops' = ops + 1
    /\ UNCHANGED <<tree, project, chosen, suggested, adoption, changes>>

\* A folder too deep taken as the end of the whole walk.
TooDeepEndsWalk(o) == [o EXCEPT !.truncated = TRUE, !.todo = <<>>]

TooDeep(o) == [o EXCEPT !.truncated = TRUE, !.todo = Tail(@)]

\* The kind is what readdir said, the rest what stat, following a link, says now.
Visit(o, p, kind) ==
    LET listed == [o EXCEPT !.entries = Append(@, [path |-> Relative(o.root, p), kind |-> kind,
                                                   readable |-> kind = "file" /\ Readable(p),
                                                   time |-> tree[RealPath(p)].ino])]
    IN CASE Len(o.entries) >= MaxEntries -> [o EXCEPT !.truncated = TRUE, !.todo = <<>>]
         [] OTHER ->
            IF Last(p) \in DeniedNames \/ kind = "link" \/ RealPath(p) = None
            THEN [o EXCEPT !.todo = Tail(@)]
            ELSE IF kind = "file" THEN [listed EXCEPT !.todo = Tail(@)]
            ELSE IF Len(p) - Len(o.root) >= MaxDepth THEN TooDeep(listed)
            ELSE [listed EXCEPT !.todo = Children(p) \o Tail(@)]

WalkStep ==
    /\ op.phase = "walk" /\ op.todo # <<>>
    /\ op' = Visit(op, Head(op.todo)[1], Head(op.todo)[2])
    /\ UNCHANGED <<tree, project, chosen, suggested, adoption, ops, changes>>

Files(o) == SelectSeq(o.entries, LAMBDA e : e.kind = "file")
ReadableFiles(o) == SelectSeq(o.entries, LAMBDA e : e.readable)

NotableFiles(o) ==
    LET notable == SelectSeq(ReadableFiles(o), LAMBDA e : ToSet(e.path) \cap NotableNames # {})
        latest == SortSeq(notable, LAMBDA a, b : a.time > b.time)
    IN ToSet(SubSeq(latest, 1, Min({MaxNotable, Len(latest)})))

\* The documents scope is read out of: the notable ones, then the others.
SourceOrder(o) ==
    LET notable == NotableFiles(o)
        order == SelectSeq(ReadableFiles(o), LAMBDA e : e \in notable)
                 \o SelectSeq(ReadableFiles(o), LAMBDA e : e \notin notable)
    IN SubSeq(order, 1, Min({MaxSources, Len(order)}))

IsReadableDoc(e) == e.readable /\ Last(e.path) \in DocNames

ScanOrder(o) ==
    LET Position(e) == CHOOSE i \in DOMAIN o.entries : o.entries[i] = e
        Earlier(a, b) ==
            IF IsReadableDoc(a) # IsReadableDoc(b) THEN IsReadableDoc(a)
            ELSE IF NameRank(a.path).score # NameRank(b.path).score
                 THEN NameRank(a.path).score > NameRank(b.path).score
                 ELSE Position(a) < Position(b)
    IN SortSeq(Files(o), Earlier)

EndWalk ==
    /\ op.phase = "walk" /\ op.todo = <<>> /\ op.for \in {"scan", "sources", "search"}
    /\ op' = [op EXCEPT !.phase = "read",
                        !.queue = CASE op.for = "scan" -> ScanOrder(op)
                                    [] op.for = "sources" -> SourceOrder(op)
                                    [] op.for = "search" -> ReadableFiles(op)]
    /\ UNCHANGED <<tree, project, chosen, suggested, adoption, ops, changes>>

-----------------------------------------------------------------------------
(* Reading what was listed. *)

Listed(o, e) == [o EXCEPT !.queue = Tail(@), !.listed = Append(@, e.path)]

TakeDoc(o, e, r) == IF r.ok THEN [o EXCEPT !.queue = Tail(@), !.read = Append(@, r)] ELSE Listed(o, e)

TakeSource(o, r) == [o EXCEPT !.queue = Tail(@), !.read = IF r.ok THEN Append(@, r) ELSE @]

\* `listed` holds the matches, <<path, line>>.
TakeMatches(o, e, r) ==
    LET lines == IF r.ok THEN r.text ELSE <<>>
        hits == {i \in DOMAIN lines : "needle" \in lines[i]}
        room == MaxMatches - Len(o.listed)
        kept == {i \in hits : Cardinality({j \in hits : j <= i}) <= room}
    IN [o EXCEPT !.queue = Tail(@), !.searched = @ + 1,
                 !.listed = @ \o SelectSeq([i \in DOMAIN lines |-> <<e.path, i>>], LAMBDA m : m[2] \in kept),
                 !.truncated = @ \/ (Cardinality(kept) = room /\ Max(kept) < Len(lines))]

\* What needs no reading: a file the scan has no use or no budget for, and what
\* is left when the search has all it may have.
Passed(o, e) ==
    CASE o.for = "scan" /\ ~(IsReadableDoc(e) /\ Len(o.read) < MaxScanned) -> Listed(o, e)
      [] o.for = "search" /\ (o.searched >= MaxFiles \/ Len(o.listed) = MaxMatches) ->
            [o EXCEPT !.truncated = TRUE, !.queue = <<>>]
      [] OTHER -> o

\* Where the next file is.  The search keeps the folder it listed; the scan and
\* the reading of sources ask for the folder in use at every file.
ResolveNext ==
    /\ op.phase = "read" /\ op.queue # <<>>
    /\ LET e == Head(op.queue)
           root == IF op.for = "search" THEN op.root ELSE WorkspaceRoot
       IN op' = IF Passed(op, e) # op THEN Passed(op, e)
                ELSE [op EXCEPT !.phase = "open", !.at = ResolveInside(root, e.path)]
    /\ UNCHANGED <<tree, project, chosen, suggested, adoption, ops, changes>>

\* It is opened by the path that was found, and read by its handle.
ReadNext ==
    /\ op.phase = "open"
    /\ LET e == Head(op.queue)
           r == OpenAndRead(op.at, e.path, DefaultRead)
           o == [op EXCEPT !.phase = "read", !.at = None]
       IN op' = CASE op.for = "scan" -> TakeDoc(o, e, r)
                  [] op.for = "sources" -> TakeSource(o, r)
                  [] op.for = "search" -> TakeMatches(o, e, r)
    /\ UNCHANGED <<tree, project, chosen, suggested, adoption, ops, changes>>

EndRead ==
    /\ op.phase = "read" /\ op.queue = <<>>
    /\ op' = [op EXCEPT !.phase = "done"]
    /\ UNCHANGED <<tree, project, chosen, suggested, adoption, ops, changes>>

\* workspaceSummary: the count, and when it is 0 the same walk one level up.
EndSummary ==
    /\ op.phase = "walk" /\ op.todo = <<>> /\ op.for = "summary"
    /\ IF ~op.above /\ Files(op) = <<>> /\ chosen[project] = None
       THEN /\ op' = [op EXCEPT !.above = TRUE, !.root = Front(project),
                                !.todo = Children(Front(project)), !.entries = <<>>]
            /\ UNCHANGED suggested
       ELSE /\ op' = [op EXCEPT !.phase = "done"]
            /\ suggested' = IF op.above /\ Files(op) # <<>>
                            THEN [root |-> op.root, count |-> Len(Files(op)), since |-> op.since]
                            ELSE suggested
    /\ UNCHANGED <<tree, project, chosen, adoption, ops, changes>>

-----------------------------------------------------------------------------
(* Choosing the folder. *)

\* The operator takes the suggestion.
ChooseFolder ==
    /\ project # None /\ suggested.root \notin {None, chosen[project]}
    /\ op.phase # "adopted"
    /\ chosen' = [chosen EXCEPT ![project] = suggested.root]
    /\ op' = IF op.phase \in {"walk", "read", "open"} THEN [op EXCEPT !.moved = TRUE] ELSE op
    /\ UNCHANGED <<tree, project, suggested, adoption, ops, changes>>

HasProject(d) == IsFile(Append(d, DbFile))

ProjectsIn(dir) ==
    IF HasProject(dir) THEN {dir}
    ELSE {p \in DOMAIN tree : IsFolder(p) /\ Len(p) = Len(dir) + 1 /\ IsPrefix(dir, p) /\ HasProject(p)}

Opens(d) == tree[Append(d, DbFile)].text # <<{"broken"}>>

NewProject(d) ==
    (d :> [kind |-> "dir", to |-> None, ino |-> 0, text |-> <<>>])
    @@ (Append(d, DbFile) :> [kind |-> "file", to |-> None, ino |-> 0, text |-> <<>>])

\* Open what resolveProjectDir finds; on any failure create a project of the
\* folder's own name in it.  Then the folder becomes the engagement folder,
\* unless the operator chose one before, and is scanned.
AdoptFolder(dir) ==
    LET found == ProjectsIn(dir)
        opened == Cardinality(found) = 1 /\ \A d \in found : Opens(d)
        at == IF opened THEN CHOOSE d \in found : TRUE ELSE Append(dir, Last(dir) \o ".tacnocproj")
        earlier == IF at \in DOMAIN chosen THEN chosen[at] ELSE None
        root == IF earlier = None /\ dir # at THEN dir
                ELSE IF earlier = None THEN at ELSE earlier
    IN /\ op.phase \in {"idle", "done"} /\ ops < MaxOps /\ IsFolder(dir)
       /\ IF HasProject(at) /\ ~Opens(at)
          THEN /\ project' = None
               /\ op' = NoOp
               /\ UNCHANGED <<tree, chosen, adoption, ops>>
          ELSE /\ project' = at
               /\ tree' = IF opened THEN tree ELSE tree @@ NewProject(at)
               /\ chosen' = (at :> IF root = at THEN None ELSE root) @@ chosen
               /\ adoption' = [dir |-> dir, created |-> ~opened, before |-> found, earlier |-> earlier]
               /\ op' = [for |-> "scan", phase |-> "adopted"]
               /\ ops' = ops + 1
       /\ suggested' = NoSuggestion
       /\ UNCHANGED changes

ScanAdopted ==
    /\ op.phase = "adopted"
    /\ StartOp("scan", WorkspaceRoot)
    /\ UNCHANGED <<tree, project, chosen, suggested, adoption, ops, changes>>

-----------------------------------------------------------------------------
(* The folder changes under the readers. *)

ComeOrGo ==
    /\ changes < MaxChanges /\ op.phase \in {"walk", "read", "open"}
    /\ \E x \in Extras :
         /\ IsFolder(Front(x[1]))
         /\ tree' \in {[p \in DOMAIN tree \ {x[1]} |-> tree[p]], (x[1] :> x[2]) @@ tree} \ {tree}
    /\ changes' = changes + 1
    /\ UNCHANGED <<project, chosen, op, suggested, adoption, ops>>

FolderInit ==
    /\ tree \in Trees
    /\ project = None /\ chosen = (None :> None) /\ op = NoOp
    /\ suggested = NoSuggestion /\ adoption = NotAdopted /\ ops = 0 /\ changes = 0

FolderNext ==
    \/ \E dir \in Picks : AdoptFolder(dir)
    \/ \E kind \in {"scan", "sources", "search", "summary"} : BeginOp(kind)
    \/ ScanAdopted \/ WalkStep \/ EndWalk \/ ResolveNext \/ ReadNext \/ EndRead \/ EndSummary
    \/ ChooseFolder \/ ComeOrGo

-----------------------------------------------------------------------------
Done(kind) == op.phase = "done" /\ op.for = kind
Calm == op.since = changes /\ ~op.moved

\* What the walk should come to: every file below the root with no denied name
\* on the way, no link, and no folder that cannot be listed.
FilesBelow(root) ==
    {Relative(root, p) : p \in {q \in DOMAIN tree :
        /\ IsPrefix(root, q) /\ IsFile(q) /\ ~AnyDenied(Relative(root, q))
        /\ ~\E d \in Locked : IsPrefix(root, d) /\ IsPrefix(d, q)}}

\* A listing that does not say it was cut holds every file of the folders that
\* can be listed, once each, however deep folders lie before it
\* (workspace.ts:319); what is in one that cannot be listed is missing without a
\* word (workspace.ts:331).  It holds no link that was there all along, and never
\* a denied name, whatever changes.
ListingIsHonest ==
    op.phase \in {"read", "open", "done"} =>
        LET paths == {e.path : e \in ToSet(Files(op))}
        IN /\ Cardinality(paths) = Len(Files(op)) /\ Len(op.entries) <= MaxEntries
           /\ \A p \in paths : ~AnyDenied(p)
           /\ Calm => paths \subseteq FilesBelow(op.root)
           /\ Calm /\ (op.for = "search" => op.phase # "done") =>
                op.truncated \/ paths = FilesBelow(op.root)

\* A folder too deep hides what is in it and nothing else: with room for every
\* entry, all files within the depth are listed, of the folders that can be.
DepthHidesOnlyTheDeep ==
    op.phase \in {"read", "open", "done"} /\ Calm /\ Len(op.entries) < MaxEntries =>
        {f \in FilesBelow(op.root) : Len(f) <= MaxDepth} \subseteq {e.path : e \in ToSet(op.entries)}

Unread == {e \in ToSet(Files(op)) : e.path \in ToSet(op.listed)}

\* The scan accounts for every file of the listing exactly once, also for those
\* that went away or could not be read; what it left unread it had no budget
\* for, and ranks no higher than what it read (session.ts:1440); and a document
\* that states its scope is filed as one, whatever else it holds.
ScanIsHonest ==
    Done("scan") =>
        LET docs == BuildDocScan(op.read, op.listed)
        IN /\ Len(docs) = Len(Files(op)) /\ Len(op.read) <= MaxScanned
           /\ {d.path : d \in ToSet(docs)} = {e.path : e \in ToSet(Files(op))}
           /\ \A e \in Unread, r \in ToSet(op.read) :
                Calm /\ IsReadableDoc(e) /\ ReadWorkspaceFile(op.root, e.path, DefaultRead).ok =>
                    /\ Len(op.read) = MaxScanned
                    /\ NameRank(e.path).score <= NameRank(r.path).score
           /\ \A i \in DOMAIN op.read :
                UNION ToSet(op.read[i].text) \cap DecisiveWords # {} => docs[i].kind = "scope"

\* The documents that look like a policy are read for scope before any other,
\* so a dump of hosts cannot crowd them out of the bound (session.ts:1543).
PolicyIsReadFirst ==
    Done("sources") /\ Calm =>
        \A f \in NotableFiles(op) :
            ReadWorkspaceFile(op.root, f.path, DefaultRead).ok =>
                \/ f.path \in {r.path : r \in ToSet(op.read)}
                \/ Cardinality(NotableFiles(op)) > MaxSources

\* A search that does not say it was cut found every mention in the part of the
\* readable files it may read, and finds nothing that is not there.
SearchIsHonest ==
    Done("search") /\ Calm =>
        LET mentions == {<<e.path, i>> : e \in ToSet(ReadableFiles(op)), i \in 1..DefaultRead}
            real == {m \in mentions :
                LET r == ReadWorkspaceFile(op.root, m[1], DefaultRead)
                IN r.ok /\ m[2] \in DOMAIN r.text /\ "needle" \in r.text[m[2]]}
        IN ToSet(op.listed) \subseteq real /\ (op.truncated \/ ToSet(op.listed) = real)

\* A tool is given text of a file that lies in the folder under a name of its
\* own, by whatever path it asks for, while nothing changes between finding the
\* file and opening it: never one of the names the project keeps for itself, nor,
\* where the folder can be listed, another name of such a file beside it
\* (workspace.ts:179-261).
ReadingIsContained ==
    project # None =>
        \A rel \in Asked :
            LET root == WorkspaceRoot
                r == ReadWorkspaceFile(root, rel, DefaultRead)
            IN r.ok => /\ IsPrefix(root, r.from) /\ ~AnyDenied(Relative(root, r.from))
                       /\ \A q \in DOMAIN tree \ {<<>>} : Front(q) \notin Locked =>
                            (Last(q) \in DeniedNames /\ Front(q) = Front(r.from) =>
                                tree[q].ino # tree[r.from].ino)

\* The number of documents the operator agrees to expose is the number that
\* the folder then exposes (session.ts:1237).
SuggestionIsExact ==
    Done("summary") /\ suggested.root # None =>
        (op.root = suggested.root /\ suggested.since = changes => Len(Files(op)) = suggested.count)

\* After an adoption the folder is the one the operator picked, or the one
\* chosen earlier for that project; and a project that is there and opens is
\* the one in use.
AdoptionIsThePick ==
    op.phase = "adopted" =>
        /\ WorkspaceRoot \in {adoption.dir, adoption.earlier}
        /\ ~adoption.created => project \in adoption.before

\* What a hunt folder is listed, scanned, searched, read and adopted as is what
\* it is (workspace.ts, docScan.ts).
HuntFolderCorrect ==
    /\ ListingIsHonest /\ DepthHidesOnlyTheDeep /\ ScanIsHonest /\ PolicyIsReadFirst
    /\ SearchIsHonest /\ ReadingIsContained /\ SuggestionIsExact /\ AdoptionIsThePick

\* A listing that does not say it was cut holds every file.  It does not hold: a
\* folder that cannot be read is passed over without a word (workspace.ts:331).
CutIsTold ==
    op.phase = "read" /\ Calm /\ ~op.truncated =>
        \A q \in DOMAIN tree :
            IsPrefix(op.root, q) /\ IsFile(q) /\ ~AnyDenied(Relative(op.root, q)) =>
                Relative(op.root, q) \in {e.path : e \in ToSet(Files(op))}

\* What was read lay in the folder it was listed in.  It does not hold: the place
\* is found first and opened by its path after (workspace.ts:391-396), and a link
\* put there in between is followed.
ReadingStaysInside ==
    op.phase \in {"read", "done"} /\ ~op.moved => \A i \in DOMAIN op.read : IsPrefix(op.root, op.read[i].from)

\* A project is created only where there is none yet, as the comment at
\* session.ts:1503 says.  It does not hold: a folder with two projects, or with
\* one that does not open, gets another one.
CreatedMeansNone ==
    adoption.created => adoption.before = {}
=============================================================================
