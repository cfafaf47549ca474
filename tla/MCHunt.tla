-------------------------------- MODULE MCHunt --------------------------------
(* A hunt's papers: the folder, the scope proposed out of it, the engagement's *)
(* profile and readiness, and the evidence of a target.  A behavior is of one  *)
(* part; the others stay in one initial state.                                 *)
EXTENDS MCHuntFolder, MCScopeAdoption, Engagement, Evidence

----------------------------------------------------------------------------
(* Profiles, and a project that starts with one of them.                     *)

MCLower == [n \in {"user-agent", "UA", "x-id", "X-Id", "x-team", "host", "accept", "bad name"} |->
                CASE n = "UA" -> "user-agent" [] n = "X-Id" -> "x-id" [] OTHER -> n]

Prof(ua, enforce, headers, ref) == [ua |-> ua, enforce |-> enforce, headers |-> headers, authorization |-> ref]
Id == Header("X-Id", "hunter")
Team == Header("x-team", "red")

MCProfiles ==
    {Blank,
     Prof("bot", TRUE, <<Id>>, TRUE), Prof("bot", FALSE, <<Id>>, FALSE), Prof("", TRUE, <<Team>>, TRUE),
     Prof("bot", TRUE, <<Team, Id>>, TRUE),
     Prof("cr-lf", TRUE, <<Header("host", "evil"), Header("x-team", "cr-lf"), Team, Id, Header("x-id", "two")>>, TRUE)}

MCRequests ==
    {<<Header("host", "t"), Header("UA", "mine"), Header("accept", "a")>>,
     <<Header("x-id", "old"), Header("host", "t"), Header("X-Id", "older"), Header("accept", "a"), Header("accept", "b")>>}

Start(prof, c) ==
    [profile |-> [p \in Projects |-> IF p = "p" THEN prof ELSE Prof("", FALSE, <<>>, TRUE)],
     included |-> {"p"}, ca |-> [p \in Projects |-> IF p = "p" THEN c ELSE "valid"]]

\* The other profiles are reached by an edit.
MCStarts == {Start(prof, "valid") : prof \in {q \in MCProfiles : q.ua = "cr-lf" \/ q = Blank \/ q.headers = <<Team, Id>>}}
            \cup {Start(Blank, "expired")}

----------------------------------------------------------------------------
(* Two histories of three hosts.                                             *)

Captured(id, host, path) == [id |-> id, host |-> host, path |-> path]
MCHeld1 == <<Captured("e1", "xt", "/"), Captured("e2", "t", "/api"), Captured("e3", "T.", "/"), Captured("e4", "t", "/")>>
MCHeld2 == <<Captured("e2", "t", "/api"), Captured("e5", "xt", "/"), Captured("e6", "xt", "/")>>
MCHistories == {[p \in Stores |-> IF p = "p" THEN MCHeld1 ELSE h] : h \in {MCHeld2, <<>>}}
MCCanonicalOf == [h \in {"t", "T.", "xt"} |-> IF h = "T." THEN "t" ELSE h]
MCLowerCase == [h \in {"t", "T.", "xt"} |-> IF h = "T." THEN "t." ELSE h]
MCLike == {<<h, w>> \in {"t", "T.", "xt"} \X {"t", "xt"} : w = "t" \/ h = "xt"}
MCRuleSets == {{}, {<<"t", "/api">>}, {<<"xt", "any">>}}

----------------------------------------------------------------------------

VARIABLE part

huntAll == <<folderVars, scopeAdoptionVars, engagementVars, evidenceVars, part>>

OneTree == CHOOSE t \in Trees : TRUE
OneStart == Start(Blank, "valid")
OneHistory == CHOOSE h \in Histories : TRUE

HuntInit ==
    /\ part \in {"folder", "scope", "engagement", "evidence"}
    /\ FolderInit /\ ScopeAdoptionInit /\ EngagementInit /\ EvidenceInit
    /\ part # "folder" => tree = OneTree
    /\ part # "scope" => docs = [f \in Folders |-> <<>>] /\ root = "hunt"
    /\ part # "engagement" => profile = OneStart.profile /\ included = OneStart.included /\ ca = OneStart.ca
    /\ part # "evidence" => held = OneHistory /\ open = "p" /\ rules = [s \in Stores |-> {}]

FolderStep == part = "folder" /\ FolderNext /\ UNCHANGED <<scopeAdoptionVars, engagementVars, evidenceVars, part>>
ScopeStep == part = "scope" /\ ScopeAdoptionNext /\ UNCHANGED <<folderVars, engagementVars, evidenceVars, part>>
EngagementStep == part = "engagement" /\ EngagementNext /\ UNCHANGED <<folderVars, scopeAdoptionVars, evidenceVars, part>>
EvidenceStep == part = "evidence" /\ EvidenceNext /\ UNCHANGED <<folderVars, scopeAdoptionVars, engagementVars, part>>

HuntSpec == HuntInit /\ [][FolderStep \/ ScopeStep \/ EngagementStep \/ EvidenceStep]_huntAll

\* What a hunt folder is listed, scanned, searched, read and adopted as is what
\* it is (session.ts:1201-1600, workspace.ts, docScan.ts); and the scope read out
\* of it keeps what its documents exclude off the card (scopeProposal.ts:316).
PapersPart == /\ part = "folder" => HuntFolderCorrect
              /\ part = "scope" => ProposalKeepsExclusions
===============================================================================
