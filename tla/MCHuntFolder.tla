---------------------------- MODULE MCHuntFolder ----------------------------
EXTENDS HuntFolder

hunt == <<"hunt">>
nested == <<"hunt", "p.tacnocproj">>

Dir == [kind |-> "dir", to |-> None, ino |-> 0, text |-> <<>>]
File(ino, text) == [kind |-> "file", to |-> None, ino |-> ino, text |-> text]
Link(to) == [kind |-> "link", to |-> to, ino |-> 0, text |-> <<>>]
Plain == <<{}>>

MCAlphabet == <<"a", "alias.md", "belcher.db", "deep", "dump.txt", "hunt", "hunt.tacnocproj", "key.md",
                "link.md", "logo.png", "notes.md", "out", "p.tacnocproj", "p.tacnocproj.tacnocproj",
                "policy.md", "secrets.json", "vault", "zz.md">>

InFolder(nodes) == [p \in {hunt \o q : q \in DOMAIN nodes} |-> nodes[Relative(hunt, p)]]

Base == (<<>> :> Dir) @@ (hunt :> Dir) @@ (<<"out">> :> Dir) @@ (<<"out", "notes.md">> :> File(1, Plain))

Project(d, text) == (d :> Dir) @@ (Append(d, "belcher.db") :> File(0, text))

Papers == InFolder(
    (<<"a">> :> Dir) @@ (<<"a", "deep">> :> Dir) @@ (<<"a", "deep", "notes.md">> :> File(2, Plain))
    @@ (<<"a", "dump.txt">> :> File(3, <<{"hosts", "needle"}, {"needle"}, {}>>))
    @@ (<<"key.md">> :> File(4, <<{"key"}>>))
    @@ (<<"link.md">> :> Link(<<"out", "notes.md">>))
    @@ (<<"logo.png">> :> File(5, <<{"nul"}>>))
    @@ (<<"secrets.json">> :> File(6, <<{"needle"}>>)) @@ (<<"alias.md">> :> File(6, <<{"needle"}>>))
    @@ (<<"policy.md">> :> File(7, <<{"rules", "out of scope"}, {"rules"}, {"needle"}>>)))

\* A folder that cannot be listed, with two names of one file.
Vault == InFolder((<<"vault">> :> Dir) @@ (<<"vault", "key.md">> :> File(10, Plain))
                  @@ (<<"vault", "alias.md">> :> File(11, Plain)) @@ (<<"vault", "secrets.json">> :> File(11, Plain)))
MCLocked == {<<"hunt", "vault">>}

MCTrees == {Base @@ Papers,
            Base @@ Papers @@ Project(nested, <<>>),
            Base @@ Project(nested, <<>>) @@ InFolder(<<"notes.md">> :> File(8, <<{"needle"}>>)) @@ Vault,
            Base @@ Project(nested, <<{"broken"}>>) @@ InFolder(<<"notes.md">> :> File(8, Plain)),
            Base @@ Project(nested, <<>>) @@ Project(<<"hunt", "a">>, <<>>),
            Base @@ Project(<<"hunt", "hunt.tacnocproj">>, <<{"broken"}>>)}

MCExtras == {<<<<"hunt", "zz.md">>, File(9, <<{"in scope", "needle"}>>)>>,
             <<<<"hunt", "a", "dump.txt">>, File(3, <<{"hosts"}>>)>>,
             <<<<"hunt", "policy.md">>, Link(<<"out", "notes.md">>)>>}

MCPicks == {hunt, nested}

MCAsked == {<<"policy.md">>, <<"a", "..", "notes.md">>, <<"..", "out", "notes.md">>, <<"link.md">>, <<"alias.md">>,
            <<"secrets.json">>, <<"key.md">>, <<"", "out", "notes.md">>, <<"p.tacnocproj", "belcher.db">>,
            <<"a", "deep", "notes.md">>, <<".">>, <<"missing.md">>,
            <<"vault", "key.md">>, <<"vault", "alias.md">>, <<"vault", "secrets.json">>}

MCNameRules == {<<"policy.md", "engagement", 34>>, <<"notes.md", "notes", 18>>, <<"dump.txt", "recon", 22>>}
MCContentRules == {<<"out of scope", "scope", 60>>, <<"in scope", "scope", 55>>, <<"rules", "engagement", 50>>,
                   <<"hosts", "recon", 28>>}

FolderSpec == FolderInit /\ [][FolderNext]_folderVars
=============================================================================
