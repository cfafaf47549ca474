--------------------------- MODULE MCScopeAdoption ---------------------------
EXTENDS ScopeAdoption

api == <<"api", "t">>
corp == <<"corp", "t">>
anyT == <<"*", "t">>
anyCorp == <<"*", "corp", "t">>
readme == <<"readme", "md">>
MCNoise == {readme}

Line(says, hosts) == [heading |-> FALSE, says |-> says, hosts |-> hosts]
Title(says) == [heading |-> TRUE, says |-> says, hosts |-> <<>>]

MCPolicy == <<Title({"in"}), Line({}, <<anyT, api>>), Title({}), Line({}, <<corp>>),
              Title({"in", "out"}), Line({}, <<anyCorp>>), Line({"in"}, <<readme, corp>>)>>
MCRecon == <<Line({}, <<api, corp>>), Line({}, <<anyT, anyCorp>>)>>
MCNotes(says) == <<Line(says, <<corp>>), Line({"in"}, <<api>>), Line({"out"}, <<anyCorp>>)>>

MCDocuments ==
    {[f \in {"hunt", "project"} |-> IF f = "hunt" THEN sources ELSE <<>>] :
        sources \in {<<MCPolicy>>, <<MCRecon, MCPolicy>>,
                     <<MCPolicy, MCNotes({"out"})>>, <<MCRecon, MCNotes({"in"})>>,
                     <<MCNotes({"out"}), MCPolicy>>, <<>>}}

MCTargets == [host : {api, corp, <<"t">>, <<"a", "api", "t">>, <<"x", "corp", "t">>,
                      <<"y", "x", "corp", "t">>}, port : {443}]

Hand(match, host, ports) == [enabled |-> TRUE, hostMatch |-> match, host |-> host, ports |-> ports]
MCHandRules == {Hand("subdomain", <<"t">>, {}), Hand("exact", corp, {8443})}
=============================================================================
