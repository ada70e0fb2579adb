------------------------------- MODULE MCApi -------------------------------
(* Api for TLC: two crawls, websites in every spelling or one for each way  *)
(* normalizeWebsite takes them, parameters missing, malformed, in and out of *)
(* their range.                                                             *)
EXTENDS Api

CONSTANTS c1, c2, u1, u2

MCOrder == <<u1, u2>>
MCSpellings ==
    {r \in [scheme : {"none", "http", "https", "other"}, host : {"none", "example.com"},
            capitals : BOOLEAN, path : BOOLEAN, nested : BOOLEAN,
            tail : {"none", "fragment"}] :
        /\ r.nested => r.path
        /\ r.host = "none" => ~r.path /\ ~r.capitals /\ r.tail = "none"}
MCRawWebsites == {r \in MCSpellings : r.path = r.nested /\ ~r.capitals /\ r.tail = "none"}
MCLimits == {Missing, NotANumber, 0, 1, MaxLimit + 1}
MCOffsets == {Missing, NotANumber, -1, 1, 2, MaxOffset + 1}
=============================================================================
