---------------------------- MODULE MCResponses ----------------------------
\* An instance of Responses: every header with up to two entries, two origins.
EXTENDS Responses

MCConfigs ==
    [origins : {{}, {"*"}, {"A"}, {"A", "*"}}, credentials : BOOLEAN, compress : BOOLEAN]

File(extension, data, gridData, object) ==
    [extension |-> extension, data |-> data, gridData |-> gridData, object |-> object]

MCFiles ==
    {File(e, d, FALSE, FALSE) : e \in {"pbf", "grid.json"}, d \in {"plain", "gzip", "broken"}}
    \cup {File("png", "plain", FALSE, FALSE), File("png", "gzip", FALSE, FALSE)}
    \cup {File("grid.json", d, TRUE, TRUE) : d \in {"gzip", "broken"}}
    \cup {File("grid.json", "plain", TRUE, FALSE)}

Entries == [coding : Codings, q : {0, 1, 2, Bad}]

MCHeaders ==
    {<<>>} \cup {<<e>> : e \in Entries}
    \cup {<<e, f>> : e \in [coding : {"gzip", "identity"}, q : 0..2], f \in [coding : {"identity", "*"}, q : 0..2]}

Gets ==
    [method : {"GET"}, requests : {"none"}, simpleHeaders : {TRUE}, origin : {NoOrigin, "A", "B"},
     encodings : {h \in MCHeaders : Len(h) = 2 => h[1].coding # h[2].coding}]

Preflights ==
    [method : {"OPTIONS"}, requests : {"GET", "PUT"}, simpleHeaders : BOOLEAN, origin : {"A", "B"},
     encodings : {<<>>}]

MCRequests == Gets \cup Preflights
=============================================================================
