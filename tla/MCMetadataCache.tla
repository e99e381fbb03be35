-------------------------- MODULE MCMetadataCache --------------------------
\* An instance of MetadataCache: two requests, a cache of two, three base URLs
\* and more, and a source whose identifier ends in the suffix of another's.
EXTENDS MetadataCache

CONSTANTS r1, r2

MCRequests == {r1, r2}

MCSources ==
    <<"town">> :> [extension |-> "pbf", hasUTFGrid |-> TRUE]
    @@ <<"town", "json">> :> [extension |-> "png", hasUTFGrid |-> FALSE]

Example == <<"maps", "example">>
Host(labels, port) == <<labels, port>>

BasePaths == {<<Empty>>, <<Empty, Empty>>, <<<<"maps">>>>, <<Empty, <<"a">>, <<"b">>, Empty>>,
              <<Empty, <<"a">>, Empty, <<"b">>>>, <<Empty, Empty, Empty>>, <<<<"", "", "">>>>}

PublicURLs ==
    {NoURL} \cup [scheme : {"https"}, host : {Host(<<"cdn">>, "")},
                  path : {<<>>, <<Empty>>, <<<<"edge">>, Empty>>}]

MCConfigs ==
    [hosts : {{<<"*">>}, {Example}, {<<"*", "example">>}}, trustProxy : BOOLEAN, metrics : {TRUE},
     basePath : {<<Empty>>, <<Empty, <<"a">>, Empty>>}, publicURL : {NoURL}]
    \cup [hosts : {{Example}}, trustProxy : {FALSE}, metrics : {FALSE},
          basePath : BasePaths, publicURL : PublicURLs]

Hosts == {Host(Example, ""), Host(Example, "8080"), Host(<<"example">>, ""), Host(<<>>, "")}

Paths == {<<Empty>>, <<<<"a">>>>, <<<<"a">>, Empty>>, <<<<"a">>, <<"data", "json">>>>,
          <<<<"maps">>, <<"wmts">>>>, <<<<"a">>, <<"b">>, <<"index", "json">>>>,
          <<<<"data">>, <<"town", "json">>>>, <<<<"data">>, <<"town", "json", "json">>>>,
          <<<<"data">>, <<"town">>, <<"wmts", "xml">>>>, <<<<"data">>, <<"city", "json">>>>,
          <<<<"data">>, <<"json">>>>}

Question(host, forwarded, proto, path) ==
    [host |-> host, forwarded |-> forwarded, proto |-> proto, path |-> path]

MCQuestions ==
    {Question(Host(Example, ""), <<>>, "", p) : p \in Paths}
    \cup {Question(h, <<>>, "", <<Empty>>) : h \in Hosts}
    \cup {Question(Host(Example, ""), f, "https", <<<<"a">>, Empty>>) :
            f \in {Host(Example, "8080"), Host(<<"other">>, "")}}
    \cup {Question(Host(Example, ""), <<>>, "ftp", <<<<"a">>>>)}

Symmetry == Permutations(MCRequests)
=============================================================================
