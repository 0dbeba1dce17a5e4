-------------------------- MODULE MCRequestDispatch --------------------------
(* RequestDispatch with the paths that tell the entries of the URL map apart, *)
(* the sorted forms of up to four parameters with two keys, all texts of at   *)
(* most two parts for the three keys whose references matter, and all         *)
(* settings the dispatch depends on.                                          *)
EXTENDS RequestDispatch

MCMethods == {"GET", "HEAD", "POST"}
MCPaths == {<<>>, <<"ping">>, <<"ping", "x">>, <<"version">>,
            <<"version", "base">>, <<"version", "x">>, <<"version", "a-b">>,
            <<"id">>, <<"quit">>, <<"context", "x">>}
MCWords == {"ping", "version", "id", "quit", "base", "context", "x"}
MCComponents == {"base"}
MCHosts == {"h1", "h2"}
MCKeys == <<"debug.request_file", "logging.directory", "service.name">>

\* a and b as often as given; every second value is empty.
Form(a, b) == [i \in 1 .. a + b |-> [key |-> IF i <= a THEN "a" ELSE "b",
                                    value |-> IF i % 2 = 0 THEN "" ELSE "v"]]
MCForms == {Form(ab[1], ab[2]) : ab \in {x \in (0 .. 4) \X (0 .. 4) :
                                           x[1] + x[2] <= 4}}

Parts == {Word("strus"), RefTo("service.port")}
         \cup {RefTo(MCKeys[i]) : i \in DOMAIN MCKeys}
Texts == {<<>>} \cup {<<p>> : p \in Parts} \cup {<<p, q>> : p, q \in Parts}

\* config.js.in, as far as it goes here.
Shipped == [k \in ToSet(MCKeys) |->
    CASE k = "debug.request_file" -> <<RefTo("logging.directory"),
                                       Word("requests"), RefTo("service.name")>>
      [] k = "logging.directory" -> <<Word("log")>>
      [] k = "service.name" -> <<Word("strus")>>]

FileWithTexts(t) ==
    [texts |-> t, name |-> NoText, css |-> Undefined,
     enable |-> Defined(TRUE), origins |-> Defined({"h1"}),
     quit |-> Defined(TRUE)]

FilesWithSettings ==
    [texts : {Shipped}, name : {NoText, <<Word("other")>>},
     css : Optional(SUBSET {"link", "include", "file"}),
     enable : Optional(BOOLEAN), origins : Optional(SUBSET {"h1"}),
     quit : Optional(BOOLEAN)]

MCFiles == {FileWithTexts(t) : t \in [ToSet(MCKeys) -> Texts]}
           \cup FilesWithSettings
=============================================================================
