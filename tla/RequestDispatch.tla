--------------------------- MODULE RequestDispatch ---------------------------
(***************************************************************************)
(* The start of the service with its configuration, then one HTTP request  *)
(* on its way through ApplicationImpl: the URL map that selects the        *)
(* handler, the checks of CORS origin and method in front of the           *)
(* administrative commands, the checks exec_request makes before it        *)
(* executes a content request, the content made of URL parameters, and     *)
(* what is written to the response, by the handler or by whom it leaves    *)
(* the response to. How content requests wait for each other is the        *)
(* subject of RequestExecution, how delegate requests are sent and         *)
(* answered that of DelegateRequests; here an execution is one step with   *)
(* any result, and so is what follows for a delegated or waiting request.  *)
(***************************************************************************)
EXTENDS Configuration

CONSTANTS
    Methods,        \* HTTP methods
    Paths,          \* URL paths, as sequences of segments
    Words,          \* segments that match \w+
    Components,     \* components exec_version knows
    Hosts,          \* origins, in requests and in the configuration
    Forms,          \* URL parameters, as sequences sorted by key
    Files           \* configuration files

ASSUME PathAssumption == Paths \subseteq Seq(STRING) /\ Components \subseteq Words

\* Equal keys are next to each other: the form is a sorted multimap.
ASSUME FormAssumption ==
    \A form \in Forms :
        /\ form \in Seq([key : STRING, value : STRING])
        /\ \A i, k \in DOMAIN form : form[i].key = form[k].key =>
             \A j \in i .. k : form[j].key = form[i].key

\* What JSON allows for the settings of the dispatch, and the values that may
\* have references as configFromFile reads them.
ASSUME FileAssumption ==
    \A f \in Files : /\ f.texts \in [ToSet(Keys) ->
                                         Seq([ref : BOOLEAN, word : STRING])]
                     /\ f.enable \in Optional(BOOLEAN)
                     /\ f.origins \in Optional(SUBSET Hosts)
                     /\ f.quit \in Optional(BOOLEAN)

NoOrigin == "none"
Origins == Hosts \cup {NoOrigin}

Requests == [method : Methods, path : Paths, origin : Origins, form : Forms,
             post : BOOLEAN]
NoRequest == "no request"
NoFile == "no file"

\* What the request handler (a library) may answer. A content header can be
\* too long for the buffer it is put together in.
Answers ==
    [status : {200}, error : {FALSE}, message : BOOLEAN,
     content : {"none", "short", "long"}]
    \cup [status : {404, 503}, error : {TRUE}, message : {FALSE},
          content : {"none"}]

VARIABLES
    file,       \* the configuration file, while the service starts
    texts,      \* the strings of the configuration, while it starts
    conf,       \* what the service has read from the configuration
    req,        \* the request: method, path, origin, URL parameters, whether
                \* it has a body
    pc,         \* where main, or the handler, is
    handler,    \* the handler the URL map selects
    status,     \* status of the response
    cors,       \* the response has the CORS headers
    out,        \* what was done to the response so far
    released,   \* whom release_context left the response to
    ran,        \* the content the request context was executed with
    content,    \* the members of the content, if made of URL parameters
    shutdown    \* ServiceClosure::shutdown was called

vars == <<file, texts, conf, req, pc, handler, status, cors, out, released,
          ran, content, shutdown>>

\* What json_value_encode makes of a value.
EncodedValues == {"", "undefined"}

\* What can be done to a response.
Steps == {"text", "message", "content", "final"}

Statuses == {200, 400, 404, 405, 500, 503}

Handlers == {"ping", "version0", "version", "id", "quit", "request"}

Received == pc \notin {"start", "name", "init", "failed", "listening"}

\* The delegate requests, the list of waiting requests, or nobody.
Holders == {"no", "delegated", "waiting", "lost"}

TypeOK ==
    /\ conf \in [cors : BOOLEAN, hosts : SUBSET Hosts, quit : BOOLEAN]
    /\ Received => req \in Requests
    /\ pc \in {"start", "name", "init", "failed", "listening", "dispatch",
               "preflight", "method", "act", "shutdown", "halted", "create",
               "content", "run", "after", "delegated", "waiting", "done"}
    /\ handler \in Handlers
    /\ status \in Statuses
    /\ cors \in BOOLEAN
    /\ out \in Seq(Steps)
    /\ released \in Holders
    /\ ran \in {"no", "empty", "params", "body"}
    /\ content \in Seq([key : STRING, values : Seq(EncodedValues)])
    /\ shutdown \in BOOLEAN

Init ==
    /\ file \in Files
    /\ texts = file.texts
    /\ conf = [cors |-> FALSE, hosts |-> {}, quit |-> FALSE]
    /\ req = NoRequest
    /\ pc = "start"
    /\ handler = "request"
    /\ status = 200
    /\ cors = FALSE
    /\ out = <<>>
    /\ released = "no"
    /\ ran = "no"
    /\ content = <<>>
    /\ shutdown = FALSE

start == <<file, texts, conf>>
request == <<start, req, handler>>
response == <<handler, status, cors, out, released, ran, content, shutdown>>

----------------------------------------------------------------------------
(* The start of the service *)

ReadConfiguration ==
    /\ pc = "start"
    /\ texts' = SubstConfig(texts)
    /\ pc' = "name"
    /\ UNCHANGED <<file, conf, req, response>>

NameService ==
    /\ pc = "name"
    /\ texts' = SetServiceName(texts, file.name)
    /\ pc' = "init"
    /\ UNCHANGED <<file, conf, req, response>>

\* ServiceClosure::init; when it throws the process ends. Once it is through the
\* file is not looked at any more.
InitService ==
    /\ pc = "init"
    /\ \/ /\ HtmlRefused(file.css) \/ HtmlUnreadable(file.css)
          /\ pc' = "failed"
          /\ UNCHANGED start
       \/ /\ ~HtmlRefused(file.css)
          /\ pc' = "listening"
          /\ conf' = Settings(file)
          /\ file' = NoFile /\ texts' = NoFile
    /\ UNCHANGED <<req, response>>

ReceiveRequest ==
    /\ pc = "listening"
    /\ req' \in Requests
    /\ pc' = "dispatch"
    /\ UNCHANGED <<start, response>>

----------------------------------------------------------------------------
(* The URL map *)

\* An entry matches dir followed by nn words; with more, the last of them may
\* be any rest of the path.
Entry(dir, nn, more, h) ==
    [dir |-> dir, words |-> IF more THEN nn - 1 ELSE nn, more |-> more,
     handler |-> h]

Matches(e, path) ==
    LET rest == Len(path) - Len(e.dir) IN
    /\ IsPrefix(e.dir, path)
    /\ IF e.more THEN rest >= e.words ELSE rest = e.words
    /\ \A i \in 1 .. e.words : path[Len(e.dir) + i] \in Words

AdminMap ==
    << Entry(<<"ping">>, 0, FALSE, "ping"),
       Entry(<<"version">>, 0, FALSE, "version0"),
       Entry(<<"version">>, 1, FALSE, "version"),
       Entry(<<"id">>, 0, FALSE, "id") >>

QuitMap == IF conf.quit THEN << Entry(<<"quit">>, 0, FALSE, "quit") >> ELSE <<>>

RequestMap == << Entry(<<>>, 1, TRUE, "request") >>

\* Wrong variant: the map of content requests in front.
UrlMapRequestFirst == RequestMap \o AdminMap \o QuitMap

UrlMap == AdminMap \o QuitMap \o RequestMap

\* The dispatcher calls the handler of the first entry that matches.
Dispatch ==
    /\ pc = "dispatch"
    /\ LET first == SelectInSeq(UrlMap, LAMBDA e : Matches(e, req.path)) IN
       handler' = UrlMap[first].handler
    /\ pc' = (IF handler' = "request" THEN "halted" ELSE "preflight")
    /\ UNCHANGED <<start, req, status, cors, out, released, ran, content, shutdown>>

----------------------------------------------------------------------------
(* What RequestContextImpl does to the response *)

ReportError(s) ==
    /\ status' = s
    /\ out' = out \o <<"text", "final">>

\* The content of an answer: a header that does not fit is reported as an error,
\* but the content follows nevertheless.
Content(a, withContent) ==
    IF ~withContent \/ a.content = "none" THEN <<>>
    ELSE IF a.content = "short" THEN <<"content">>
    ELSE <<"text", "final", "content">>

\* Wrong variant: the status of the answer is set last.
ReportAnswerStatusLast(a, withContent) ==
    IF a.error THEN ReportError(200)
    ELSE /\ status' = a.status
         /\ out' = out \o Content(a, withContent) \o <<"final">>

\* Wrong variant: the content goes out in any case.
ReportAnswerAlways(a, withContent) ==
    /\ status' = a.status
    /\ out' = out \o Content(a, TRUE) \o <<"final">>

ReportAnswer(a, withContent) ==
    IF a.error
    THEN /\ status' = a.status
         /\ out' = out \o <<"text", "final", "final">>
    ELSE IF a.message
    THEN /\ status' = a.status
         /\ out' = out \o <<"message", "final">>
    ELSE LET c == Content(a, withContent) IN
         /\ status' = (IF "text" \in ToSet(c) THEN 500 ELSE a.status)
         /\ out' = out \o c \o <<"final">>

Done == pc' = "done"

\* CATCH_EXEC_ERROR.
CatchExecError == ReportError(500) /\ Done

----------------------------------------------------------------------------
(* The administrative commands *)

OriginRefused == conf.cors /\ req.origin \notin conf.hosts \cup {NoOrigin}

\* Nothing is written for an origin that is not in the list.
Preflight ==
    /\ pc = "preflight"
    /\ IF OriginRefused
       THEN Done /\ UNCHANGED cors
       ELSE pc' = "method" /\ cors' = (conf.cors /\ req.origin # NoOrigin)
    /\ UNCHANGED <<request, status, out, released, ran, content, shutdown>>

CheckMethodOr(reject) ==
    /\ pc = "method"
    /\ IF req.method = "GET"
       THEN pc' = "act" /\ UNCHANGED <<status, out>>
       ELSE reject /\ Done
    /\ UNCHANGED <<request, cors, released, ran, content, shutdown>>

\* Wrong variants: the method is rejected without a word; the two codes of the
\* report are swapped.
CheckMethodSilent == CheckMethodOr(UNCHANGED <<status, out>>)
CheckMethodSwapped == CheckMethodOr(ReportError(0))

CheckRequestMethod == CheckMethodOr(ReportError(405))

\* ping, version and id: the request handler wraps the message up; a component
\* without version leads to an exception.
ReportMessage ==
    /\ pc = "act" /\ handler # "quit"
    /\ \/ /\ handler = "version" /\ req.path[2] \notin Components
          /\ CatchExecError
       \/ /\ handler = "version" => req.path[2] \in Components
          /\ \E a \in Answers : ReportAnswer(a, TRUE)
          /\ Done
    /\ UNCHANGED <<request, cors, released, ran, content, shutdown>>

\* Wrong variant: the service is shut down first.
QuitFirst ==
    /\ pc = "act" /\ handler = "quit"
    /\ shutdown' = TRUE
    /\ pc' = "shutdown"
    /\ UNCHANGED <<request, status, out, cors, released, ran, content>>

\* report_ok, before the service goes down.
ReportQuit ==
    /\ pc = "act" /\ handler = "quit"
    /\ status' = 200
    /\ out' = Append(out, "final")
    /\ pc' = "shutdown"
    /\ UNCHANGED <<request, cors, released, ran, content, shutdown>>

Shutdown ==
    /\ pc = "shutdown"
    /\ shutdown' = TRUE
    /\ \/ Done /\ UNCHANGED <<status, out>>
       \/ CatchExecError
    /\ UNCHANGED <<request, cors, released, ran, content>>

----------------------------------------------------------------------------
(* exec_request and the paths of runRequest *)

\* report_temporal_reject.
TestHalted ==
    /\ pc = "halted"
    /\ \/ pc' = "create" /\ UNCHANGED <<status, out>>
       \/ ReportError(503) /\ Done
    /\ UNCHANGED <<request, cors, released, ran, content, shutdown>>

\* The request handler may refuse method and path.
CreateContext ==
    /\ pc = "create"
    /\ \/ pc' = "content" /\ UNCHANGED <<status, out>>
       \/ ReportError(404) /\ Done
       \/ CatchExecError
    /\ UNCHANGED <<request, cors, released, ran, content, shutdown>>

HasParams == req.form # <<>>

\* json_value_encode copies characters from behind the value instead of its own.
EncodedValue(value) == IF value = "" THEN "" ELSE "undefined"

\* The last of the parameters that have the key of the one at i.
LastOfKey(form, i) ==
    Max({j \in i .. Len(form) : \A n \in i .. j : form[n].key = form[i].key})

Member(form, i, last) ==
    [key    |-> form[i].key,
     values |-> [n \in 1 .. last - i + 1 |-> EncodedValue(form[i + n - 1].value)]]

\* Wrong variant: the iterator is not put back to the last one of a list.
FormToJsonSkips(form) ==
    LET members[i \in 1 .. Len(form) + 2] ==
            IF i > Len(form) THEN <<>>
            ELSE LET last == LastOfKey(form, i) IN
                 <<Member(form, i, last)>>
                 \o members[IF last > i THEN last + 2 ELSE last + 1]
    IN members[1]

\* form_tojson: equal keys are next to each other and become one list.
FormToJson(form) ==
    LET members[i \in 1 .. Len(form) + 1] ==
            IF i > Len(form) THEN <<>>
            ELSE LET last == LastOfKey(form, i) IN
                 <<Member(form, i, last)>> \o members[last + 1]
    IN members[1]

\* The content is the body, or else the URL parameters as JSON. Encoding them
\* may throw.
InitContent ==
    /\ pc = "content"
    /\ \/ /\ req.post /\ HasParams
          /\ ReportError(400) /\ Done /\ UNCHANGED <<ran, content>>
       \/ CatchExecError /\ UNCHANGED <<ran, content>>
       \/ /\ ~(req.post /\ HasParams)
          /\ pc' = "run"
          /\ ran' = (CASE req.post -> "body" [] HasParams -> "params"
                       [] OTHER -> "empty")
          /\ content' = FormToJson(req.form)
          /\ UNCHANGED <<status, out>>
    /\ UNCHANGED <<request, cors, released, shutdown>>

DoReplyContent == req.method # "HEAD"

\* The http context is handed over, to be answered later, or to nobody.
Release(holder) ==
    /\ released' = holder
    /\ UNCHANGED <<status, out>>

\* execute returns true: reply, or leave the response to delegate requests.
ExecuteSucceeds ==
    /\ pc = "run"
    /\ \/ /\ \E a \in Answers : ReportAnswer(a, DoReplyContent)
          /\ pc' = "after"
          /\ UNCHANGED released
       \/ Release("delegated") /\ pc' = "delegated"
    /\ UNCHANGED <<request, cors, ran, content, shutdown>>

\* execute returns false: an error, a temporal reject, or the need for exclusive
\* access, which a HEAD request does not get.
ExecuteRefuses ==
    /\ pc = "run"
    /\ \/ /\ \/ \E s \in {404, 503} : ReportError(s)
             \/ ~DoReplyContent /\ ReportError(405)
          /\ pc' = "after"
          /\ UNCHANGED released
       \/ DoReplyContent /\ Release("waiting") /\ pc' = "waiting"
    /\ UNCHANGED <<request, cors, ran, content, shutdown>>

\* An exception before the reply, or behind release_context, where no context is
\* left for CATCH_EXEC_ERROR to report with.
ExecuteThrows ==
    /\ pc = "run"
    /\ \/ CatchExecError /\ UNCHANGED released
       \/ Release("lost") /\ Done
    /\ UNCHANGED <<request, cors, ran, content, shutdown>>

\* doneRunRequest and processWaitingRequests behind the reply; what throws there
\* is reported to a client that has got its answer.
AfterReply ==
    /\ pc = "after"
    /\ \/ Done /\ UNCHANGED <<status, out>>
       \/ CatchExecError
    /\ UNCHANGED <<request, cors, released, ran, content, shutdown>>

\* The last delegate request is answered or one fails: the answer of the request
\* context goes out with content, whatever the method, or an error. An exception
\* on the way leaves the response as it is.
CompleteDelegated ==
    /\ pc = "delegated"
    /\ Done
    /\ \/ /\ \/ \E a \in Answers : ReportAnswer(a, TRUE)
             \/ \E s \in {404, 500, 503} : ReportError(s)
          /\ UNCHANGED released
       \/ Release("lost")
    /\ UNCHANGED <<request, cors, ran, content, shutdown>>

\* processWaitingRequests executes the request again; delegate requests are an
\* error there.
ProcessWaiting ==
    /\ pc = "waiting"
    /\ Done
    /\ \/ \E a \in Answers : ReportAnswer(a, TRUE)
       \/ \E s \in {404, 500, 503} : ReportError(s)
    /\ UNCHANGED <<request, cors, released, ran, content, shutdown>>

Next ==
    \/ ReadConfiguration \/ NameService \/ InitService \/ ReceiveRequest
    \/ Dispatch \/ Preflight \/ CheckRequestMethod \/ ReportMessage
    \/ ReportQuit \/ Shutdown
    \/ TestHalted \/ CreateContext \/ InitContent
    \/ ExecuteSucceeds \/ ExecuteRefuses \/ ExecuteThrows
    \/ AfterReply \/ CompleteDelegated \/ ProcessWaiting

Spec == Init /\ [][Next]_vars

----------------------------------------------------------------------------
(* Properties *)

Final == "final" \in ToSet(out)

\* A request that is through has got a response, with two exceptions: one from
\* an origin that is not allowed, dropped before an administrative command, and
\* one that was executed and released when an exception came, which
\* CATCH_EXEC_ERROR has no context to report with. Nothing at all was written
\* for those: no response is left half written.
NoRequestForgotten ==
    pc = "done" =>
        /\ Final <=> /\ released # "lost"
                     /\ ~(OriginRefused /\ handler # "request")
        /\ released = "lost" => ran # "no"
        /\ ~Final => out = <<>>

\* The service goes down only for a GET of /quit, if that is enabled and the
\* origin allowed, and the client has got its "service to shutdown" by then.
ShutdownAnswered ==
    shutdown => /\ conf.quit /\ req.path = <<"quit">> /\ req.method = "GET"
                /\ conf.cors => req.origin \in conf.hosts \cup {NoOrigin}
                /\ out # <<>> /\ out[1] = "final"

\* An error text never goes out under a status of success, and a success is
\* never announced for a request that was not executed.
ErrorsAreErrors ==
    /\ "text" \in ToSet(out) => status >= 400
    /\ handler = "request" /\ Final /\ status = 200 => ran # "no"

\* What HEAD gets is what GET gets, without content, and a HEAD request never
\* waits for exclusive access. The one HEAD request that gets content is the one
\* answered by delegate requests: completeResponse and handleFailure reply with
\* content and do not know the method.
HeadWithoutContent ==
    Received /\ req.method = "HEAD" =>
        /\ released # "waiting"
        /\ "content" \in ToSet(out) => released = "delegated"

\* The administrative paths, those of the versions of single components among
\* them, never get to the request handler as content requests, and a request is
\* executed with one source of content.
ReservedPaths ==
    ran # "no" => /\ req.path \notin {<<"ping">>, <<"version">>, <<"id">>}
                  /\ req.path \notin {<<"version", w>> : w \in Words}
                  /\ req.path = <<"quit">> => ~conf.quit
                  /\ HasParams => ran = "params"

\* The service replaces the references of its configuration (configUtils.cpp:97)
\* exactly as a reader of the file expects, unless a key refers to itself or to
\* a later key with references: then braces are left, in every text that gets
\* them, in the names of files too. The name of the option -N comes afterwards:
\* it replaces service.name alone, and what refers to service.name keeps the
\* name of the file.
ReferencesResolved ==
    /\ pc = "name" /\ RefersForward(file.texts) =>
         \E k \in DOMAIN texts : References(texts[k]) # {}
    /\ pc \in {"name", "init"} /\ ~RefersForward(file.texts) =>
         LET expected == Expansion(file.texts) IN
         texts = IF pc = "name" THEN expected
                 ELSE SetServiceName(expected, file.name)

\* The content made of URL parameters has every key once, in the order of the
\* keys, with as many values as the request has for it, empty ones empty:
\* nothing is lost at the end of a list of equal keys.
ParamsByKey ==
    ran = "params" =>
        LET Mine(i) == {n \in DOMAIN req.form :
                          req.form[n].key = content[i].key} IN
        /\ {content[i].key : i \in DOMAIN content}
             = {req.form[n].key : n \in DOMAIN req.form}
        /\ \A i, j \in DOMAIN content : i < j =>
             \A m \in Mine(i), n \in Mine(j) : m < n
        /\ \A i \in DOMAIN content :
             /\ Len(content[i].values) = Cardinality(Mine(i))
             /\ \A n \in Mine(i) :
                  LET nth == Cardinality({m \in Mine(i) : m <= n}) IN
                  req.form[n].value = "" <=> content[i].values[nth] = ""
=============================================================================
