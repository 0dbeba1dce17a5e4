------------------------- MODULE MCDelegateRequests -------------------------
(* Instances of DelegateRequests for TLC. A worker that sends everything to *)
(* other servers shares the counter with the event loop only through what   *)
(* the event loop does; lists with elements without url, and failures to    *)
(* send, let the worker write it too.                                       *)
EXTENDS DelegateRequests

OneUrl == {<<"url">>}
UrlLists == {<<"url">>, <<"url", "url", "url">>}
TwoUrls == {<<"url", "url">>}
PairLists == [1 .. 2 -> Kinds]
\* Lists without a race between a failure to send and an answer: the worker sends
\* but one request, or the event loop thread itself sends.
LateUnreachable == OneUrl \cup PairLists
OneSelf == {<<"self">>}
TwoSelf == {<<"self", "self">>}
=============================================================================
