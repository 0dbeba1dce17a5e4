----------------------- MODULE RequestDispatch_proofs -----------------------
(***************************************************************************)
(* Proofs about RequestDispatch, for any methods, paths, words, origins,   *)
(* configuration files and URL parameters.                                 *)
(*                                                                         *)
(* Four groups of lemmas say what the operators do: where the URL map      *)
(* leads a path (DispatchRoutes), what a response looks like after each    *)
(* way of writing it (ErrorIsAnswered, AnswerIsAnswered), what             *)
(* form_tojson makes of URL parameters (FormToJsonIsGood, by induction     *)
(* over their number), and what one pass over the configuration leaves of  *)
(* its references (ForwardIsLeft, BackwardIsExpanded, by induction over    *)
(* the keys). The inductive invariant then only has to say where the       *)
(* request is (Position), why it got there (Routing, Checked), with what   *)
(* content (Execution) and how it ended (Outcome).                         *)
(***************************************************************************)
EXTENDS RequestDispatch, FiniteSetTheorems, SequenceTheorems, TLAPS

----------------------------------------------------------------------------
(* Induction *)

\* A nonempty set of natural numbers has a least element: the order is well
\* founded. All inductions of this module go through it.
LEMMA LeastNatural ==
    ASSUME NEW S \in SUBSET Nat, S # {}
    PROVE  \E n \in S : \A m \in S : n <= m
<1> DEFINE R == OpToRel(<, Nat)
<1>1. IsWellFoundedOn(R, Nat)
    BY NatLessThanWellFounded
<1>2. PICK n \in S : \A m \in S : ~ (<<m, n>> \in R)
    <2> HIDE DEF R
    <2> QED BY <1>1, WFMin
<1>3. ASSUME NEW m \in S, m < n PROVE FALSE
    <2>1. <<m, n>> \in Nat \X Nat OBVIOUS
    <2>2. <<m, n>>[1] < <<m, n>>[2] BY <1>3
    <2>3. <<m, n>> \in {ss \in Nat \X Nat : ss[1] < ss[2]} BY <2>1, <2>2
    <2>4. R = {ss \in Nat \X Nat : ss[1] < ss[2]} BY DEF OpToRel
    <2> QED BY <1>2, <2>3, <2>4
<1> QED BY <1>3

\* Min, by which SelectInSeq finds the first match, is the least element.
LEMMA LeastIsMin ==
    ASSUME NEW S \in SUBSET Nat, S # {}
    PROVE  Min(S) \in S /\ \A n \in S : Min(S) <= n
BY LeastNatural DEF Min

----------------------------------------------------------------------------
(* The URL map *)

\* A sequence of one element.
LEMMA Single ==
    ASSUME NEW S, NEW x \in S
    PROVE  <<x>> \in Seq(S) /\ Len(<<x>>) = 1 /\ <<x>>[1] = x
OBVIOUS

\* r is s followed by t.
IsConcat(S, r, s, t) ==
    /\ r \in Seq(S)
    /\ Len(r) = Len(s) + Len(t)
    /\ \A i \in 1 .. Len(s) : r[i] = s[i]
    /\ \A i \in 1 .. Len(t) : r[Len(s) + i] = t[i]

\* What the concatenation of two sequences consists of.
LEMMA ConcatParts ==
    ASSUME NEW S, NEW s \in Seq(S), NEW t \in Seq(S)
    PROVE  IsConcat(S, s \o t, s, t)
BY DEF IsConcat

\* The sequence s has exactly these five elements.
IsFive(s, a, b, c, d, e) ==
    /\ Len(s) = 5
    /\ s[1] = a /\ s[2] = b /\ s[3] = c /\ s[4] = d
    /\ s[5] = e

\* The entries of the URL map without quit, one by one.
LEMMA FiveEntries ==
    ASSUME NEW a, NEW b, NEW c, NEW d, NEW e
    PROVE  IsFive(<<a, b, c, d>> \o <<>> \o <<e>>, a, b, c, d, e)
<1> DEFINE S == {a, b, c, d, e}
           t == <<a, b, c, d>>
           u == <<>>
           v == <<e>>
           w == t \o u
           x == w \o v
<1>1. t \in Seq(S) /\ u \in Seq(S) /\ v \in Seq(S)
    OBVIOUS
<1>2. Len(t) = 4 /\ Len(u) = 0 /\ Len(v) = 1
    OBVIOUS
<1>3. /\ t[1] = a /\ t[2] = b /\ t[3] = c /\ t[4] = d
      /\ v[1] = e
    OBVIOUS
<1> HIDE DEF S, t, u, v, w, x
<1>4. IsConcat(S, w, t, u)
    BY <1>1, ConcatParts DEF w
<1>5. w \in Seq(S)
    BY <1>4 DEF IsConcat
<1>6. IsConcat(S, x, w, v)
    BY <1>1, <1>5, ConcatParts DEF x
<1>7. Len(w) = 4
    BY <1>2, <1>4 DEF IsConcat
<1>8. w[1] = a /\ w[2] = b /\ w[3] = c /\ w[4] = d
    BY <1>2, <1>3, <1>4 DEF IsConcat
<1>9. Len(x) = 5
    BY <1>2, <1>6, <1>7 DEF IsConcat
<1>10. /\ x[1] = a /\ x[2] = b /\ x[3] = c /\ x[4] = d
       /\ x[5] = e
    BY <1>2, <1>3, <1>6, <1>7, <1>8 DEF IsConcat
<1>11. IsFive(x, a, b, c, d, e)
    BY <1>9, <1>10 DEF IsFive
<1> QED BY <1>11 DEF t, u, v, w, x

\* The sequence s has exactly these six elements.
IsSix(s, a, b, c, d, e, f) ==
    /\ Len(s) = 6
    /\ s[1] = a /\ s[2] = b /\ s[3] = c /\ s[4] = d
    /\ s[5] = e /\ s[6] = f

\* The entries of the URL map with quit, one by one.
LEMMA SixEntries ==
    ASSUME NEW a, NEW b, NEW c, NEW d, NEW e, NEW f
    PROVE  IsSix(<<a, b, c, d>> \o <<e>> \o <<f>>, a, b, c, d, e, f)
<1> DEFINE S == {a, b, c, d, e, f}
           t == <<a, b, c, d>>
           u == <<e>>
           v == <<f>>
           w == t \o u
           x == w \o v
<1>1. t \in Seq(S) /\ u \in Seq(S) /\ v \in Seq(S)
    OBVIOUS
<1>2. Len(t) = 4 /\ Len(u) = 1 /\ Len(v) = 1
    OBVIOUS
<1>3. /\ t[1] = a /\ t[2] = b /\ t[3] = c /\ t[4] = d
      /\ u[1] = e /\ v[1] = f
    OBVIOUS
<1> HIDE DEF S, t, u, v, w, x
<1>4. IsConcat(S, w, t, u)
    BY <1>1, ConcatParts DEF w
<1>5. w \in Seq(S)
    BY <1>4 DEF IsConcat
<1>6. IsConcat(S, x, w, v)
    BY <1>1, <1>5, ConcatParts DEF x
<1>7. Len(w) = 5
    BY <1>2, <1>4 DEF IsConcat
<1>8. w[1] = a /\ w[2] = b /\ w[3] = c /\ w[4] = d /\ w[5] = e
    BY <1>2, <1>3, <1>4 DEF IsConcat
<1>9. Len(x) = 6
    BY <1>2, <1>6, <1>7 DEF IsConcat
<1>10. /\ x[1] = a /\ x[2] = b /\ x[3] = c /\ x[4] = d /\ x[5] = e
       /\ x[6] = f
    BY <1>2, <1>3, <1>6, <1>7, <1>8 DEF IsConcat
<1>11. IsSix(x, a, b, c, d, e, f)
    BY <1>9, <1>10 DEF IsSix
<1> QED BY <1>11 DEF t, u, v, w, x

\* The URL map in the order in which the constructor of ApplicationImpl fills
\* it: the configuration decides whether /quit is there, in front of the entry
\* that matches everything.
LEMMA UrlMapEntries ==
    /\ conf.quit => IsSix(UrlMap,
                          Entry(<<"ping">>, 0, FALSE, "ping"),
                          Entry(<<"version">>, 0, FALSE, "version0"),
                          Entry(<<"version">>, 1, FALSE, "version"),
                          Entry(<<"id">>, 0, FALSE, "id"),
                          Entry(<<"quit">>, 0, FALSE, "quit"),
                          Entry(<<>>, 1, TRUE, "request"))
    /\ ~conf.quit => IsFive(UrlMap,
                            Entry(<<"ping">>, 0, FALSE, "ping"),
                            Entry(<<"version">>, 0, FALSE, "version0"),
                            Entry(<<"version">>, 1, FALSE, "version"),
                            Entry(<<"id">>, 0, FALSE, "id"),
                            Entry(<<>>, 1, TRUE, "request"))
BY FiveEntries, SixEntries, Zenon DEF UrlMap, AdminMap, QuitMap, RequestMap

\* A sequence of one element is its own prefix.
LEMMA SubSeqOfOne ==
    ASSUME NEW S, NEW s \in Seq(S), Len(s) = 1
    PROVE  SubSeq(s, 1, 1) = s
OBVIOUS

\* What a sequence starts with.
LEMMA SubSeqOfFirst ==
    ASSUME NEW S, NEW s \in Seq(S), NEW t \in Seq(S),
           Len(t) = 1, Len(s) >= 1, s[1] = t[1]
    PROVE  SubSeq(s, 1, 1) = SubSeq(t, 1, 1)
OBVIOUS

\* An entry without words behind its directory matches that directory only.
LEMMA PathOfDir ==
    ASSUME NEW dir, NEW h, NEW path \in Seq(STRING)
    PROVE  Matches(Entry(<<dir>>, 0, FALSE, h), path) <=> path = <<dir>>
<1> DEFINE e == Entry(<<dir>>, 0, FALSE, h)
<1>1. e.dir = <<dir>> /\ e.words = 0 /\ e.more = FALSE
    BY DEF Entry
<1>2. Len(path) \in Nat
    OBVIOUS
<1>3. SubSeq(<<dir>>, 1, 1) = <<dir>>
    <2>1. <<dir>> \in Seq({dir}) /\ Len(<<dir>>) = 1
        BY Single
    <2> QED BY <2>1, SubSeqOfOne
<1>4. Matches(e, path)
        <=> Len(path) = 1 /\ <<dir>> = SubSeq(path, 1, 1)
    <2> HIDE DEF e
    <2> QED BY <1>1, <1>2, <1>3 DEF Matches, IsPrefix
<1>5. Len(path) = 1 => SubSeq(path, 1, 1) = path
    OBVIOUS
<1>6. path = <<dir>> => Len(path) = 1
    OBVIOUS
<1> QED BY <1>4, <1>5, <1>6

\* The entry of exec_version with a component matches paths with a component.
LEMMA PathOfVersion ==
    ASSUME NEW h, NEW path \in Seq(STRING),
           Matches(Entry(<<"version">>, 1, FALSE, h), path)
    PROVE  Len(path) = 2
<1> DEFINE e == Entry(<<"version">>, 1, FALSE, h)
<1>1. e.dir = <<"version">> /\ e.words = 1 /\ e.more = FALSE
    BY DEF Entry
<1>2. Len(path) \in Nat
    OBVIOUS
<1>3. Matches(e, path)
    OBVIOUS
<1> HIDE DEF e
<1> QED BY <1>1, <1>2, <1>3 DEF Matches

\* And it matches every path of a component that is a word.
LEMMA VersionOfWord ==
    ASSUME NEW h, NEW w \in Words, <<"version", w>> \in Seq(STRING)
    PROVE  Matches(Entry(<<"version">>, 1, FALSE, h), <<"version", w>>)
<1> DEFINE e == Entry(<<"version">>, 1, FALSE, h)
           path == <<"version", w>>
<1>1. e.dir = <<"version">> /\ e.words = 1 /\ e.more = FALSE
    BY DEF Entry
<1>2. Len(path) = 2 /\ path[2] = w /\ Len(<<"version">>) = 1
    OBVIOUS
<1>3. SubSeq(path, 1, 1) = SubSeq(<<"version">>, 1, 1)
    <2> DEFINE dir == <<"version">>
    <2>1. path[1] = "version" /\ path[1] \in STRING
        BY <1>2
    <2>2. dir \in Seq(STRING) /\ Len(dir) = 1 /\ dir[1] = "version"
        BY <2>1
    <2>3. path \in Seq(STRING) /\ Len(path) >= 1
        BY <1>2
    <2> HIDE DEF path, dir
    <2>4. SubSeq(path, 1, 1) = SubSeq(dir, 1, 1)
        BY <2>1, <2>2, <2>3, SubSeqOfFirst
    <2> QED BY <2>4 DEF dir
<1> HIDE DEF e, path
<1>4. IsPrefix(e.dir, path)
    BY <1>1, <1>2, <1>3 DEF IsPrefix
<1>5. /\ Len(path) - Len(e.dir) = e.words
      /\ \A i \in 1 .. e.words : path[Len(e.dir) + i] \in Words
    BY <1>1, <1>2
<1>6. Matches(e, path)
    BY <1>1, <1>4, <1>5 DEF Matches
<1> QED BY <1>6 DEF e, path

\* The entry of exec_request matches every path.
LEMMA PathOfRequest ==
    ASSUME NEW h, NEW path \in Seq(STRING)
    PROVE  Matches(Entry(<<>>, 1, TRUE, h), path)
<1> DEFINE e == Entry(<<>>, 1, TRUE, h)
<1>1. e.dir = <<>> /\ e.words = 0 /\ e.more = TRUE
    BY DEF Entry
<1>2. Len(path) \in Nat
    OBVIOUS
<1>3. SubSeq(<<>>, 1, 0) = SubSeq(path, 1, 0) /\ Len(<<>>) = 0
    OBVIOUS
<1> HIDE DEF e
<1>4. IsPrefix(e.dir, path)
    BY <1>1, <1>2, <1>3 DEF IsPrefix
<1>5. Len(path) - Len(e.dir) >= e.words
    BY <1>1, <1>2, <1>3
<1>6. Matches(e, path)
    BY <1>1, <1>4, <1>5 DEF Matches
<1> QED BY <1>6 DEF e

\* The first entry of the map that matches the path is at first.
IsFirst(map, path, first) ==
    /\ first \in 1 .. Len(map)
    /\ Matches(map[first], path)
    /\ \A i \in 1 .. Len(map) : Matches(map[i], path) => first <= i

\* The entry of the map that Dispatch selects.
FirstOf(map, path) == SelectInSeq(map, LAMBDA e : Matches(e, path))

\* The dispatcher finds the first entry that matches, if there is one.
LEMMA FirstEntry ==
    ASSUME NEW map, NEW path, NEW n \in 1 .. Len(map),
           Matches(map[n], path)
    PROVE  IsFirst(map, path, FirstOf(map, path))
<1> DEFINE I == {i \in 1 .. Len(map) : Matches(map[i], path)}
<1>1. I \in SUBSET Nat /\ I # {}
    OBVIOUS
<1>2. Min(I) \in I /\ \A i \in I : Min(I) <= i
    BY <1>1, LeastIsMin
<1>3. FirstOf(map, path) = Min(I)
    BY <1>1 DEF FirstOf, SelectInSeq
<1> HIDE DEF I
<1>4. \A i \in 1 .. Len(map) : Matches(map[i], path) => i \in I
    BY DEF I
<1>5. Min(I) \in 1 .. Len(map) /\ Matches(map[Min(I)], path)
    BY <1>2 DEF I
<1>6. IsFirst(map, path, Min(I))
    BY <1>2, <1>4, <1>5 DEF IsFirst
<1> QED BY <1>3, <1>6

\* What the dispatcher's choice of a handler says about the path.
Routed(h, path, quit) ==
    /\ h \in Handlers
    /\ h = "quit" => quit /\ path = <<"quit">>
    /\ h = "version" => Len(path) = 2
    /\ h = "request" => /\ path \notin {<<"ping">>, <<"version">>, <<"id">>}
                        /\ path \notin {<<"version", w>> : w \in Words}
                        /\ path = <<"quit">> => ~quit

\* Where a path leads if /quit is not enabled.
LEMMA RouteWithoutQuit ==
    ASSUME NEW map, NEW path \in Seq(STRING),
           IsFive(map, Entry(<<"ping">>, 0, FALSE, "ping"),
                       Entry(<<"version">>, 0, FALSE, "version0"),
                       Entry(<<"version">>, 1, FALSE, "version"),
                       Entry(<<"id">>, 0, FALSE, "id"),
                       Entry(<<>>, 1, TRUE, "request"))
    PROVE  Routed(map[FirstOf(map, path)].handler, path, FALSE)
<1> DEFINE first == FirstOf(map, path)
<1>1. 5 \in 1 .. Len(map) /\ map[5] = Entry(<<>>, 1, TRUE, "request")
    BY DEF IsFive
<1>2. Matches(map[5], path)
    BY <1>1, PathOfRequest
<1>3. IsFirst(map, path, first)
    BY <1>1, <1>2, FirstEntry, Zenon
<1> SUFFICES Routed(map[first].handler, path, FALSE)
    OBVIOUS
<1> HIDE DEF first
<1>4. Matches(map[1], path) <=> path = <<"ping">>
    <2>1. map[1] = Entry(<<"ping">>, 0, FALSE, "ping")
        BY DEF IsFive
    <2> QED BY <2>1, PathOfDir
<1>5. Matches(map[2], path) <=> path = <<"version">>
    <2>1. map[2] = Entry(<<"version">>, 0, FALSE, "version0")
        BY DEF IsFive
    <2> QED BY <2>1, PathOfDir
<1>6. Matches(map[4], path) <=> path = <<"id">>
    <2>1. map[4] = Entry(<<"id">>, 0, FALSE, "id")
        BY DEF IsFive
    <2> QED BY <2>1, PathOfDir
<1>7. \/ first = 1 \/ first = 2 \/ first = 3
      \/ first = 4 \/ first = 5
    BY <1>3 DEF IsFive, IsFirst
<1>8. CASE first = 1
    <2>1. map[first].handler = "ping"
        BY <1>8 DEF IsFive, Entry
    <2> QED BY <2>1 DEF Routed, Handlers
<1>9. CASE first = 2
    <2>1. map[first].handler = "version0"
        BY <1>9 DEF IsFive, Entry
    <2> QED BY <2>1 DEF Routed, Handlers
<1>10. CASE first = 3
    <2>1. map[first].handler = "version"
        BY <1>10 DEF IsFive, Entry
    <2>2. Len(path) = 2
        BY <1>10, <1>3, PathOfVersion DEF IsFive, IsFirst
    <2> QED BY <2>1, <2>2 DEF Routed, Handlers
<1>11. CASE first = 4
    <2>1. map[first].handler = "id"
        BY <1>11 DEF IsFive, Entry
    <2> QED BY <2>1 DEF Routed, Handlers
<1>12. CASE first = 5
    <2>1. map[first].handler = "request"
        BY <1>12 DEF IsFive, Entry
    <2>2. \A i \in 1 .. 4 : ~Matches(map[i], path)
        BY <1>12, <1>3 DEF IsFive, IsFirst
    <2>3. path # <<"ping">> /\ path # <<"version">> /\ path # <<"id">>
        BY <2>2, <1>4, <1>5, <1>6
    <2>4. ASSUME NEW w \in Words, path = <<"version", w>> PROVE FALSE
        <3>1. map[3] = Entry(<<"version">>, 1, FALSE, "version")
            BY DEF IsFive
        <3>2. Matches(map[3], path)
            BY <2>4, <3>1, VersionOfWord
        <3> QED BY <2>2, <3>2
    <2> QED BY <2>1, <2>3, <2>4 DEF Routed, Handlers
<1> QED BY <1>7, <1>8, <1>9, <1>10, <1>11, <1>12

\* Where a path leads if /quit is enabled.
LEMMA RouteWithQuit ==
    ASSUME NEW map, NEW path \in Seq(STRING),
           IsSix(map, Entry(<<"ping">>, 0, FALSE, "ping"),
                      Entry(<<"version">>, 0, FALSE, "version0"),
                      Entry(<<"version">>, 1, FALSE, "version"),
                      Entry(<<"id">>, 0, FALSE, "id"),
                      Entry(<<"quit">>, 0, FALSE, "quit"),
                      Entry(<<>>, 1, TRUE, "request"))
    PROVE  Routed(map[FirstOf(map, path)].handler, path, TRUE)
<1> DEFINE first == FirstOf(map, path)
<1>1. 6 \in 1 .. Len(map) /\ map[6] = Entry(<<>>, 1, TRUE, "request")
    BY DEF IsSix
<1>2. Matches(map[6], path)
    BY <1>1, PathOfRequest
<1>3. IsFirst(map, path, first)
    BY <1>1, <1>2, FirstEntry, Zenon
<1> SUFFICES Routed(map[first].handler, path, TRUE)
    OBVIOUS
<1> HIDE DEF first
<1>4. Matches(map[1], path) <=> path = <<"ping">>
    <2>1. map[1] = Entry(<<"ping">>, 0, FALSE, "ping")
        BY DEF IsSix
    <2> QED BY <2>1, PathOfDir
<1>5. Matches(map[2], path) <=> path = <<"version">>
    <2>1. map[2] = Entry(<<"version">>, 0, FALSE, "version0")
        BY DEF IsSix
    <2> QED BY <2>1, PathOfDir
<1>6. Matches(map[4], path) <=> path = <<"id">>
    <2>1. map[4] = Entry(<<"id">>, 0, FALSE, "id")
        BY DEF IsSix
    <2> QED BY <2>1, PathOfDir
<1>7. Matches(map[5], path) <=> path = <<"quit">>
    <2>1. map[5] = Entry(<<"quit">>, 0, FALSE, "quit")
        BY DEF IsSix
    <2> QED BY <2>1, PathOfDir
<1>8. \/ first = 1 \/ first = 2 \/ first = 3
      \/ first = 4 \/ first = 5 \/ first = 6
    BY <1>3 DEF IsSix, IsFirst
<1>9. CASE first = 1
    <2>1. map[first].handler = "ping"
        BY <1>9 DEF IsSix, Entry
    <2> QED BY <2>1 DEF Routed, Handlers
<1>10. CASE first = 2
    <2>1. map[first].handler = "version0"
        BY <1>10 DEF IsSix, Entry
    <2> QED BY <2>1 DEF Routed, Handlers
<1>11. CASE first = 3
    <2>1. map[first].handler = "version"
        BY <1>11 DEF IsSix, Entry
    <2>2. Len(path) = 2
        BY <1>11, <1>3, PathOfVersion DEF IsSix, IsFirst
    <2> QED BY <2>1, <2>2 DEF Routed, Handlers
<1>12. CASE first = 4
    <2>1. map[first].handler = "id"
        BY <1>12 DEF IsSix, Entry
    <2> QED BY <2>1 DEF Routed, Handlers
<1>13. CASE first = 5
    <2>1. map[first].handler = "quit"
        BY <1>13 DEF IsSix, Entry
    <2>2. path = <<"quit">>
        BY <1>13, <1>3, <1>7, PathOfDir, Zenon DEF IsFirst
    <2> QED BY <2>1, <2>2 DEF Routed, Handlers
<1>14. CASE first = 6
    <2>1. map[first].handler = "request"
        BY <1>14 DEF IsSix, Entry
    <2>2. \A i \in 1 .. 5 : ~Matches(map[i], path)
        BY <1>14, <1>3 DEF IsSix, IsFirst
    <2>3. /\ path # <<"ping">> /\ path # <<"version">> /\ path # <<"id">>
          /\ path # <<"quit">>
        BY <2>2, <1>4, <1>5, <1>7, <1>6
    <2>4. ASSUME NEW w \in Words, path = <<"version", w>> PROVE FALSE
        <3>1. map[3] = Entry(<<"version">>, 1, FALSE, "version")
            BY DEF IsSix
        <3>2. Matches(map[3], path)
            BY <2>4, <3>1, VersionOfWord
        <3> QED BY <2>2, <3>2
    <2> QED BY <2>1, <2>3, <2>4 DEF Routed, Handlers
<1> QED BY <1>8, <1>9, <1>10, <1>11, <1>12, <1>13, <1>14

\* The handler the dispatcher calls fits the path, and administrative paths
\* never reach exec_request.
LEMMA DispatchRoutes ==
    ASSUME conf.quit \in BOOLEAN, req.path \in Seq(STRING), Dispatch
    PROVE  Routed(handler', req.path, conf.quit)
<1> DEFINE first == FirstOf(UrlMap, req.path)
<1>1. handler' = UrlMap[first].handler
    BY DEF Dispatch, FirstOf
<1>2. CASE conf.quit
    <2>1. Routed(UrlMap[first].handler, req.path, TRUE)
        BY <1>2, UrlMapEntries, RouteWithQuit, Zenon
    <2> QED BY <1>1, <1>2, <2>1
<1>3. CASE ~conf.quit
    <2>1. Routed(UrlMap[first].handler, req.path, FALSE)
        BY <1>3, UrlMapEntries, RouteWithoutQuit, Zenon
    <2> QED BY <1>1, <1>3, <2>1
<1> QED BY <1>2, <1>3

----------------------------------------------------------------------------
(* Responses *)

\* What is done to a response is added to what was done before.
LEMMA ConcatSteps ==
    ASSUME NEW s \in Seq(Steps), NEW t \in Seq(Steps)
    PROVE  /\ s \o t \in Seq(Steps)
           /\ ToSet(s \o t) = ToSet(s) \cup ToSet(t)
<1> DEFINE r == s \o t
<1>1. IsConcat(Steps, r, s, t)
    BY ConcatParts
<1>2. /\ Len(s) \in Nat /\ Len(t) \in Nat
      /\ DOMAIN s = 1 .. Len(s) /\ DOMAIN t = 1 .. Len(t)
    OBVIOUS
<1> HIDE DEF r
<1>3. r \in Seq(Steps) /\ Len(r) = Len(s) + Len(t) /\ DOMAIN r = 1 .. Len(r)
    BY <1>1 DEF IsConcat
<1>4. ASSUME NEW x \in ToSet(r) PROVE x \in ToSet(s) \cup ToSet(t)
    <2>1. PICK i \in 1 .. Len(r) : r[i] = x
        BY <1>3, <1>4 DEF ToSet
    <2>2. CASE i <= Len(s)
        BY <1>1, <1>2, <2>1, <2>2 DEF IsConcat, ToSet
    <2>3. CASE i > Len(s)
        <3>1. i - Len(s) \in 1 .. Len(t) /\ Len(s) + (i - Len(s)) = i
            BY <1>2, <1>3, <2>1, <2>3
        <3>2. r[i] = t[i - Len(s)]
            BY <1>1, <3>1 DEF IsConcat
        <3> QED BY <1>2, <2>1, <3>1, <3>2 DEF ToSet
    <2> QED BY <1>2, <2>1, <2>2, <2>3
<1>5. ASSUME NEW x \in ToSet(s) PROVE x \in ToSet(r)
    <2>1. PICK i \in 1 .. Len(s) : s[i] = x
        BY <1>2, <1>5 DEF ToSet
    <2>2. i \in 1 .. Len(r) /\ r[i] = x
        BY <1>1, <1>2, <1>3, <2>1 DEF IsConcat
    <2> QED BY <1>3, <2>2 DEF ToSet
<1>6. ASSUME NEW x \in ToSet(t) PROVE x \in ToSet(r)
    <2>1. PICK i \in 1 .. Len(t) : t[i] = x
        BY <1>2, <1>6 DEF ToSet
    <2>2. Len(s) + i \in 1 .. Len(r) /\ r[Len(s) + i] = x
        BY <1>1, <1>2, <1>3, <2>1 DEF IsConcat
    <2> QED BY <1>3, <2>2 DEF ToSet
<1>7. ToSet(r) = ToSet(s) \cup ToSet(t)
    BY <1>4, <1>5, <1>6
<1> QED BY <1>3, <1>7 DEF r

\* The sequences of steps the code makes of a response are of the type.
LEMMA StepsOfTuples ==
    /\ <<>> \in Seq(Steps) /\ ToSet(<<>>) = {}
    /\ <<"final">> \in Seq(Steps) /\ ToSet(<<"final">>) = {"final"}
    /\ <<"content">> \in Seq(Steps) /\ ToSet(<<"content">>) = {"content"}
    /\ /\ <<"text", "final">> \in Seq(Steps)
       /\ ToSet(<<"text", "final">>) = {"text", "final"}
    /\ /\ <<"message", "final">> \in Seq(Steps)
       /\ ToSet(<<"message", "final">>) = {"message", "final"}
    /\ /\ <<"text", "final", "final">> \in Seq(Steps)
       /\ ToSet(<<"text", "final", "final">>) = {"text", "final"}
    /\ /\ <<"text", "final", "content">> \in Seq(Steps)
       /\ ToSet(<<"text", "final", "content">>) = {"text", "final", "content"}
<1>1. <<>> \in Seq(Steps) /\ ToSet(<<>>) = {}
    BY DEF ToSet
<1>2. <<"final">> \in Seq(Steps) /\ ToSet(<<"final">>) = {"final"}
    BY DEF ToSet, Steps
<1>3. <<"content">> \in Seq(Steps) /\ ToSet(<<"content">>) = {"content"}
    BY DEF ToSet, Steps
<1>4. /\ <<"text", "final">> \in Seq(Steps)
      /\ ToSet(<<"text", "final">>) = {"text", "final"}
    BY DEF ToSet, Steps
<1>5. /\ <<"message", "final">> \in Seq(Steps)
      /\ ToSet(<<"message", "final">>) = {"message", "final"}
    BY DEF ToSet, Steps
<1>6. /\ <<"text", "final", "final">> \in Seq(Steps)
      /\ ToSet(<<"text", "final", "final">>) = {"text", "final"}
    BY DEF ToSet, Steps
<1>7. /\ <<"text", "final", "content">> \in Seq(Steps)
      /\ ToSet(<<"text", "final", "content">>) = {"text", "final", "content"}
    BY DEF ToSet, Steps
<1> QED BY <1>1, <1>2, <1>3, <1>4, <1>5, <1>6, <1>7

\* What was done first to a response stays first.
LEMMA FirstStepStays ==
    ASSUME NEW t \in Seq(Steps)
    PROVE  /\ <<>> \o t = t
           /\ <<"final">> \o t # <<>>
           /\ (<<"final">> \o t)[1] = "final"
<1>1. <<>> \o t = t
    OBVIOUS
<1> DEFINE f == <<"final">>
           r == f \o t
<1>2. f \in Seq(Steps) /\ Len(f) = 1 /\ f[1] = "final"
    BY DEF Steps
<1> HIDE DEF f
<1>3. IsConcat(Steps, r, f, t)
    BY <1>2, ConcatParts
<1> HIDE DEF r
<1>4. r[1] = "final" /\ Len(r) = 1 + Len(t) /\ Len(t) \in Nat
    BY <1>2, <1>3 DEF IsConcat
<1>5. r # <<>>
    BY <1>4
<1> QED BY <1>1, <1>4, <1>5 DEF r, f

\* A response that is finalized, with the status that fits.
Answered(o, s) ==
    /\ o \in Seq(Steps)
    /\ "final" \in ToSet(o)
    /\ "text" \in ToSet(o) => s >= 400
    /\ s \in Statuses

\* report_error finishes a response, with an error status.
LEMMA ErrorIsAnswered ==
    ASSUME NEW s \in {400, 404, 405, 500, 503}, ReportError(s),
           out \in Seq(Steps)
    PROVE  /\ Answered(out', status')
           /\ status' = s
           /\ "content" \in ToSet(out') => "content" \in ToSet(out)
<1>1. status' = s /\ out' = out \o <<"text", "final">>
    BY DEF ReportError
<1>2. /\ out' \in Seq(Steps)
      /\ ToSet(out') = ToSet(out) \cup {"text", "final"}
    <2> DEFINE t == <<"text", "final">>
    <2>1. t \in Seq(Steps) /\ ToSet(t) = {"text", "final"}
        BY StepsOfTuples
    <2>2. out' = out \o t
        BY <1>1
    <2> HIDE DEF t
    <2> QED BY <2>1, <2>2, ConcatSteps
<1>3. s \in Statuses /\ s >= 400
    BY DEF Statuses
<1> QED BY <1>1, <1>2, <1>3 DEF Answered

\* What the request handler answers is a success or an error.
LEMMA AnswerKinds ==
    ASSUME NEW a \in Answers
    PROVE  \/ a.error = FALSE /\ a.status = 200
              /\ a.message \in BOOLEAN
           \/ a.error = TRUE /\ a.status \in {404, 503}
<1> DEFINE success == [status : {200}, error : {FALSE}, message : BOOLEAN,
                       content : {"none", "short", "long"}]
           failure == [status : {404, 503}, error : {TRUE},
                       message : {FALSE}, content : {"none"}]
<1>1. a \in success \cup failure
    BY Zenon DEF Answers
<1>2. ASSUME a \in success
      PROVE  a.error = FALSE /\ a.status = 200 /\ a.message \in BOOLEAN
    BY <1>2
<1>3. ASSUME a \in failure
      PROVE  a.error = TRUE /\ a.status \in {404, 503}
    BY <1>3
<1> HIDE DEF success, failure
<1> QED BY <1>1, <1>2, <1>3, Zenon

\* How the content of an answer is written: not at all, or as it is, or after
\* the error text of a header that is too long.
LEMMA ContentSteps ==
    ASSUME NEW a, NEW withContent \in BOOLEAN
    PROVE  LET c == Content(a, withContent) IN
           /\ c \in Seq(Steps)
           /\ \/ c = <<>> /\ ToSet(c) = {}
              \/ withContent /\ ToSet(c) = {"content"}
              \/ withContent /\ ToSet(c) = {"text", "final", "content"}
<1>1. CASE ~withContent \/ a.content = "none"
    BY <1>1, StepsOfTuples DEF Content
<1>2. CASE withContent /\ a.content = "short"
    BY <1>2, StepsOfTuples DEF Content
<1>3. CASE withContent /\ a.content # "none" /\ a.content # "short"
    BY <1>3, StepsOfTuples DEF Content
<1> QED BY <1>1, <1>2, <1>3

\* report_answer finishes a response, with an error status if it has an error
\* text, and without content if none is asked for.
LEMMA AnswerIsAnswered ==
    ASSUME NEW a \in Answers, NEW withContent \in BOOLEAN,
           ReportAnswer(a, withContent), out = <<>>
    PROVE  /\ Answered(out', status')
           /\ "content" \in ToSet(out') => withContent
<1>1. CASE a.error = TRUE
    <2>1. a.status \in {404, 503}
        BY <1>1, AnswerKinds
    <2>2. status' = a.status /\ out' = out \o <<"text", "final", "final">>
        BY <1>1, Zenon DEF ReportAnswer
    <2>3. out' = <<"text", "final", "final">>
        BY <2>2, FirstStepStays, StepsOfTuples
    <2> QED BY <2>1, <2>2, <2>3, StepsOfTuples DEF Answered, Statuses
<1>2. CASE a.error = FALSE /\ a.message = TRUE
    <2>1. a.status = 200
        BY <1>2, AnswerKinds
    <2>2. status' = a.status /\ out' = out \o <<"message", "final">>
        BY <1>2, Zenon DEF ReportAnswer
    <2>3. out' = <<"message", "final">>
        BY <2>2, FirstStepStays, StepsOfTuples
    <2> QED BY <2>1, <2>2, <2>3, StepsOfTuples DEF Answered, Statuses
<1>3. CASE a.error = FALSE /\ a.message = FALSE
    <2> DEFINE c == Content(a, withContent)
    <2>1. a.status = 200
        BY <1>3, AnswerKinds
    <2>2. /\ status' = IF "text" \in ToSet(c) THEN 500 ELSE a.status
          /\ out' = out \o c \o <<"final">>
        BY <1>3, Zenon DEF ReportAnswer
    <2>3. /\ c \in Seq(Steps)
          /\ \/ c = <<>> /\ ToSet(c) = {}
             \/ withContent /\ ToSet(c) = {"content"}
             \/ withContent /\ ToSet(c) = {"text", "final", "content"}
        BY ContentSteps
    <2> HIDE DEF c
    <2>4. out \o c = c
        BY <2>3, FirstStepStays
    <2>5. /\ out' \in Seq(Steps)
          /\ ToSet(out') = ToSet(c) \cup {"final"}
        <3> DEFINE t == <<"final">>
        <3>1. t \in Seq(Steps) /\ ToSet(t) = {"final"}
            BY StepsOfTuples
        <3>2. out' = c \o t
            BY <2>2, <2>4
        <3> HIDE DEF t
        <3> QED BY <2>3, <3>1, <3>2, ConcatSteps
    <2> QED BY <2>1, <2>2, <2>3, <2>5 DEF Answered, Statuses
<1> QED BY <1>1, <1>2, <1>3, AnswerKinds

----------------------------------------------------------------------------
(* URL parameters *)

\* Max, by which the end of a list of equal keys is found, is the greatest
\* element of a bounded set.
LEMMA GreatestNatural ==
    ASSUME NEW b \in Nat, NEW S \in SUBSET (0 .. b), S # {}
    PROVE  Max(S) \in S /\ \A n \in S : n <= Max(S)
<1> DEFINE T == {b - n : n \in S}
<1>1. T \in SUBSET Nat /\ T # {}
    <2>1. PICK n \in S : TRUE
        OBVIOUS
    <2>2. b - n \in T
        BY <2>1
    <2>3. ASSUME NEW t \in T PROVE t \in Nat
        <3>1. PICK m \in S : t = b - m
            OBVIOUS
        <3> QED BY <3>1
    <2> QED BY <2>2, <2>3
<1> HIDE DEF T
<1>2. PICK t \in T : \A u \in T : t <= u
    BY <1>1, LeastNatural
<1>3. PICK n \in S : t = b - n
    BY <1>2 DEF T
<1>4. ASSUME NEW m \in S PROVE m <= n
    <2>1. b - n <= b - m
        BY <1>2, <1>3 DEF T
    <2> QED BY <2>1
<1>5. \E x \in S : \A y \in S : x >= y
    BY <1>4
<1>6. Max(S) \in S /\ \A y \in S : Max(S) >= y
    BY <1>5 DEF Max
<1> QED BY <1>6

\* URL parameters, and the members of the content made of them.
Params == Seq([key : STRING, value : STRING])
Records == [key : STRING, values : Seq(EncodedValues)]

\* Equal keys are next to each other, as in the sorted multimap of cppcms.
Adjacent(form) ==
    \A i, k \in DOMAIN form : form[i].key = form[k].key =>
        \A j \in i .. k : form[j].key = form[i].key

\* The list of a key ends in front of the first parameter with another key, and
\* the key does not come back behind it.
LEMMA LastOfKeyBounds ==
    ASSUME NEW form \in Params, Adjacent(form),
           NEW i \in 1 .. Len(form)
    PROVE  LET last == LastOfKey(form, i) IN
           /\ last \in i .. Len(form)
           /\ \A n \in i .. last : form[n].key = form[i].key
           /\ \A n \in last + 1 .. Len(form) : form[n].key # form[i].key
<1> DEFINE S == {j \in i .. Len(form) :
                   \A n \in i .. j : form[n].key = form[i].key}
           last == Max(S)
<1>1. Len(form) \in Nat /\ DOMAIN form = 1 .. Len(form)
    BY DEF Params
<1>2. S \in SUBSET (0 .. Len(form))
    BY <1>1
<1>3. i \in S
    BY <1>1
<1>4. last \in S /\ \A n \in S : n <= last
    BY <1>1, <1>2, <1>3, GreatestNatural
<1>5. last = LastOfKey(form, i)
    BY DEF LastOfKey
<1> HIDE DEF last
<1>6. /\ last \in i .. Len(form)
      /\ \A n \in i .. last : form[n].key = form[i].key
    BY <1>4
<1>7. ASSUME NEW n \in last + 1 .. Len(form), form[n].key = form[i].key
      PROVE  FALSE
    <2>1. n \in DOMAIN form /\ i \in DOMAIN form /\ n \in i .. Len(form)
        BY <1>1, <1>6
    <2>2. \A j \in i .. n : form[j].key = form[i].key
        BY <1>7, <2>1 DEF Adjacent
    <2>3. n \in S
        BY <2>1, <2>2
    <2>4. n > last
        BY <1>1, <1>6
    <2> QED BY <1>4, <1>6, <2>1, <2>3, <2>4
<1> QED BY <1>5, <1>6, <1>7

\* What the recursion in FormToJson makes of the parameters from i on, given f
\* for the parameters behind.
Rest(form, f, i) ==
    IF i > Len(form) THEN <<>>
    ELSE <<Member(form, i, LastOfKey(form, i))>>
         \o f[LastOfKey(form, i) + 1]

\* The recursion of form_tojson has a solution: the parameters from i on are
\* made of those behind the list of the key at i.
LEMMA RecursionFromEnd ==
    ASSUME NEW form \in Params, Adjacent(form)
    PROVE  \E f : f = [i \in 1 .. Len(form) + 1 |-> Rest(form, f, i)]
<1> DEFINE top == Len(form) + 1
           Solves(f, n) == \A i \in n .. top : f[i] = Rest(form, f, i)
           S == {n \in 1 .. top : \E f : Solves(f, n)}
<1>1. Len(form) \in Nat /\ top \in Nat \ {0} /\ top > Len(form)
    BY DEF Params
<1>2. top \in S
    <2> DEFINE f == [i \in {top} |-> <<>>]
    <2>1. Solves(f, top)
        BY <1>1 DEF Rest
    <2> QED BY <1>1, <2>1
<1>3. PICK n \in S : \A m \in S : n <= m
    <2>1. S \in SUBSET Nat /\ S # {}
        BY <1>1, <1>2
    <2> HIDE DEF S
    <2> QED BY <2>1, LeastNatural
<1>4. PICK f : Solves(f, n)
    BY <1>3
<1>5. ASSUME n > 1 PROVE FALSE
    <2> DEFINE g == [i \in n - 1 .. top |->
                       IF i = n - 1 THEN Rest(form, f, i) ELSE f[i]]
    <2>1. n \in 1 .. top /\ n - 1 \in 1 .. Len(form)
        BY <1>1, <1>3, <1>5
    <2>2. ASSUME NEW i \in n - 1 .. top
          PROVE  Rest(form, g, i) = Rest(form, f, i)
        <3>1. CASE i > Len(form)
            BY <3>1 DEF Rest
        <3>2. CASE ~(i > Len(form))
            <4> DEFINE next == LastOfKey(form, i) + 1
            <4>1. i \in 1 .. Len(form)
                BY <1>1, <2>1, <3>2
            <4>2. LastOfKey(form, i) \in i .. Len(form)
                BY <4>1, LastOfKeyBounds
            <4>3. next \in n - 1 .. top /\ next # n - 1
                BY <1>1, <2>1, <4>1, <4>2
            <4>4. g[next] = f[next]
                BY <4>3
            <4> HIDE DEF g
            <4> QED BY <3>2, <4>4 DEF Rest
        <3> QED BY <3>1, <3>2
    <2>3. ASSUME NEW i \in n - 1 .. top PROVE g[i] = Rest(form, f, i)
        <3>1. i = n - 1 \/ i \in n .. top
            BY <1>1, <2>1
        <3> QED BY <1>4, <2>1, <3>1
    <2> HIDE DEF g
    <2>4. Solves(g, n - 1)
        BY <2>2, <2>3
    <2>5. n - 1 \in S
        BY <1>1, <2>1, <2>4
    <2>6. n <= n - 1
        BY <1>3, <2>5
    <2> QED BY <2>1, <2>6
<1>6. Solves(f, 1)
    BY <1>1, <1>3, <1>4, <1>5
<1> DEFINE h == [i \in 1 .. top |-> f[i]]
<1>7. ASSUME NEW i \in 1 .. top PROVE Rest(form, h, i) = Rest(form, f, i)
    <2>1. CASE i > Len(form)
        BY <2>1 DEF Rest
    <2>2. CASE ~(i > Len(form))
        <3> DEFINE next == LastOfKey(form, i) + 1
        <3>1. i \in 1 .. Len(form)
            BY <1>1, <2>2
        <3>2. LastOfKey(form, i) \in i .. Len(form)
            BY <3>1, LastOfKeyBounds
        <3>3. next \in 1 .. top
            BY <1>1, <3>1, <3>2
        <3>4. h[next] = f[next]
            BY <3>3
        <3> HIDE DEF h
        <3> QED BY <2>2, <3>4 DEF Rest
    <2> QED BY <2>1, <2>2
<1>8. h = [i \in 1 .. top |-> Rest(form, h, i)]
    <2>1. \A i \in 1 .. top : h[i] = Rest(form, h, i)
        BY <1>6, <1>7
    <2>2. h = [i \in 1 .. top |-> h[i]]
        OBVIOUS
    <2> HIDE DEF h
    <2> QED BY <2>1, <2>2
<1> QED BY <1>8

\* FormToJson is that solution at the first parameter.
LEMMA FormToJsonRecursion ==
    ASSUME NEW form \in Params, Adjacent(form)
    PROVE  \E f : /\ f = [i \in 1 .. Len(form) + 1 |-> Rest(form, f, i)]
                 /\ FormToJson(form) = f[1]
<1> DEFINE members == CHOOSE f :
               f = [i \in 1 .. Len(form) + 1 |->
                      IF i > Len(form) THEN <<>>
                      ELSE LET last == LastOfKey(form, i) IN
                           <<Member(form, i, last)>> \o f[last + 1]]
<1>1. FormToJson(form) = members[1]
    BY DEF FormToJson
<1>2. members = [i \in 1 .. Len(form) + 1 |-> Rest(form, members, i)]
    BY RecursionFromEnd DEF Rest
<1> QED BY <1>1, <1>2

\* Where the parameters with the key are, from i on.
PositionsFrom(form, i, key) == {n \in i .. Len(form) : form[n].key = key}

\* The record r has the values of its key that are in the form from i on.
GoodRecord(form, i, r) ==
    LET mine == PositionsFrom(form, i, r.key) IN
    /\ Len(r.values) = Cardinality(mine)
    /\ \A n \in mine :
         LET nth == Cardinality({m \in mine : m <= n}) IN
         form[n].value = "" <=> r.values[nth] = ""

\* The members c are what should become of the parameters from i on.
GoodRest(form, i, c) ==
    /\ c \in Seq(Records)
    /\ {c[a].key : a \in DOMAIN c} = {form[n].key : n \in i .. Len(form)}
    /\ \A a, b \in DOMAIN c : a < b =>
         \A m \in PositionsFrom(form, i, c[a].key),
            n \in PositionsFrom(form, i, c[b].key) : m < n
    /\ \A a \in DOMAIN c : GoodRecord(form, i, c[a])

\* json_value_encode keeps the empty value apart from the others.
LEMMA EncodedValueType ==
    ASSUME NEW v
    PROVE  /\ EncodedValue(v) \in EncodedValues
           /\ v = "" <=> EncodedValue(v) = ""
<1>1. CASE v = ""
    BY <1>1 DEF EncodedValue, EncodedValues
<1>2. CASE v # ""
    <2>1. EncodedValue(v) = "undefined"
        BY <1>2, Zenon DEF EncodedValue, EncodedValues
    <2>2. "undefined" # ""
        OBVIOUS
    <2> QED BY <1>2, <2>1, <2>2 DEF EncodedValues
<1> QED BY <1>1, <1>2

\* The type of a parameter.
LEMMA ParamTypes ==
    ASSUME NEW form \in Params, NEW n \in 1 .. Len(form)
    PROVE  form[n].key \in STRING /\ form[n].value \in STRING
<1> DEFINE P == [key : STRING, value : STRING]
<1>1. form \in Seq(P)
    BY DEF Params
<1> HIDE DEF P
<1>2. form[n] \in P
    BY <1>1
<1> QED BY <1>2 DEF P

\* The member form_tojson makes of a list of equal keys has all values of the
\* key, in their order.
LEMMA MemberIsGood ==
    ASSUME NEW form \in Params, Adjacent(form),
           NEW i \in 1 .. Len(form)
    PROVE  LET last == LastOfKey(form, i)
               r == Member(form, i, last) IN
           /\ r \in Records
           /\ r.key = form[i].key
           /\ PositionsFrom(form, i, r.key) = i .. last
           /\ GoodRecord(form, i, r)
<1> DEFINE last == LastOfKey(form, i)
           r == Member(form, i, last)
<1>1. /\ Len(form) \in Nat /\ DOMAIN form = 1 .. Len(form)
      /\ \A n \in 1 .. Len(form) : form[n].key \in STRING
                                   /\ form[n].value \in STRING
    BY ParamTypes DEF Params
<1>2. /\ last \in i .. Len(form)
      /\ \A n \in i .. last : form[n].key = form[i].key
      /\ \A n \in last + 1 .. Len(form) : form[n].key # form[i].key
    BY LastOfKeyBounds
<1> HIDE DEF last
<1>3. /\ r.key = form[i].key
      /\ r.values = [n \in 1 .. last - i + 1 |->
                       EncodedValue(form[i + n - 1].value)]
      /\ r = [key |-> r.key, values |-> r.values]
    BY DEF Member
<1> HIDE DEF r
<1>4. /\ r.values \in Seq(EncodedValues) /\ Len(r.values) = last - i + 1
      /\ \A n \in 1 .. last - i + 1 :
           r.values[n] = EncodedValue(form[i + n - 1].value)
    <2>1. last - i + 1 \in Nat
        BY <1>1, <1>2
    <2>2. ASSUME NEW n \in 1 .. last - i + 1
          PROVE  EncodedValue(form[i + n - 1].value) \in EncodedValues
        BY EncodedValueType
    <2> DEFINE k == last - i + 1
               e(n) == EncodedValue(form[i + n - 1].value)
    <2>3. k \in Nat /\ \A n \in 1 .. k : e(n) \in EncodedValues
        BY <2>1, <2>2
    <2>4. r.values = [n \in 1 .. k |-> e(n)]
        BY <1>3
    <2> HIDE DEF k, e
    <2>5. r.values \in Seq(EncodedValues) /\ Len(r.values) = k
        BY <2>3, <2>4
    <2>6. \A n \in 1 .. k : r.values[n] = e(n)
        BY <2>4
    <2> QED BY <2>5, <2>6 DEF k, e
<1>5. r \in Records
    BY <1>1, <1>3, <1>4 DEF Records
<1>6. PositionsFrom(form, i, r.key) = i .. last
    BY <1>1, <1>2, <1>3 DEF PositionsFrom
<1>7. Len(r.values) = Cardinality(i .. last)
    <2>1. Cardinality(i .. last) = last - i + 1
        BY <1>1, <1>2, FS_Interval
    <2> QED BY <1>4, <2>1
<1>8. ASSUME NEW n \in i .. last
      PROVE  LET nth == Cardinality({m \in i .. last : m <= n}) IN
             form[n].value = "" <=> r.values[nth] = ""
    <2>1. {m \in i .. last : m <= n} = i .. n
        BY <1>1, <1>2
    <2>2. Cardinality(i .. n) = n - i + 1
        BY <1>1, <1>2, FS_Interval
    <2>3. n - i + 1 \in 1 .. last - i + 1 /\ i + (n - i + 1) - 1 = n
        BY <1>1, <1>2
    <2>4. r.values[n - i + 1] = EncodedValue(form[n].value)
        BY <1>4, <2>3
    <2> QED BY <2>1, <2>2, <2>4, EncodedValueType
<1>9. GoodRecord(form, i, r)
    BY <1>6, <1>7, <1>8 DEF GoodRecord
<1> QED BY <1>3, <1>5, <1>6, <1>9 DEF r, last

\* Parameters behind the list of a key have other keys, and theirs are all
\* behind it.
LEMMA OthersAreBehind ==
    ASSUME NEW form \in Params, Adjacent(form),
           NEW i \in 1 .. Len(form),
           NEW n \in LastOfKey(form, i) + 1 .. Len(form)
    PROVE  /\ form[n].key # form[i].key
           /\ PositionsFrom(form, i, form[n].key)
                = PositionsFrom(form, LastOfKey(form, i) + 1, form[n].key)
<1> DEFINE last == LastOfKey(form, i)
<1>1. Len(form) \in Nat
    BY DEF Params
<1>2. /\ last \in i .. Len(form)
      /\ \A m \in i .. last : form[m].key = form[i].key
      /\ \A m \in last + 1 .. Len(form) : form[m].key # form[i].key
    BY LastOfKeyBounds
<1>3. n \in last + 1 .. Len(form)
    OBVIOUS
<1> HIDE DEF last
<1>4. form[n].key # form[i].key
    BY <1>2, <1>3
<1>5. ASSUME NEW m \in i .. Len(form), form[m].key = form[n].key
      PROVE  m \in last + 1 .. Len(form)
    BY <1>1, <1>2, <1>4, <1>5
<1>6. last + 1 .. Len(form) \subseteq i .. Len(form)
    BY <1>1, <1>2
<1>7. PositionsFrom(form, i, form[n].key)
        = PositionsFrom(form, last + 1, form[n].key)
    BY <1>5, <1>6 DEF PositionsFrom
<1> QED BY <1>4, <1>7 DEF last

\* If the members made of the parameters behind the list of a key are good,
\* then they are with the member of the key in front.
LEMMA GoodStep ==
    ASSUME NEW form \in Params, Adjacent(form),
           NEW i \in 1 .. Len(form), NEW d,
           GoodRest(form, LastOfKey(form, i) + 1, d)
    PROVE  GoodRest(form, i,
                    <<Member(form, i, LastOfKey(form, i))>> \o d)
<1> DEFINE last == LastOfKey(form, i)
           r == Member(form, i, last)
           one == <<r>>
           c == one \o d
<1>1. Len(form) \in Nat
    BY DEF Params
<1>2. /\ last \in i .. Len(form)
      /\ \A n \in i .. last : form[n].key = form[i].key
    BY LastOfKeyBounds
<1>3. /\ r \in Records
      /\ r.key = form[i].key
      /\ PositionsFrom(form, i, r.key) = i .. last
      /\ GoodRecord(form, i, r)
    BY MemberIsGood
<1>4. ASSUME NEW n \in last + 1 .. Len(form)
      PROVE  PositionsFrom(form, i, form[n].key)
               = PositionsFrom(form, last + 1, form[n].key)
    BY OthersAreBehind
<1>5. GoodRest(form, last + 1, d)
    OBVIOUS
<1> HIDE DEF last, r
<1>6. one \in Seq(Records) /\ Len(one) = 1 /\ one[1] = r
    BY <1>3
<1> HIDE DEF one
<1>7. d \in Seq(Records) /\ Len(d) \in Nat /\ DOMAIN d = 1 .. Len(d)
    BY <1>5 DEF GoodRest
<1>8. IsConcat(Records, c, one, d)
    BY <1>6, <1>7, ConcatParts
<1> HIDE DEF c
<1>9. /\ c \in Seq(Records) /\ Len(c) = Len(d) + 1
      /\ DOMAIN c = 1 .. Len(d) + 1
      /\ c[1] = r
      /\ \A a \in 1 .. Len(d) : c[1 + a] = d[a]
    BY <1>6, <1>7, <1>8 DEF IsConcat
<1>10. \A a \in DOMAIN c : a = 1 \/ (a - 1 \in DOMAIN d /\ c[a] = d[a - 1])
    <2> TAKE a \in DOMAIN c
    <2>1. a = 1 \/ (a - 1 \in 1 .. Len(d) /\ 1 + (a - 1) = a)
        BY <1>7, <1>9
    <2> QED BY <1>7, <1>9, <2>1
<1>11. ASSUME NEW a \in DOMAIN d
       PROVE  \E n \in last + 1 .. Len(form) : form[n].key = d[a].key
    BY <1>5 DEF GoodRest
<1>12. ASSUME NEW a \in DOMAIN d
       PROVE  /\ PositionsFrom(form, i, d[a].key)
                   = PositionsFrom(form, last + 1, d[a].key)
              /\ GoodRecord(form, i, d[a])
    <2>1. PICK n \in last + 1 .. Len(form) : form[n].key = d[a].key
        BY <1>11
    <2>2. PositionsFrom(form, i, d[a].key)
            = PositionsFrom(form, last + 1, d[a].key)
        BY <1>4, <2>1
    <2>3. GoodRecord(form, last + 1, d[a])
        BY <1>5 DEF GoodRest
    <2> QED BY <2>2, <2>3 DEF GoodRecord
<1>13. {c[a].key : a \in DOMAIN c} = {form[n].key : n \in i .. Len(form)}
    <2>1. ASSUME NEW a \in DOMAIN c
          PROVE  \E n \in i .. Len(form) : form[n].key = c[a].key
        <3>1. CASE a = 1
            BY <1>1, <1>2, <1>3, <1>9, <3>1
        <3>2. CASE a - 1 \in DOMAIN d /\ c[a] = d[a - 1]
            <4>1. PICK n \in last + 1 .. Len(form) :
                         form[n].key = d[a - 1].key
                BY <1>11, <3>2
            <4>2. n \in i .. Len(form)
                BY <1>1, <1>2
            <4> QED BY <3>2, <4>1, <4>2
        <3> QED BY <1>10, <3>1, <3>2
    <2>2. ASSUME NEW n \in i .. Len(form)
          PROVE  \E a \in DOMAIN c : c[a].key = form[n].key
        <3>1. CASE n \in i .. last
            <4>1. form[n].key = r.key
                BY <1>2, <1>3, <3>1
            <4>2. 1 \in DOMAIN c
                BY <1>7, <1>9
            <4> QED BY <1>9, <4>1, <4>2
        <3>2. CASE n \in last + 1 .. Len(form)
            <4>1. PICK a \in DOMAIN d : d[a].key = form[n].key
                BY <1>5, <3>2 DEF GoodRest
            <4>2. 1 + a \in DOMAIN c /\ c[1 + a] = d[a]
                BY <1>7, <1>9
            <4> QED BY <4>1, <4>2
        <3> QED BY <1>1, <1>2, <3>1, <3>2
    <2> DEFINE made == {c[a].key : a \in DOMAIN c}
               given == {form[n].key : n \in i .. Len(form)}
    <2>3. ASSUME NEW k \in made PROVE k \in given
        <3>1. PICK a \in DOMAIN c : k = c[a].key
            OBVIOUS
        <3>2. PICK n \in i .. Len(form) : form[n].key = c[a].key
            BY <2>1
        <3> QED BY <3>1, <3>2
    <2>4. ASSUME NEW k \in given PROVE k \in made
        <3>1. PICK n \in i .. Len(form) : k = form[n].key
            OBVIOUS
        <3>2. PICK a \in DOMAIN c : c[a].key = form[n].key
            BY <2>2
        <3> QED BY <3>1, <3>2
    <2>5. made = given
        <3> HIDE DEF made, given
        <3> QED BY <2>3, <2>4
    <2> QED BY <2>5
<1>14. ASSUME NEW a \in DOMAIN c, NEW b \in DOMAIN c, a < b,
              NEW m \in PositionsFrom(form, i, c[a].key),
              NEW n \in PositionsFrom(form, i, c[b].key)
       PROVE  m < n
    <2>1. b - 1 \in DOMAIN d /\ c[b] = d[b - 1]
        BY <1>9, <1>7, <1>10, <1>14
    <2>2. n \in PositionsFrom(form, last + 1, d[b - 1].key)
        BY <1>12, <2>1
    <2>3. CASE a = 1
        <3>1. m \in i .. last
            BY <1>3, <1>9, <2>3
        <3>2. n \in last + 1 .. Len(form)
            BY <2>2 DEF PositionsFrom
        <3> QED BY <1>1, <1>2, <3>1, <3>2
    <2>4. CASE a - 1 \in DOMAIN d /\ c[a] = d[a - 1]
        <3>1. m \in PositionsFrom(form, last + 1, d[a - 1].key)
            BY <1>12, <2>4
        <3>2. a - 1 < b - 1
            BY <1>7, <1>9, <1>14
        <3> QED BY <1>5, <2>1, <2>2, <2>4, <3>1, <3>2 DEF GoodRest
    <2> QED BY <1>10, <2>3, <2>4
<1>15. ASSUME NEW a \in DOMAIN c PROVE GoodRecord(form, i, c[a])
    <2>1. CASE a = 1
        BY <1>3, <1>9, <2>1
    <2>2. CASE a - 1 \in DOMAIN d /\ c[a] = d[a - 1]
        BY <1>12, <2>2
    <2> QED BY <1>10, <2>1, <2>2
<1>16. GoodRest(form, i, c)
    BY <1>9, <1>13, <1>14, <1>15 DEF GoodRest
<1> QED BY <1>16 DEF c, one, r, last

\* form_tojson keeps every key, once and in order, with all its values,
\* whatever parameters the request has: by induction from the last one to the
\* first.
LEMMA FormToJsonIsGood ==
    ASSUME NEW form \in Params, Adjacent(form)
    PROVE  GoodRest(form, 1, FormToJson(form))
<1> DEFINE top == Len(form) + 1
<1>1. Len(form) \in Nat /\ top \in Nat \ {0} /\ top > Len(form)
    BY DEF Params
<1>2. PICK f : /\ f = [i \in 1 .. top |-> Rest(form, f, i)]
               /\ FormToJson(form) = f[1]
    BY FormToJsonRecursion
<1>3. \A i \in 1 .. top : f[i] = Rest(form, f, i)
    BY <1>2
<1> DEFINE Good(n) == \A i \in n .. top : GoodRest(form, i, f[i])
           S == {n \in 1 .. top : Good(n)}
<1>4. top \in S
    <2>1. f[top] = <<>>
        <3>1. top \in 1 .. top
            BY <1>1
        <3>2. Rest(form, f, top) = <<>>
            BY <1>1 DEF Rest
        <3> QED BY <1>3, <3>1, <3>2, Zenon
    <2>2. top .. Len(form) = {}
        BY <1>1
    <2>3. <<>> \in Seq(Records) /\ DOMAIN <<>> = {}
        OBVIOUS
    <2>4. GoodRest(form, top, <<>>)
        <3> HIDE DEF top
        <3> QED BY <2>2, <2>3 DEF GoodRest
    <2> QED BY <1>1, <2>1, <2>4
<1>5. PICK n \in S : \A m \in S : n <= m
    <2>1. S \in SUBSET Nat /\ S # {}
        BY <1>1, <1>4
    <2> HIDE DEF S
    <2> QED BY <2>1, LeastNatural
<1>6. n \in 1 .. top /\ Good(n)
    BY <1>5
<1>7. ASSUME n > 1 PROVE FALSE
    <2>1. n - 1 \in 1 .. Len(form) /\ n - 1 \in 1 .. top
        BY <1>1, <1>6, <1>7
    <2> DEFINE next == LastOfKey(form, n - 1) + 1
    <2>2. LastOfKey(form, n - 1) \in n - 1 .. Len(form)
        BY <2>1, LastOfKeyBounds
    <2>3. next \in n .. top
        BY <1>1, <1>6, <2>1, <2>2
    <2>4. GoodRest(form, next, f[next])
        BY <1>6, <2>3
    <2>5. f[n - 1] = <<Member(form, n - 1, LastOfKey(form, n - 1))>> \o f[next]
        <3>1. ~(n - 1 > Len(form))
            BY <1>1, <2>1
        <3>2. Rest(form, f, n - 1)
                = <<Member(form, n - 1, LastOfKey(form, n - 1))>> \o f[next]
            BY <3>1, Zenon DEF Rest
        <3> QED BY <1>3, <2>1, <3>2, Zenon
    <2>6. GoodRest(form, n - 1, f[n - 1])
        BY <2>1, <2>4, <2>5, GoodStep
    <2>7. ASSUME NEW i \in n - 1 .. top PROVE GoodRest(form, i, f[i])
        <3>1. i = n - 1 \/ i \in n .. top
            BY <1>1, <2>1
        <3> QED BY <1>6, <2>6, <3>1
    <2>8. n - 1 \in S
        BY <2>1, <2>7
    <2>9. n <= n - 1
        BY <1>5, <2>8
    <2> QED BY <2>1, <2>9
<1>8. GoodRest(form, 1, f[1])
    BY <1>1, <1>6, <1>7
<1> QED BY <1>2, <1>8

----------------------------------------------------------------------------
(* The configuration *)

\* Texts, and configurations with the keys of the file.
AnyText == Seq([ref : BOOLEAN, word : STRING])
AnyConfig == [ToSet(Keys) -> AnyText]

\* Induction over the numbers up to a bound.
LEMMA InductionTo ==
    ASSUME NEW n \in Nat, NEW S, 0 \in S,
           \A k \in 1 .. n : k - 1 \in S => k \in S
    PROVE  0 .. n \subseteq S
<1> DEFINE T == (0 .. n) \ S
<1>1. ASSUME T # {} PROVE FALSE
    <2>1. T \in SUBSET Nat
        OBVIOUS
    <2>2. PICK m \in T : \A t \in T : m <= t
        <3> HIDE DEF T
        <3> QED BY <1>1, <2>1, LeastNatural
    <2>3. m \in 1 .. n /\ m - 1 \in 0 .. n
        BY <2>2
    <2>4. m - 1 \in S
        <3>1. CASE m - 1 \in T
            BY <2>2, <2>3, <3>1
        <3>2. CASE m - 1 \notin T
            BY <2>3, <3>2
        <3> QED BY <3>1, <3>2
    <2> QED BY <2>2, <2>3, <2>4
<1> QED BY <1>1

\* The last position of a nonempty set of positions.
LEMMA LastPosition ==
    ASSUME NEW n \in Nat, NEW s \in SUBSET (1 .. n), s # {}
    PROVE  /\ Max(s) \in s /\ Max(s) \in 1 .. n
           /\ s \ {Max(s)} \in SUBSET (1 .. Max(s) - 1)
<1>1. s \in SUBSET (0 .. n)
    OBVIOUS
<1>2. Max(s) \in s /\ \A m \in s : m <= Max(s)
    BY <1>1, GreatestNatural
<1> HIDE DEF Max
<1>3. ASSUME NEW m \in s, m # Max(s) PROVE m \in 1 .. Max(s) - 1
    <2>1. m \in 1 .. n /\ Max(s) \in 1 .. n /\ m <= Max(s)
        BY <1>2
    <2> QED BY <1>3, <2>1
<1> QED BY <1>2, <1>3

\* All but the last position are those of one fewer.
LEMMA LastOfInterval ==
    ASSUME NEW k \in Nat \ {0}
    PROVE  Max(1 .. k) = k /\ (1 .. k) \ {k} = 1 .. k - 1
<1>1. Max(1 .. k) \in 1 .. k /\ \A m \in 1 .. k : m <= Max(1 .. k)
    <2>1. 1 .. k \in SUBSET (0 .. k) /\ 1 .. k # {}
        <3>1. 1 \in 1 .. k
            OBVIOUS
        <3> QED BY <3>1
    <2> QED BY <2>1, GreatestNatural
<1>2. k \in 1 .. k
    OBVIOUS
<1> HIDE DEF Max
<1>3. Max(1 .. k) = k
    BY <1>1, <1>2
<1> QED BY <1>3

\* f is the fold of step from left to right over every set of positions.
IsFold(f, n, D, base, step) ==
    /\ f \in [SUBSET (1 .. n) -> D]
    /\ \A s \in SUBSET (1 .. n) :
         f[s] = IF s = {} THEN base ELSE step[<<Max(s), f[s \ {Max(s)}]>>]

\* The folds of the community modules choose a function that solves their
\* recursion: there is one. (Max takes the positions from the last one, so the
\* fold goes through the sequence from left to right.)
LEMMA FoldRecursion ==
    ASSUME NEW n \in Nat, NEW D, NEW base \in D,
           NEW step \in [(1 .. n) \X D -> D]
    PROVE  \E f : IsFold(f, n, D, base, step)
<1> DEFINE Solves(f, k) ==
               \A s \in SUBSET (1 .. k) :
                  f[s] = IF s = {} THEN base
                         ELSE step[<<Max(s), f[s \ {Max(s)}]>>]
           S == {k \in 0 .. n : \E f \in [SUBSET (1 .. k) -> D] : Solves(f, k)}
<1>1. 0 \in S
    <2> DEFINE f == [s \in SUBSET (1 .. 0) |-> base]
    <2>1. f \in [SUBSET (1 .. 0) -> D]
        OBVIOUS
    <2>2. ASSUME NEW s \in SUBSET (1 .. 0) PROVE f[s] = base /\ s = {}
        OBVIOUS
    <2> HIDE DEF f
    <2>3. Solves(f, 0)
        BY <2>2
    <2> HIDE DEF Solves
    <2>4. 0 \in 0 .. n
        OBVIOUS
    <2> QED BY <2>1, <2>3, <2>4
<1>2. ASSUME NEW k \in 1 .. n, k - 1 \in S PROVE k \in S
    <2>1. PICK f \in [SUBSET (1 .. k - 1) -> D] : Solves(f, k - 1)
        BY <1>2
    <2> DEFINE Val(s) == IF s = {} THEN base
                         ELSE step[<<Max(s), f[s \ {Max(s)}]>>]
               g == [s \in SUBSET (1 .. k) |-> Val(s)]
    <2>2. ASSUME NEW s \in SUBSET (1 .. k), s # {}
          PROVE  /\ Max(s) \in 1 .. n
                 /\ s \ {Max(s)} \in SUBSET (1 .. k - 1)
        <3>1. /\ Max(s) \in s /\ Max(s) \in 1 .. k
              /\ s \ {Max(s)} \in SUBSET (1 .. Max(s) - 1)
            BY <2>2, LastPosition
        <3> HIDE DEF Max
        <3> QED BY <3>1
    <2>3. ASSUME NEW s \in SUBSET (1 .. k) PROVE Val(s) \in D
        <3>1. CASE s = {}
            BY <3>1
        <3>2. CASE s # {}
            <4>1. Max(s) \in 1 .. n /\ f[s \ {Max(s)}] \in D
                BY <2>1, <2>2, <3>2
            <4>2. <<Max(s), f[s \ {Max(s)}]>> \in (1 .. n) \X D
                BY <4>1
            <4> QED BY <3>2, <4>2
        <3> QED BY <3>1, <3>2
    <2>4. g \in [SUBSET (1 .. k) -> D]
        <3> HIDE DEF Val
        <3> QED BY <2>3
    <2>5. ASSUME NEW s \in SUBSET (1 .. k - 1) PROVE g[s] = f[s]
        <3>1. s \in SUBSET (1 .. k)
            OBVIOUS
        <3>2. g[s] = Val(s)
            <4> HIDE DEF Val
            <4> QED BY <3>1
        <3> QED BY <2>1, <3>2
    <2>6. ASSUME NEW s \in SUBSET (1 .. k)
          PROVE  g[s] = IF s = {} THEN base
                        ELSE step[<<Max(s), g[s \ {Max(s)}]>>]
        <3>1. g[s] = Val(s)
            <4> HIDE DEF Val
            <4> QED OBVIOUS
        <3>2. s # {} => g[s \ {Max(s)}] = f[s \ {Max(s)}]
            <4> HIDE DEF g
            <4> QED BY <2>2, <2>5
        <3> HIDE DEF g
        <3> QED BY <3>1, <3>2
    <2> HIDE DEF g
    <2>7. Solves(g, k)
        BY <2>6
    <2> HIDE DEF Solves
    <2>8. k \in 0 .. n
        OBVIOUS
    <2> QED BY <2>4, <2>7, <2>8
<1>3. n \in S
    <2> HIDE DEF S
    <2>1. 0 .. n \subseteq S
        BY <1>1, <1>2, InductionTo
    <2> QED BY <2>1
<1>4. PICK f \in [SUBSET (1 .. n) -> D] : Solves(f, n)
    BY <1>3
<1>5. IsFold(f, n, D, base, step)
    BY <1>4 DEF IsFold
<1> QED BY <1>5

\* How FlattenSeq puts sequences together, one after the other.
LEMMA FlattenRecursion ==
    ASSUME NEW S, NEW n \in Nat \ {0}, NEW seqs \in [1 .. n -> Seq(S)]
    PROVE  \E f : /\ f = [i \in 1 .. n |->
                            IF i = 1 THEN seqs[i] ELSE f[i - 1] \o seqs[i]]
                 /\ FlattenSeq(seqs) = f[n]
<1> DEFINE Val(f, i) == IF i = 1 THEN seqs[i] ELSE f[i - 1] \o seqs[i]
           R(k) == \E f \in [1 .. k -> Seq(S)] :
                      \A i \in 1 .. k : f[i] = Val(f, i)
           T == {k \in 0 .. n : R(k)}
<1>1. 0 \in T
    <2> DEFINE f == [i \in 1 .. 0 |-> <<>>]
    <2>1. f \in [1 .. 0 -> Seq(S)] /\ \A i \in 1 .. 0 : f[i] = Val(f, i)
        OBVIOUS
    <2>2. R(0)
        BY <2>1
    <2> HIDE DEF R
    <2> QED BY <2>2
<1>2. ASSUME NEW k \in 1 .. n, k - 1 \in T PROVE k \in T
    <2>1. PICK f \in [1 .. k - 1 -> Seq(S)] :
                 \A i \in 1 .. k - 1 : f[i] = Val(f, i)
        BY <1>2
    <2> DEFINE g == [i \in 1 .. k |-> IF i = k THEN Val(f, k) ELSE f[i]]
    <2>2. Val(f, k) \in Seq(S)
        <3>1. CASE k = 1
            BY <3>1
        <3>2. CASE k # 1
            <4>1. k - 1 \in 1 .. k - 1 /\ k \in 1 .. n
                BY <3>2
            <4>2. f[k - 1] \in Seq(S) /\ seqs[k] \in Seq(S)
                BY <2>1, <4>1
            <4> QED BY <3>2, <4>2
        <3> QED BY <3>1, <3>2
    <2>3. ASSUME NEW i \in 1 .. k PROVE g[i] \in Seq(S)
        <3> HIDE DEF Val
        <3>1. CASE i = k
            BY <2>2, <3>1
        <3>2. CASE i # k
            <4>1. i \in 1 .. k - 1
                BY <3>2
            <4>2. f[i] \in Seq(S)
                BY <2>1, <4>1
            <4> QED BY <3>2, <4>2
        <3> QED BY <3>1, <3>2
    <2>4. g \in [1 .. k -> Seq(S)]
        <3> HIDE DEF Val
        <3> QED BY <2>3
    <2>5. ASSUME NEW i \in 1 .. k, i # 1 PROVE g[i - 1] = f[i - 1]
        <3>1. i - 1 \in 1 .. k /\ i - 1 # k
            BY <2>5
        <3> HIDE DEF Val
        <3> QED BY <3>1
    <2>6. ASSUME NEW i \in 1 .. k PROVE g[i] = Val(g, i)
        <3>1. g[i] = Val(f, i)
            <4>1. i = k \/ i \in 1 .. k - 1
                OBVIOUS
            <4>2. CASE i = k
                <5> HIDE DEF Val
                <5> QED BY <4>2
            <4>3. CASE i \in 1 .. k - 1
                <5> HIDE DEF Val
                <5> QED BY <2>1, <4>3
            <4> QED BY <4>1, <4>2, <4>3
        <3> HIDE DEF g
        <3> QED BY <2>5, <3>1
    <2>7. R(k)
        <3> HIDE DEF g, Val
        <3> QED BY <2>4, <2>6
    <2> HIDE DEF R
    <2> QED BY <2>7
<1>3. R(n)
    <2> HIDE DEF R
    <2>1. 0 .. n \subseteq T
        <3> HIDE DEF T
        <3> QED BY <1>1, <1>2, InductionTo
    <2> QED BY <2>1
<1>4. PICK f \in [1 .. n -> Seq(S)] : \A i \in 1 .. n : f[i] = Val(f, i)
    BY <1>3
<1>5. f = [i \in 1 .. n |-> Val(f, i)]
    <2> HIDE DEF Val
    <2> QED BY <1>4
<1> DEFINE flatten == CHOOSE h : h = [i \in 1 .. n |-> Val(h, i)]
<1>6. flatten = [i \in 1 .. n |-> Val(flatten, i)]
    BY <1>5
<1>7. seqs \in Seq(Seq(S)) /\ Len(seqs) = n /\ n # 0
    OBVIOUS
<1>8. FlattenSeq(seqs) = flatten[n]
    BY <1>7 DEF FlattenSeq
<1> HIDE DEF flatten
<1> QED BY <1>6, <1>8

\* Everything in s is in r.
Inside(s, r) == \A a \in DOMAIN s : \E b \in DOMAIN r : r[b] = s[a]

\* Both parts of a concatenation are in it.
LEMMA ConcatMembers ==
    ASSUME NEW S, NEW s \in Seq(S), NEW t \in Seq(S)
    PROVE  s \o t \in Seq(S) /\ Inside(s, s \o t) /\ Inside(t, s \o t)
<1> DEFINE r == s \o t
<1>1. IsConcat(S, r, s, t)
    BY ConcatParts
<1>2. /\ Len(s) \in Nat /\ Len(t) \in Nat
      /\ DOMAIN s = 1 .. Len(s) /\ DOMAIN t = 1 .. Len(t)
    OBVIOUS
<1> HIDE DEF r
<1>3. r \in Seq(S) /\ DOMAIN r = 1 .. Len(s) + Len(t)
    BY <1>1 DEF IsConcat
<1>4. ASSUME NEW a \in DOMAIN s PROVE \E b \in DOMAIN r : r[b] = s[a]
    <2>1. a \in DOMAIN r /\ r[a] = s[a]
        BY <1>1, <1>2, <1>3 DEF IsConcat
    <2> QED BY <2>1
<1>5. ASSUME NEW a \in DOMAIN t PROVE \E b \in DOMAIN r : r[b] = t[a]
    <2>1. Len(s) + a \in DOMAIN r /\ r[Len(s) + a] = t[a]
        BY <1>1, <1>2, <1>3 DEF IsConcat
    <2> QED BY <2>1
<1>6. Inside(s, r) /\ Inside(t, r)
    BY <1>4, <1>5 DEF Inside
<1> QED BY <1>3, <1>6 DEF r

\* What is in a part is in the whole.
LEMMA InsideIsTransitive ==
    ASSUME NEW s, NEW t, NEW r, Inside(s, t), Inside(t, r)
    PROVE  Inside(s, r)
<1> SUFFICES ASSUME NEW a \in DOMAIN s
             PROVE  \E b \in DOMAIN r : r[b] = s[a]
    BY DEF Inside
<1>1. PICK c \in DOMAIN t : t[c] = s[a]
    BY DEF Inside
<1>2. PICK b \in DOMAIN r : r[b] = t[c]
    BY DEF Inside
<1> QED BY <1>1, <1>2

\* All of the sequences are in their concatenation.
LEMMA FlattenMembers ==
    ASSUME NEW S, NEW n \in Nat, NEW seqs \in [1 .. n -> Seq(S)]
    PROVE  /\ FlattenSeq(seqs) \in Seq(S)
           /\ \A i \in 1 .. n : Inside(seqs[i], FlattenSeq(seqs))
<1>1. CASE n = 0
    <2>1. seqs \in Seq(Seq(S)) /\ Len(seqs) = 0
        BY <1>1
    <2>2. FlattenSeq(seqs) = <<>>
        BY <2>1 DEF FlattenSeq
    <2>3. <<>> \in Seq(S)
        OBVIOUS
    <2> QED BY <1>1, <2>2, <2>3
<1>2. CASE n # 0
    <2>1. n \in Nat \ {0}
        BY <1>2
    <2>2. PICK f : /\ f = [i \in 1 .. n |->
                             IF i = 1 THEN seqs[i] ELSE f[i - 1] \o seqs[i]]
                   /\ FlattenSeq(seqs) = f[n]
        BY <2>1, FlattenRecursion
    <2> DEFINE Good(k) == /\ f[k] \in Seq(S)
                          /\ \A i \in 1 .. k : Inside(seqs[i], f[k])
               T == {k \in 0 .. n : k # 0 => Good(k)}
    <2>3. 0 \in T
        OBVIOUS
    <2>4. ASSUME NEW k \in 1 .. n, k - 1 \in T PROVE k \in T
        <3>1. CASE k = 1
            <4>1. f[1] = seqs[1] /\ seqs[1] \in Seq(S)
                BY <2>1, <2>2
            <4>2. Inside(f[1], f[1])
                BY DEF Inside
            <4>3. Good(1)
                BY <4>1, <4>2
            <4> QED BY <3>1, <4>3
        <3>2. CASE k # 1
            <4> DEFINE s == f[k - 1]
                       t == seqs[k]
                       r == s \o t
            <4>1. k - 1 \in 0 .. n /\ k - 1 # 0
                BY <3>2
            <4>2. s \in Seq(S) /\ \A i \in 1 .. k - 1 : Inside(seqs[i], s)
                BY <2>4, <4>1
            <4>3. f[k] = r
                BY <2>2, <3>2
            <4>4. t \in Seq(S)
                OBVIOUS
            <4> HIDE DEF s, t
            <4>5. r \in Seq(S) /\ Inside(s, r) /\ Inside(t, r)
                BY <4>2, <4>4, ConcatMembers
            <4> HIDE DEF r
            <4>6. ASSUME NEW i \in 1 .. k PROVE Inside(seqs[i], r)
                <5>1. CASE i = k
                    BY <4>5, <5>1 DEF t
                <5>2. CASE i \in 1 .. k - 1
                    BY <4>2, <4>5, <5>2, InsideIsTransitive
                <5> QED BY <5>1, <5>2
            <4>7. Good(k)
                BY <4>3, <4>5, <4>6
            <4> HIDE DEF Good
            <4> QED BY <4>7
        <3> QED BY <3>1, <3>2
    <2>5. n \in T
        <3> HIDE DEF T
        <3>1. 0 .. n \subseteq T
            BY <2>3, <2>4, InductionTo
        <3> QED BY <3>1
    <2>6. Good(n)
        <3> HIDE DEF Good
        <3> QED BY <1>2, <2>5
    <2> QED BY <2>2, <2>6
<1> QED BY <1>1, <1>2

\* Sequences with the same elements are the same.
LEMMA SameSequence ==
    ASSUME NEW S, NEW s \in Seq(S), NEW t \in Seq(S), Len(s) = Len(t),
           \A a \in 1 .. Len(t) : s[a] = t[a]
    PROVE  s = t
OBVIOUS

\* The sequences of the single elements of a text make the text again.
LEMMA FlattenSingles ==
    ASSUME NEW S, NEW t \in Seq(S)
    PROVE  FlattenSeq([i \in DOMAIN t |-> <<t[i]>>]) = t
<1> DEFINE n == Len(t)
           seqs == [i \in 1 .. n |-> <<t[i]>>]
<1>1. n \in Nat /\ DOMAIN t = 1 .. n
    OBVIOUS
<1>2. seqs \in [1 .. n -> Seq(S)]
    OBVIOUS
<1>3. CASE n = 0
    <2>1. seqs \in Seq(Seq(S)) /\ Len(seqs) = 0
        BY <1>3
    <2>2. FlattenSeq(seqs) = <<>>
        BY <2>1 DEF FlattenSeq
    <2>3. t = <<>>
        BY <1>3
    <2> QED BY <1>1, <2>2, <2>3
<1>4. CASE n # 0
    <2>1. n \in Nat \ {0}
        BY <1>1, <1>4
    <2>2. PICK f : /\ f = [i \in 1 .. n |->
                             IF i = 1 THEN seqs[i] ELSE f[i - 1] \o seqs[i]]
                   /\ FlattenSeq(seqs) = f[n]
        <3> HIDE DEF seqs, n
        <3> QED BY <1>2, <2>1, FlattenRecursion
    <2> DEFINE Good(k) == /\ f[k] \in Seq(S) /\ Len(f[k]) = k
                          /\ \A a \in 1 .. k : f[k][a] = t[a]
               T == {k \in 0 .. n : k # 0 => Good(k)}
    <2>3. 0 \in T
        OBVIOUS
    <2>4. ASSUME NEW k \in 1 .. n, k - 1 \in T PROVE k \in T
        <3> DEFINE u == <<t[k]>>
        <3>1. u \in Seq(S) /\ Len(u) = 1 /\ u[1] = t[k] /\ seqs[k] = u
            OBVIOUS
        <3> HIDE DEF u, seqs, n
        <3>2. CASE k = 1
            <4>1. f[1] = u
                BY <2>1, <2>2, <3>1, <3>2
            <4>2. Good(1)
                BY <3>1, <3>2, <4>1
            <4> QED BY <3>2, <4>2
        <3>3. CASE k # 1
            <4> DEFINE s == f[k - 1]
                       r == s \o u
            <4>1. k - 1 \in 0 .. n /\ k - 1 # 0
                BY <1>1, <3>3
            <4>2. s \in Seq(S) /\ Len(s) = k - 1
                  /\ \A a \in 1 .. k - 1 : s[a] = t[a]
                BY <2>4, <4>1
            <4>3. f[k] = r
                BY <2>2, <3>1, <3>3
            <4> HIDE DEF s
            <4>4. IsConcat(S, r, s, u)
                BY <3>1, <4>2, ConcatParts
            <4> HIDE DEF r
            <4>5. r \in Seq(S) /\ Len(r) = k
                BY <3>1, <4>2, <4>4 DEF IsConcat
            <4>6. ASSUME NEW a \in 1 .. k PROVE r[a] = t[a]
                <5>1. CASE a = k
                    <6>1. Len(s) + 1 = k
                        BY <4>2
                    <6>2. r[Len(s) + 1] = u[1]
                        BY <3>1, <4>4 DEF IsConcat
                    <6> QED BY <3>1, <5>1, <6>1, <6>2
                <5>2. CASE a \in 1 .. k - 1
                    BY <4>2, <4>4, <5>2 DEF IsConcat
                <5> QED BY <5>1, <5>2
            <4>7. Good(k)
                BY <4>3, <4>5, <4>6
            <4> HIDE DEF Good
            <4> QED BY <4>7
        <3> QED BY <3>2, <3>3
    <2>5. n \in T
        <3> HIDE DEF T
        <3>1. 0 .. n \subseteq T
            BY <1>1, <2>3, <2>4, InductionTo
        <3> QED BY <1>1, <3>1
    <2>6. Good(n)
        <3> HIDE DEF Good
        <3> QED BY <1>4, <2>5
    <2>7. f[n] = t
        BY <2>6, SameSequence
    <2> QED BY <1>1, <2>2, <2>7
<1> QED BY <1>3, <1>4

\* What the loop in substReferences puts in the place of each part of a text.
Pieces(config, text) ==
    [i \in DOMAIN text |->
        IF text[i].ref THEN Get(config, text[i].word) ELSE <<text[i]>>]

\* The type of the parts of a text.
LEMMA TextParts ==
    ASSUME NEW text \in AnyText
    PROVE  /\ Len(text) \in Nat /\ DOMAIN text = 1 .. Len(text)
           /\ \A i \in DOMAIN text :
                text[i] \in [ref : BOOLEAN, word : STRING]
<1> DEFINE P == [ref : BOOLEAN, word : STRING]
<1>1. text \in Seq(P)
    BY DEF AnyText
<1> HIDE DEF P
<1>2. /\ Len(text) \in Nat /\ DOMAIN text = 1 .. Len(text)
      /\ \A i \in DOMAIN text : text[i] \in P
    BY <1>1
<1> QED BY <1>2 DEF P

\* The pieces are texts, and so is what they make.
LEMMA SubstReferencesType ==
    ASSUME NEW c \in AnyConfig, NEW text \in AnyText
    PROVE  /\ SubstReferences(c, text) \in AnyText
           /\ \A i \in DOMAIN text :
                Inside(Pieces(c, text)[i], SubstReferences(c, text))
<1> DEFINE P == [ref : BOOLEAN, word : STRING]
           n == Len(text)
           seqs == Pieces(c, text)
<1>1. /\ n \in Nat /\ DOMAIN text = 1 .. n
      /\ \A i \in DOMAIN text : text[i] \in P
    BY TextParts
<1>2. SubstReferences(c, text) = FlattenSeq(seqs)
    BY DEF SubstReferences, Pieces
<1> HIDE DEF n, P
<1>3. ASSUME NEW i \in DOMAIN text PROVE seqs[i] \in Seq(P)
    <2>1. CASE text[i].ref
        <3>1. seqs[i] = Get(c, text[i].word)
            BY <2>1 DEF Pieces
        <3>2. Get(c, text[i].word) \in Seq(P)
            BY DEF Get, NoText, AnyConfig, AnyText, P
        <3> QED BY <3>1, <3>2
    <2>2. CASE ~text[i].ref
        <3>1. seqs[i] = <<text[i]>>
            BY <2>2 DEF Pieces
        <3> QED BY <1>1, <3>1
    <2> QED BY <2>1, <2>2
<1>4. seqs \in [1 .. n -> Seq(P)]
    <2>1. seqs = [i \in 1 .. n |-> seqs[i]]
        BY <1>1 DEF Pieces
    <2> HIDE DEF seqs
    <2> QED BY <1>1, <1>3, <2>1
<1> HIDE DEF seqs
<1>5. /\ FlattenSeq(seqs) \in Seq(P)
      /\ \A i \in 1 .. n : Inside(seqs[i], FlattenSeq(seqs))
    BY <1>1, <1>4, FlattenMembers
<1> QED BY <1>1, <1>2, <1>5 DEF AnyText, P, seqs

\* A text without references stays what it is.
LEMMA PlainStays ==
    ASSUME NEW c, NEW text \in AnyText, References(text) = {}
    PROVE  SubstReferences(c, text) = text
<1>1. ASSUME NEW i \in DOMAIN text PROVE Pieces(c, text)[i] = <<text[i]>>
    <2>1. ~text[i].ref
        BY DEF References
    <2> QED BY <2>1 DEF Pieces
<1>2. Pieces(c, text) = [i \in DOMAIN text |-> <<text[i]>>]
    <2>1. Pieces(c, text) = [i \in DOMAIN text |-> Pieces(c, text)[i]]
        BY DEF Pieces
    <2> QED BY <1>1, <2>1
<1>3. SubstReferences(c, text)
        = FlattenSeq([i \in DOMAIN text |-> <<text[i]>>])
    <2>1. SubstReferences(c, text) = FlattenSeq(Pieces(c, text))
        BY DEF SubstReferences, Pieces
    <2> QED BY <1>2, <2>1
<1> QED BY <1>3, FlattenSingles DEF AnyText

\* What is inserted for a reference is not searched again: its references stay.
LEMMA InsertedStays ==
    ASSUME NEW c \in AnyConfig, NEW text \in AnyText,
           NEW k \in References(text), k \in DOMAIN c,
           References(c[k]) # {}
    PROVE  References(SubstReferences(c, text)) # {}
<1> DEFINE r == SubstReferences(c, text)
<1>1. PICK i \in DOMAIN text : text[i].ref /\ text[i].word = k
    BY DEF References
<1>2. Pieces(c, text)[i] = c[k]
    BY <1>1 DEF Pieces, Get
<1>3. Inside(c[k], r)
    BY <1>2, SubstReferencesType
<1> HIDE DEF r
<1>4. PICK a \in DOMAIN c[k] : c[k][a].ref
    BY DEF References
<1>5. PICK b \in DOMAIN r : r[b] = c[k][a]
    BY <1>3 DEF Inside
<1>6. r[b].word \in References(r)
    BY <1>4, <1>5 DEF References
<1> QED BY <1>6 DEF r

\* What becomes of a text depends on what its references stand for only.
LEMMA SameReferences ==
    ASSUME NEW c, NEW d, NEW text,
           \A k \in References(text) : Get(c, k) = Get(d, k)
    PROVE  SubstReferences(c, text) = SubstReferences(d, text)
<1>1. ASSUME NEW i \in DOMAIN text
      PROVE  Pieces(c, text)[i] = Pieces(d, text)[i]
    <2>1. CASE text[i].ref
        <3>1. text[i].word \in References(text)
            BY <2>1 DEF References
        <3> QED BY <2>1, <3>1 DEF Pieces
    <2>2. CASE ~text[i].ref
        BY <2>2 DEF Pieces
    <2> QED BY <2>1, <2>2
<1>2. Pieces(c, text) = Pieces(d, text)
    <2>1. /\ Pieces(c, text) = [i \in DOMAIN text |-> Pieces(c, text)[i]]
          /\ Pieces(d, text) = [i \in DOMAIN text |-> Pieces(d, text)[i]]
        BY DEF Pieces
    <2> QED BY <1>1, <2>1
<1>3. /\ SubstReferences(c, text) = FlattenSeq(Pieces(c, text))
      /\ SubstReferences(d, text) = FlattenSeq(Pieces(d, text))
    BY DEF SubstReferences, Pieces
<1> QED BY <1>2, <1>3

\* The first k elements.
Beginning(s, k) == [i \in 1 .. k |-> s[i]]

\* The first k elements are a sequence, which grows by one element at a time.
LEMMA BeginningFacts ==
    ASSUME NEW S, NEW s \in Seq(S), NEW k \in 0 .. Len(s)
    PROVE  /\ Beginning(s, k) \in Seq(S) /\ Len(Beginning(s, k)) = k
           /\ \A i \in 1 .. k : Beginning(s, k)[i] = s[i]
           /\ Beginning(s, 0) = <<>> /\ Beginning(s, Len(s)) = s
<1>1. Beginning(s, k) \in Seq(S) /\ Len(Beginning(s, k)) = k
    BY DEF Beginning
<1>2. \A i \in 1 .. k : Beginning(s, k)[i] = s[i]
    BY DEF Beginning
<1>3. Beginning(s, 0) = <<>>
    BY DEF Beginning
<1>4. Beginning(s, Len(s)) = s
    BY DEF Beginning
<1> QED BY <1>1, <1>2, <1>3, <1>4

\* FlattenSeq takes the sequences one after the other.
LEMMA FlattenBeginning ==
    ASSUME NEW S, NEW n \in Nat, NEW seqs \in [1 .. n -> Seq(S)],
           NEW k \in 1 .. n
    PROVE  /\ FlattenSeq(Beginning(seqs, 0)) = <<>>
           /\ FlattenSeq(Beginning(seqs, k))
                = FlattenSeq(Beginning(seqs, k - 1)) \o seqs[k]
<1>1. FlattenSeq(Beginning(seqs, 0)) = <<>>
    <2>1. Beginning(seqs, 0) = <<>>
        BY DEF Beginning
    <2>2. FlattenSeq(<<>>) = <<>>
        BY DEF FlattenSeq
    <2> QED BY <2>1, <2>2
<1> DEFINE g == Beginning(seqs, k)
           h == Beginning(seqs, k - 1)
<1>2. k \in Nat \ {0} /\ k - 1 \in Nat
    OBVIOUS
<1>3. /\ g \in [1 .. k -> Seq(S)] /\ h \in [1 .. k - 1 -> Seq(S)]
      /\ \A i \in 1 .. k : g[i] = seqs[i]
      /\ \A i \in 1 .. k - 1 : h[i] = seqs[i]
    BY DEF Beginning
<1> HIDE DEF g, h
<1>4. PICK f : /\ f = [i \in 1 .. k |->
                         IF i = 1 THEN g[i] ELSE f[i - 1] \o g[i]]
               /\ FlattenSeq(g) = f[k]
    BY <1>2, <1>3, FlattenRecursion
<1>5. f[1] = seqs[1]
    BY <1>2, <1>3, <1>4
<1>6. ASSUME NEW i \in 1 .. k, i # 1 PROVE f[i] = f[i - 1] \o seqs[i]
    BY <1>3, <1>4, <1>6
<1>7. CASE k = 1
    <2>1. h = <<>>
        BY <1>7 DEF h, Beginning
    <2>2. FlattenSeq(h) = <<>>
        BY <1>1, <1>7 DEF h
    <2>3. seqs[1] \in Seq(S)
        BY <1>7
    <2>4. <<>> \o seqs[1] = seqs[1]
        BY <2>3
    <2> QED BY <1>1, <1>4, <1>5, <1>7, <2>2, <2>4 DEF g, h
<1>8. CASE k # 1
    <2>1. k - 1 \in Nat \ {0}
        BY <1>2, <1>8
    <2>2. PICK d : /\ d = [i \in 1 .. k - 1 |->
                             IF i = 1 THEN h[i] ELSE d[i - 1] \o h[i]]
                   /\ FlattenSeq(h) = d[k - 1]
        BY <1>3, <2>1, FlattenRecursion
    <2>3. d[1] = seqs[1]
        <3>1. 1 \in 1 .. k - 1
            BY <2>1
        <3> QED BY <1>3, <2>2, <3>1
    <2>4. ASSUME NEW i \in 1 .. k - 1, i # 1
          PROVE  d[i] = d[i - 1] \o seqs[i]
        BY <1>3, <2>2, <2>4
    <2> DEFINE T == {i \in 0 .. k - 1 : i # 0 => f[i] = d[i]}
    <2>5. 0 \in T
        BY <1>2
    <2>6. ASSUME NEW i \in 1 .. k - 1, i - 1 \in T PROVE i \in T
        <3>1. CASE i = 1
            BY <1>5, <2>3, <3>1
        <3>2. CASE i # 1
            <4>1. f[i - 1] = d[i - 1]
                BY <2>6, <3>2
            <4>2. i \in 1 .. k
                BY <1>2
            <4>3. f[i] = f[i - 1] \o seqs[i]
                BY <1>6, <3>2, <4>2, Zenon
            <4>4. d[i] = d[i - 1] \o seqs[i]
                BY <2>4, <3>2, Zenon
            <4>5. f[i] = d[i]
                BY <4>1, <4>3, <4>4, Zenon
            <4> QED BY <4>5
        <3> QED BY <3>1, <3>2
    <2>7. k - 1 \in T
        <3> HIDE DEF T
        <3>1. 0 .. k - 1 \subseteq T
            BY <1>2, <2>5, <2>6, InductionTo
        <3> QED BY <1>2, <3>1
    <2>8. f[k - 1] = d[k - 1]
        BY <2>1, <2>7
    <2>9. f[k] = f[k - 1] \o seqs[k]
        <3>1. k \in 1 .. k
            BY <1>2
        <3> QED BY <1>8, <1>6, <3>1, Zenon
    <2> QED BY <1>1, <1>4, <2>2, <2>8, <2>9 DEF g, h
<1> QED BY <1>7, <1>8

\* What substReferences puts in the place of one part of a text.
Piece(config, part) == IF part.ref THEN Get(config, part.word) ELSE <<part>>

\* substReferences takes the parts of a text one after the other.
LEMMA SubstBeginning ==
    ASSUME NEW c \in AnyConfig, NEW text \in AnyText, NEW k \in 1 .. Len(text)
    PROVE  /\ SubstReferences(c, Beginning(text, k))
                = SubstReferences(c, Beginning(text, k - 1))
                    \o Piece(c, text[k])
           /\ Piece(c, text[k]) \in AnyText
           /\ SubstReferences(c, <<>>) = <<>>
<1> DEFINE P == [ref : BOOLEAN, word : STRING]
           n == Len(text)
           seqs == Pieces(c, text)
<1>1. /\ n \in Nat /\ DOMAIN text = 1 .. n
      /\ \A i \in 1 .. n : text[i] \in P
    BY TextParts
<1> HIDE DEF n, P
<1>2. ASSUME NEW i \in 1 .. n
      PROVE  seqs[i] = Piece(c, text[i]) /\ seqs[i] \in Seq(P)
    <2>1. seqs[i] = Piece(c, text[i])
        BY <1>1 DEF Pieces, Piece
    <2>2. CASE text[i].ref
        <3>1. Get(c, text[i].word) \in Seq(P)
            BY DEF Get, NoText, AnyConfig, AnyText, P
        <3> QED BY <2>1, <2>2, <3>1 DEF Piece
    <2>3. CASE ~text[i].ref
        <3>1. <<text[i]>> \in Seq(P)
            BY <1>1
        <3> QED BY <2>1, <2>3, <3>1 DEF Piece
    <2> QED BY <2>1, <2>2, <2>3
<1>3. seqs \in [1 .. n -> Seq(P)]
    <2>1. seqs = [i \in 1 .. n |-> seqs[i]]
        BY <1>1 DEF Pieces
    <2> HIDE DEF seqs
    <2> QED BY <1>2, <2>1
<1>4. ASSUME NEW m \in 0 .. n
      PROVE  SubstReferences(c, Beginning(text, m))
               = FlattenSeq(Beginning(seqs, m))
    <2> DEFINE part == Beginning(text, m)
    <2>1. SubstReferences(c, part) = FlattenSeq(Pieces(c, part))
        BY DEF SubstReferences, Pieces
    <2>2. DOMAIN part = 1 .. m
        BY DEF Beginning
    <2>3. Pieces(c, part) = [i \in 1 .. m |-> Pieces(c, part)[i]]
        <3> HIDE DEF part
        <3> QED BY <2>2 DEF Pieces
    <2>4. ASSUME NEW i \in 1 .. m PROVE Pieces(c, part)[i] = seqs[i]
        <3>1. part[i] = text[i] /\ i \in 1 .. n
            BY <1>1 DEF Beginning
        <3>2. Pieces(c, part)[i] = Piece(c, part[i])
            <4> HIDE DEF part
            <4> QED BY <2>2 DEF Pieces, Piece
        <3> QED BY <1>2, <3>1, <3>2
    <2>5. Pieces(c, part) = Beginning(seqs, m)
        <3> HIDE DEF part, seqs
        <3> QED BY <2>3, <2>4 DEF Beginning
    <2> QED BY <2>1, <2>5
<1>5. k \in 1 .. n /\ k \in 0 .. n /\ k - 1 \in 0 .. n
    BY <1>1 DEF n
<1> HIDE DEF seqs
<1>6. FlattenSeq(Beginning(seqs, k))
        = FlattenSeq(Beginning(seqs, k - 1)) \o seqs[k]
    BY <1>1, <1>3, <1>5, FlattenBeginning
<1>7. SubstReferences(c, <<>>) = <<>>
    <2>1. <<>> \in AnyText /\ References(<<>>) = {}
        BY DEF AnyText, References
    <2> QED BY <2>1, PlainStays
<1> QED BY <1>2, <1>4, <1>5, <1>6, <1>7 DEF AnyText, P

\* The part of a concatenation.
LEMMA BeginningOfConcat ==
    ASSUME NEW S, NEW s \in Seq(S), NEW t \in Seq(S), NEW k \in 0 .. Len(t)
    PROVE  /\ Beginning(s \o t, Len(s) + k) = s \o Beginning(t, k)
           /\ Len(s) + k \in 0 .. Len(s \o t)
<1> DEFINE r == s \o t
           u == Beginning(t, k)
           l == Beginning(r, Len(s) + k)
           v == s \o u
<1>1. IsConcat(S, r, s, t)
    BY ConcatParts
<1>2. u \in Seq(S) /\ Len(u) = k /\ \A i \in 1 .. k : u[i] = t[i]
    BY BeginningFacts
<1>3. Len(s) \in Nat /\ Len(t) \in Nat
    OBVIOUS
<1> HIDE DEF r, u
<1>4. IsConcat(S, v, s, u)
    BY <1>2, ConcatParts
<1>5. r \in Seq(S) /\ Len(r) = Len(s) + Len(t) /\ Len(s) + k \in 0 .. Len(r)
    BY <1>1, <1>3 DEF IsConcat
<1>6. /\ l \in Seq(S) /\ Len(l) = Len(s) + k
      /\ \A i \in 1 .. Len(s) + k : l[i] = r[i]
    BY <1>5, BeginningFacts
<1> HIDE DEF l, v
<1>7. v \in Seq(S) /\ Len(v) = Len(s) + k
    BY <1>2, <1>4 DEF IsConcat
<1>8. ASSUME NEW a \in 1 .. Len(v) PROVE l[a] = v[a]
    <2>1. l[a] = r[a]
        BY <1>6, <1>7
    <2>2. CASE a <= Len(s)
        <3>1. a \in 1 .. Len(s)
            BY <1>3, <1>7, <2>2
        <3> QED BY <1>1, <1>4, <2>1, <3>1 DEF IsConcat
    <2>3. CASE a > Len(s)
        <3> DEFINE b == a - Len(s)
        <3>1. b \in 1 .. k /\ b \in 1 .. Len(t) /\ a = Len(s) + b
            BY <1>3, <1>7, <2>3
        <3> HIDE DEF b
        <3>2. r[a] = t[b]
            BY <1>1, <3>1 DEF IsConcat
        <3>3. v[a] = u[b]
            BY <1>2, <1>4, <3>1 DEF IsConcat
        <3> QED BY <1>2, <2>1, <3>1, <3>2, <3>3
    <2> QED BY <1>3, <1>7, <2>2, <2>3
<1>9. l = v
    BY <1>6, <1>7, <1>8, SameSequence
<1> QED BY <1>5, <1>9 DEF l, v, r, u

\* References are replaced in both parts of a concatenation.
LEMMA SubstConcat ==
    ASSUME NEW c \in AnyConfig, NEW s \in AnyText, NEW t \in AnyText
    PROVE  SubstReferences(c, s \o t)
             = SubstReferences(c, s) \o SubstReferences(c, t)
<1> DEFINE P == [ref : BOOLEAN, word : STRING]
           r == s \o t
           Sub(x) == SubstReferences(c, x)
           n == Len(t)
           T == {k \in 0 .. n :
                   Sub(Beginning(r, Len(s) + k))
                     = Sub(s) \o Sub(Beginning(t, k))}
<1>1. s \in Seq(P) /\ t \in Seq(P) /\ AnyText = Seq(P)
    BY DEF AnyText
<1> HIDE DEF P
<1>2. Len(s) \in Nat /\ n \in Nat
    BY <1>1
<1>3. r \in Seq(P) /\ IsConcat(P, r, s, t)
    <2>1. IsConcat(P, r, s, t)
        BY <1>1, ConcatParts
    <2> QED BY <2>1 DEF IsConcat
<1>4. \A x \in Seq(P) : Sub(x) \in Seq(P)
    BY <1>1, SubstReferencesType
<1>5. \A k \in 0 .. n : /\ Beginning(t, k) \in Seq(P)
                        /\ Len(s) + k \in 0 .. Len(r)
                        /\ Beginning(r, Len(s) + k) = s \o Beginning(t, k)
    BY <1>1, BeginningFacts, BeginningOfConcat
<1>6. Beginning(r, Len(r)) = r /\ Beginning(t, n) = t /\ Beginning(t, 0) = <<>>
      /\ Len(r) = Len(s) + n
    <2>1. Len(r) = Len(s) + n
        BY <1>3 DEF IsConcat
    <2>2. Len(r) \in 0 .. Len(r) /\ n \in 0 .. n
        BY <1>2, <2>1
    <2> QED BY <1>1, <1>3, <2>1, <2>2, BeginningFacts
<1>7. Sub(<<>>) = <<>>
    <2>1. <<>> \in AnyText /\ References(<<>>) = {}
        BY DEF AnyText, References
    <2> QED BY <2>1, PlainStays
<1> HIDE DEF r, Sub, n
<1>8. 0 \in T
    <2>1. 0 \in 0 .. n
        BY <1>2
    <2>2. Beginning(r, Len(s) + 0) = s \o <<>>
        BY <1>5, <1>6, <2>1
    <2>3. s \o <<>> = s /\ Sub(s) \o <<>> = Sub(s)
        BY <1>1, <1>4, ConcatEmptySeq
    <2> QED BY <1>6, <1>7, <2>1, <2>2, <2>3
<1>9. ASSUME NEW k \in 1 .. n, k - 1 \in T PROVE k \in T
    <2> DEFINE m == Len(s) + k
               p == Piece(c, t[k])
    <2>1. k \in 0 .. n /\ k - 1 \in 0 .. n /\ m \in 1 .. Len(r)
          /\ m - 1 = Len(s) + (k - 1)
        BY <1>2, <1>6
    <2>2. r[m] = t[k]
        BY <1>3 DEF IsConcat, n
    <2>3. /\ Sub(Beginning(r, m)) = Sub(Beginning(r, m - 1)) \o p
          /\ p \in Seq(P)
        <3> HIDE DEF m
        <3> QED BY <1>1, <1>3, <2>1, <2>2, SubstBeginning DEF Sub
    <2>4. Sub(Beginning(t, k)) = Sub(Beginning(t, k - 1)) \o p
        BY SubstBeginning DEF Sub, n
    <2>5. Sub(Beginning(r, m - 1)) = Sub(s) \o Sub(Beginning(t, k - 1))
        BY <1>9, <2>1
    <2>6. Sub(s) \in Seq(P) /\ Sub(Beginning(t, k - 1)) \in Seq(P)
        BY <1>1, <1>4, <1>5, <2>1
    <2>7. (Sub(s) \o Sub(Beginning(t, k - 1))) \o p
            = Sub(s) \o (Sub(Beginning(t, k - 1)) \o p)
        <3> DEFINE x == Sub(s)
                   y == Sub(Beginning(t, k - 1))
        <3>1. x \in Seq(P) /\ y \in Seq(P) /\ p \in Seq(P)
            BY <2>3, <2>6
        <3> HIDE DEF x, y, p
        <3>2. (x \o y) \o p = x \o (y \o p)
            BY <3>1, ConcatAssociative
        <3> QED BY <3>2 DEF x, y
    <2> HIDE DEF p
    <2>8. Sub(Beginning(r, m)) = Sub(s) \o Sub(Beginning(t, k))
        BY <2>3, <2>4, <2>5, <2>7
    <2> QED BY <2>1, <2>8
<1>10. n \in T
    <2> HIDE DEF T
    <2>1. 0 .. n \subseteq T
        BY <1>2, <1>8, <1>9, InductionTo
    <2> QED BY <1>2, <2>1
<1>11. Sub(r) = Sub(s) \o Sub(t)
    BY <1>6, <1>10
<1> QED BY <1>11 DEF Sub, r

\* And in all parts of one.
LEMMA SubstFlatten ==
    ASSUME NEW c \in AnyConfig, NEW n \in Nat,
           NEW seqs \in [1 .. n -> AnyText],
           NEW subs, subs = [i \in 1 .. n |-> SubstReferences(c, seqs[i])]
    PROVE  SubstReferences(c, FlattenSeq(seqs)) = FlattenSeq(subs)
<1> DEFINE P == [ref : BOOLEAN, word : STRING]
           Sub(x) == SubstReferences(c, x)
           F(k) == FlattenSeq(Beginning(seqs, k))
           G(k) == FlattenSeq(Beginning(subs, k))
           T == {k \in 0 .. n : Sub(F(k)) = G(k)}
<1>1. AnyText = Seq(P)
    BY DEF AnyText
<1> HIDE DEF P
<1>2. seqs \in [1 .. n -> Seq(P)]
    BY <1>1
<1>3. ASSUME NEW i \in 1 .. n
      PROVE  Sub(seqs[i]) \in Seq(P) /\ subs[i] = Sub(seqs[i])
    <2>1. Sub(seqs[i]) \in Seq(P)
        BY <1>1, SubstReferencesType
    <2> QED BY <2>1
<1>4. subs \in [1 .. n -> Seq(P)]
    <2> HIDE DEF Sub
    <2>1. subs = [i \in 1 .. n |-> Sub(seqs[i])]
        BY DEF Sub
    <2> QED BY <1>3, <2>1
<1>5. Sub(<<>>) = <<>>
    <2>1. <<>> \in AnyText /\ References(<<>>) = {}
        BY DEF AnyText, References
    <2> QED BY <2>1, PlainStays
<1>6. ASSUME NEW k \in 0 .. n PROVE F(k) \in Seq(P)
    <2>1. Beginning(seqs, k) \in [1 .. k -> Seq(P)]
        BY <1>2 DEF Beginning
    <2> QED BY <2>1, FlattenMembers
<1>7. F(0) = <<>> /\ G(0) = <<>>
    <2>1. Beginning(seqs, 0) = <<>> /\ Beginning(subs, 0) = <<>>
        BY DEF Beginning
    <2>2. FlattenSeq(<<>>) = <<>>
        BY DEF FlattenSeq
    <2> QED BY <2>1, <2>2
<1>8. ASSUME NEW k \in 1 .. n
      PROVE  F(k) = F(k - 1) \o seqs[k] /\ G(k) = G(k - 1) \o subs[k]
    BY <1>2, <1>4, FlattenBeginning
<1>9. F(n) = FlattenSeq(seqs) /\ G(n) = FlattenSeq(subs)
    <2>1. Beginning(seqs, n) = seqs /\ Beginning(subs, n) = subs
        BY <1>2, <1>4 DEF Beginning
    <2> QED BY <2>1
<1>10. ASSUME NEW x \in Seq(P), NEW y \in Seq(P)
       PROVE  Sub(x \o y) = Sub(x) \o Sub(y)
    BY <1>1, SubstConcat
<1> HIDE DEF Sub, F, G
<1>11. 0 \in T
    BY <1>5, <1>7
<1>12. ASSUME NEW k \in 1 .. n, k - 1 \in T PROVE k \in T
    <2>1. k - 1 \in 0 .. n /\ k \in 0 .. n
        OBVIOUS
    <2>2. Sub(F(k - 1) \o seqs[k]) = Sub(F(k - 1)) \o Sub(seqs[k])
        BY <1>2, <1>6, <1>10, <2>1
    <2>3. Sub(F(k)) = G(k)
        BY <1>3, <1>8, <1>12, <2>2
    <2> QED BY <2>1, <2>3
<1>13. n \in T
    <2> HIDE DEF T
    <2>1. 0 .. n \subseteq T
        BY <1>11, <1>12, InductionTo
    <2> QED BY <2>1
<1>14. Sub(F(n)) = G(n)
    BY <1>13
<1> QED BY <1>9, <1>14 DEF Sub

\* The keys of the configuration, by their positions.
LEMMA KeyFacts ==
    /\ Len(Keys) \in Nat /\ DOMAIN Keys = 1 .. Len(Keys)
    /\ \A i \in 1 .. Len(Keys) : Keys[i] \in ToSet(Keys)
    /\ \A k \in ToSet(Keys) : \E i \in 1 .. Len(Keys) : k = Keys[i]
    /\ \A i, j \in 1 .. Len(Keys) : Keys[i] = Keys[j] => i = j
<1>1. Keys \in Seq(STRING) /\ IsInjective(Keys)
    BY KeyAssumption
<1>2. Len(Keys) \in Nat /\ DOMAIN Keys = 1 .. Len(Keys)
    BY <1>1
<1>3. \A i, j \in 1 .. Len(Keys) : Keys[i] = Keys[j] => i = j
    BY <1>1, <1>2 DEF IsInjective
<1> QED BY <1>2, <1>3 DEF ToSet

\* The next configuration of substConfigReferenceVariables, at position i.
Replaced(c, i) == [c EXCEPT ![Keys[i]] = SubstReferences(c, @)]

\* Only the value at the position changes.
LEMMA ReplacedType ==
    ASSUME NEW c \in AnyConfig, NEW i \in 1 .. Len(Keys)
    PROVE  /\ Replaced(c, i) \in AnyConfig
           /\ Replaced(c, i)[Keys[i]] = SubstReferences(c, c[Keys[i]])
           /\ \A j \in 1 .. Len(Keys) :
                j # i => Replaced(c, i)[Keys[j]] = c[Keys[j]]
<1>1. Keys[i] \in ToSet(Keys) /\ c[Keys[i]] \in AnyText
    BY KeyFacts DEF AnyConfig
<1>2. SubstReferences(c, c[Keys[i]]) \in AnyText
    BY <1>1, SubstReferencesType
<1>3. Replaced(c, i) \in AnyConfig
    BY <1>1, <1>2 DEF AnyConfig, Replaced
<1>4. Replaced(c, i)[Keys[i]] = SubstReferences(c, c[Keys[i]])
    BY <1>1 DEF AnyConfig, Replaced
<1>5. ASSUME NEW j \in 1 .. Len(Keys), j # i
      PROVE  Replaced(c, i)[Keys[j]] = c[Keys[j]]
    BY <1>5, KeyFacts DEF AnyConfig, Replaced
<1> QED BY <1>3, <1>4, <1>5

\* A round replaces the references in every value.
LEMMA RoundType ==
    ASSUME NEW config \in AnyConfig, NEW e \in AnyConfig
    PROVE  /\ Round(config, e) \in AnyConfig
           /\ \A k \in ToSet(Keys) :
                Round(config, e)[k] = SubstReferences(config, e[k])
<1>1. DOMAIN config = ToSet(Keys)
    BY DEF AnyConfig
<1>2. ASSUME NEW k \in ToSet(Keys)
      PROVE  SubstReferences(config, e[k]) \in AnyText
    BY SubstReferencesType DEF AnyConfig
<1>3. Round(config, e) = [k \in ToSet(Keys) |-> SubstReferences(config, e[k])]
    BY <1>1 DEF Round
<1> QED BY <1>2, <1>3, Zenon DEF AnyConfig

\* To replace references in a text and then in the result is to replace them by
\* what a round makes of their values.
LEMMA NextRound ==
    ASSUME NEW config \in AnyConfig, NEW d \in AnyConfig, NEW text \in AnyText
    PROVE  SubstReferences(config, SubstReferences(d, text))
             = SubstReferences(Round(config, d), text)
<1> DEFINE n == Len(text)
           seqs == Pieces(d, text)
           e == Round(config, d)
           subs == [i \in 1 .. n |-> SubstReferences(config, seqs[i])]
<1>1. /\ n \in Nat /\ DOMAIN text = 1 .. n
      /\ \A i \in 1 .. n : text[i] \in [ref : BOOLEAN, word : STRING]
    BY TextParts
<1>2. /\ SubstReferences(d, text) = FlattenSeq(seqs)
      /\ SubstReferences(e, text) = FlattenSeq(Pieces(e, text))
    BY DEF SubstReferences, Pieces
<1>3. e \in AnyConfig
    BY RoundType
<1>4. ASSUME NEW i \in 1 .. n
      PROVE  /\ seqs[i] \in AnyText
             /\ SubstReferences(config, seqs[i]) = Pieces(e, text)[i]
    <2>1. CASE text[i].ref
        <3> DEFINE k == text[i].word
        <3>1. seqs[i] = Get(d, k) /\ Pieces(e, text)[i] = Get(e, k)
            BY <1>1, <2>1 DEF Pieces
        <3>2. DOMAIN d = ToSet(Keys) /\ DOMAIN e = ToSet(Keys)
            BY <1>3 DEF AnyConfig
        <3> HIDE DEF e, seqs
        <3>3. CASE k \in ToSet(Keys)
            <4>1. Get(d, k) = d[k] /\ Get(e, k) = e[k]
                BY <3>2, <3>3 DEF Get
            <4>2. d[k] \in AnyText
                BY <3>3 DEF AnyConfig
            <4>3. e[k] = SubstReferences(config, d[k])
                BY <3>3, RoundType DEF e
            <4> QED BY <3>1, <4>1, <4>2, <4>3
        <3>4. CASE k \notin ToSet(Keys)
            <4>1. Get(d, k) = <<>> /\ Get(e, k) = <<>>
                BY <3>2, <3>4 DEF Get, NoText
            <4>2. <<>> \in AnyText /\ References(<<>>) = {}
                BY DEF AnyText, References
            <4>3. SubstReferences(config, <<>>) = <<>>
                BY <4>2, PlainStays
            <4> QED BY <3>1, <4>1, <4>2, <4>3
        <3> QED BY <3>3, <3>4
    <2>2. CASE ~text[i].ref
        <3> DEFINE u == <<text[i]>>
        <3>1. seqs[i] = u /\ Pieces(e, text)[i] = u
            BY <1>1, <2>2 DEF Pieces
        <3>2. u \in AnyText /\ References(u) = {}
            <4>1. u \in AnyText
                BY <1>1 DEF AnyText
            <4>2. \A j \in DOMAIN u : u[j] = text[i]
                OBVIOUS
            <4> HIDE DEF u
            <4>3. References(u) = {}
                BY <2>2, <4>2 DEF References
            <4> QED BY <4>1, <4>3
        <3> HIDE DEF u, seqs, e
        <3> QED BY <3>1, <3>2, PlainStays
    <2> QED BY <2>1, <2>2
<1>5. seqs \in [1 .. n -> AnyText]
    <2>1. seqs = [i \in 1 .. n |-> seqs[i]]
        BY <1>1 DEF Pieces
    <2> HIDE DEF seqs, n
    <2> QED BY <1>4, <2>1
<1>6. subs = Pieces(e, text)
    <2>1. Pieces(e, text) = [i \in 1 .. n |-> Pieces(e, text)[i]]
        <3> HIDE DEF e
        <3> QED BY <1>1 DEF Pieces
    <2> HIDE DEF e, seqs, n
    <2> QED BY <1>4, <2>1
<1>7. SubstReferences(config, FlattenSeq(seqs)) = FlattenSeq(subs)
    <2> HIDE DEF n, seqs
    <2> QED BY <1>1, <1>5, SubstFlatten
<1> QED BY <1>2, <1>6, <1>7

\* c is the sequence of configurations during the pass.
IsPass(c, config) ==
    /\ c[0] = config
    /\ \A k \in 1 .. Len(Keys) : c[k] = Replaced(c[k - 1], k)
    /\ SubstConfig(config) = c[Len(Keys)]

\* The pass of substConfigReferenceVariables over the keys, one by one.
LEMMA PassExists ==
    ASSUME NEW config \in AnyConfig
    PROVE  \E c : IsPass(c, config)
<1> DEFINE n == Len(Keys)
           step == [p \in (1 .. n) \X AnyConfig |-> Replaced(p[2], p[1])]
           Val(f, s) == IF s = {} THEN config
                        ELSE Replaced(f[s \ {Max(s)}], Max(s))
<1>1. n \in Nat /\ DOMAIN Keys = 1 .. n
    BY KeyFacts
<1>2. step \in [(1 .. n) \X AnyConfig -> AnyConfig]
    BY ReplacedType
<1>3. \A i \in 1 .. n, d \in AnyConfig : step[<<i, d>>] = Replaced(d, i)
    OBVIOUS
<1> HIDE DEF step
<1>4. PICK f : /\ f \in [SUBSET (1 .. n) -> AnyConfig]
               /\ \A s \in SUBSET (1 .. n) :
                    f[s] = IF s = {} THEN config
                           ELSE step[<<Max(s), f[s \ {Max(s)}]>>]
    <2>1. PICK f : IsFold(f, n, AnyConfig, config, step)
        BY <1>1, <1>2, FoldRecursion
    <2> QED BY <2>1, Zenon DEF IsFold
<1>5. ASSUME NEW s \in SUBSET (1 .. n) PROVE f[s] = Val(f, s)
    <2>1. CASE s = {}
        BY <1>4, <2>1
    <2>2. CASE s # {}
        <3>1. Max(s) \in 1 .. n /\ s \ {Max(s)} \in SUBSET (1 .. n)
            <4> HIDE DEF n
            <4> QED BY <1>1, <2>2, LastPosition
        <3>2. f[s \ {Max(s)}] \in AnyConfig
            BY <1>4, <3>1
        <3> QED BY <1>3, <1>4, <2>2, <3>1, <3>2
    <2> QED BY <2>1, <2>2
<1>6. f = [s \in SUBSET (1 .. n) |-> Val(f, s)]
    <2> HIDE DEF Val
    <2> QED BY <1>4, <1>5
<1> DEFINE iter == CHOOSE g : g = [s \in SUBSET DOMAIN Keys |-> Val(g, s)]
<1>7. iter = [s \in SUBSET (1 .. n) |-> Val(iter, s)]
    BY <1>1, <1>6
<1>8. SubstConfig(config) = iter[1 .. n]
    BY <1>1 DEF SubstConfig, FoldLeft, MapThenFoldSet, Replaced
<1> HIDE DEF iter
<1> DEFINE c == [k \in 0 .. n |-> iter[1 .. k]]
<1>9. c[0] = config
    <2>1. {} \in SUBSET (1 .. n) /\ 1 .. 0 = {} /\ 0 \in 0 .. n
        BY <1>1
    <2> QED BY <1>7, <2>1
<1>10. ASSUME NEW k \in 1 .. n PROVE c[k] = Replaced(c[k - 1], k)
    <2>1. Max(1 .. k) = k /\ (1 .. k) \ {k} = 1 .. k - 1
        BY LastOfInterval
    <2>2. 1 .. k # {} /\ 1 .. k \in SUBSET (1 .. n)
        <3>1. 1 \in 1 .. k
            OBVIOUS
        <3>2. \A a \in 1 .. k : a \in 1 .. n
            BY <1>1
        <3> QED BY <3>1, <3>2
    <2>3. iter[1 .. k] = Val(iter, 1 .. k)
        <3> HIDE DEF Val
        <3> QED BY <1>7, <2>2
    <2>4. iter[1 .. k] = Replaced(iter[1 .. k - 1], k)
        BY <2>1, <2>2, <2>3
    <2>5. k \in 0 .. n /\ k - 1 \in 0 .. n
        BY <1>1
    <2> QED BY <2>4, <2>5
<1>11. c[n] = iter[1 .. n]
    BY <1>1
<1>12. IsPass(c, config)
    <2> HIDE DEF c
    <2> QED BY <1>8, <1>9, <1>10, <1>11 DEF IsPass
<1> QED BY <1>12

\* e is the sequence of configurations when all references are replaced at
\* once, again and again.
AreRounds(e, config) ==
    /\ e[0] = config
    /\ \A k \in 1 .. Len(Keys) : e[k] = Round(config, e[k - 1])
    /\ Expansion(config) = e[Len(Keys)]

\* The folds of Expansion are such rounds.
LEMMA RoundsExist ==
    ASSUME NEW config \in AnyConfig
    PROVE  \E e : AreRounds(e, config)
<1> DEFINE n == Len(Keys)
           step == [p \in (1 .. n) \X AnyConfig |-> Round(config, p[2])]
           Val(f, s) == IF s = {} THEN config
                        ELSE Round(config, f[s \ {Max(s)}])
<1>1. n \in Nat /\ DOMAIN Keys = 1 .. n
    BY KeyFacts
<1>2. step \in [(1 .. n) \X AnyConfig -> AnyConfig]
    BY RoundType
<1>3. \A i \in 1 .. n, d \in AnyConfig : step[<<i, d>>] = Round(config, d)
    OBVIOUS
<1> HIDE DEF step
<1>4. PICK f : /\ f \in [SUBSET (1 .. n) -> AnyConfig]
               /\ \A s \in SUBSET (1 .. n) :
                    f[s] = IF s = {} THEN config
                           ELSE step[<<Max(s), f[s \ {Max(s)}]>>]
    <2>1. PICK f : IsFold(f, n, AnyConfig, config, step)
        BY <1>1, <1>2, FoldRecursion
    <2> QED BY <2>1, Zenon DEF IsFold
<1>5. ASSUME NEW s \in SUBSET (1 .. n) PROVE f[s] = Val(f, s)
    <2>1. CASE s = {}
        BY <1>4, <2>1
    <2>2. CASE s # {}
        <3>1. Max(s) \in 1 .. n /\ s \ {Max(s)} \in SUBSET (1 .. n)
            <4> HIDE DEF n
            <4> QED BY <1>1, <2>2, LastPosition
        <3>2. f[s \ {Max(s)}] \in AnyConfig
            BY <1>4, <3>1
        <3> QED BY <1>3, <1>4, <2>2, <3>1, <3>2
    <2> QED BY <2>1, <2>2
<1>6. f = [s \in SUBSET (1 .. n) |-> Val(f, s)]
    <2> HIDE DEF Val
    <2> QED BY <1>4, <1>5
<1> DEFINE iter == CHOOSE g : g = [s \in SUBSET DOMAIN Keys |-> Val(g, s)]
<1>7. iter = [s \in SUBSET (1 .. n) |-> Val(iter, s)]
    BY <1>1, <1>6
<1>8. Expansion(config) = iter[1 .. n]
    BY <1>1 DEF Expansion, FoldLeft, MapThenFoldSet
<1> HIDE DEF iter
<1> DEFINE e == [k \in 0 .. n |-> iter[1 .. k]]
<1>9. e[0] = config
    <2>1. {} \in SUBSET (1 .. n) /\ 1 .. 0 = {} /\ 0 \in 0 .. n
        BY <1>1
    <2> QED BY <1>7, <2>1
<1>10. ASSUME NEW k \in 1 .. n PROVE e[k] = Round(config, e[k - 1])
    <2>1. Max(1 .. k) = k /\ (1 .. k) \ {k} = 1 .. k - 1
        BY LastOfInterval
    <2>2. 1 .. k # {} /\ 1 .. k \in SUBSET (1 .. n)
        <3>1. 1 \in 1 .. k
            OBVIOUS
        <3>2. \A a \in 1 .. k : a \in 1 .. n
            BY <1>1
        <3> QED BY <3>1, <3>2
    <2>3. iter[1 .. k] = Val(iter, 1 .. k)
        <3> HIDE DEF Val
        <3> QED BY <1>7, <2>2
    <2>4. iter[1 .. k] = Round(config, iter[1 .. k - 1])
        BY <2>1, <2>2, <2>3
    <2>5. k \in 0 .. n /\ k - 1 \in 0 .. n
        BY <1>1
    <2> QED BY <2>4, <2>5
<1>11. e[n] = iter[1 .. n]
    BY <1>1
<1>12. AreRounds(e, config)
    <2> HIDE DEF e
    <2> QED BY <1>8, <1>9, <1>10, <1>11 DEF AreRounds
<1> QED BY <1>12

\* During the pass: what is behind the position is as in the file, what is in
\* front of it was replaced when its turn came and stays.
LEMMA DuringPass ==
    ASSUME NEW config \in AnyConfig, NEW c, IsPass(c, config)
    PROVE  \A k \in 0 .. Len(Keys) :
              /\ c[k] \in AnyConfig
              /\ \A i \in 1 .. Len(Keys) :
                   /\ i > k => c[k][Keys[i]] = config[Keys[i]]
                   /\ i <= k => c[k][Keys[i]]
                                  = SubstReferences(c[i - 1], config[Keys[i]])
<1> DEFINE n == Len(Keys)
           Kept(k) == \A i \in 1 .. n :
                         i > k => c[k][Keys[i]] = config[Keys[i]]
           Gone(k) == \A i \in 1 .. n :
                         i <= k =>
                           c[k][Keys[i]]
                             = SubstReferences(c[i - 1], config[Keys[i]])
           Good(k) == c[k] \in AnyConfig /\ Kept(k) /\ Gone(k)
           S == {k \in 0 .. n : Good(k)}
<1>1. n \in Nat
    BY KeyFacts
<1>2. c[0] = config /\ \A k \in 1 .. n : c[k] = Replaced(c[k - 1], k)
    BY DEF IsPass
<1> HIDE DEF n
<1>3. 0 \in S
    <2>1. c[0] \in AnyConfig
        BY <1>2
    <2>2. Kept(0) /\ Gone(0)
        BY <1>1, <1>2
    <2> HIDE DEF Kept, Gone
    <2> QED BY <1>1, <2>1, <2>2
<1>4. ASSUME NEW k \in 1 .. n, k - 1 \in S PROVE k \in S
    <2>1. c[k - 1] \in AnyConfig /\ Kept(k - 1) /\ Gone(k - 1)
        BY <1>4
    <2>2. c[k] = Replaced(c[k - 1], k)
        BY <1>2
    <2>3. /\ c[k] \in AnyConfig
          /\ c[k][Keys[k]] = SubstReferences(c[k - 1], c[k - 1][Keys[k]])
          /\ \A j \in 1 .. n : j # k => c[k][Keys[j]] = c[k - 1][Keys[j]]
        BY <2>1, <2>2, ReplacedType DEF n
    <2>4. c[k][Keys[k]] = SubstReferences(c[k - 1], config[Keys[k]])
        BY <1>1, <2>1, <2>3
    <2>5. ASSUME NEW i \in 1 .. n, i > k
          PROVE  c[k][Keys[i]] = config[Keys[i]]
        BY <1>1, <2>1, <2>3, <2>5
    <2>6. ASSUME NEW i \in 1 .. n, i <= k
          PROVE  c[k][Keys[i]] = SubstReferences(c[i - 1], config[Keys[i]])
        <3>1. CASE i = k
            BY <2>4, <3>1
        <3>2. CASE i # k
            <4>1. i <= k - 1
                BY <1>1, <2>6, <3>2
            <4> QED BY <2>1, <2>3, <3>2, <4>1
        <3> QED BY <3>1, <3>2
    <2>7. Kept(k) /\ Gone(k)
        BY <2>5, <2>6
    <2> HIDE DEF Kept, Gone
    <2> QED BY <2>3, <2>7
<1>5. 0 .. n \subseteq S
    <2> HIDE DEF S
    <2> QED BY <1>1, <1>3, <1>4, InductionTo
<1>6. \A k \in 0 .. n : Good(k)
    <2> HIDE DEF Good
    <2> QED BY <1>5
<1> QED BY <1>6 DEF n

\* A reference to the key itself, or to a later one with references, leaves
\* references in the text it is in.
LEMMA ForwardIsLeft ==
    ASSUME NEW config \in AnyConfig, RefersForward(config)
    PROVE  \E k \in DOMAIN SubstConfig(config) :
              References(SubstConfig(config)[k]) # {}
<1> DEFINE n == Len(Keys)
<1>1. n \in Nat /\ DOMAIN Keys = 1 .. n
      /\ \A i \in 1 .. n : Keys[i] \in ToSet(Keys)
    BY KeyFacts
<1>2. PICK c : IsPass(c, config)
    BY PassExists
<1>3. PICK i \in 1 .. n, j \in 1 .. n :
             /\ i <= j
             /\ Keys[j] \in References(config[Keys[i]])
             /\ References(config[Keys[j]]) # {}
    BY <1>1 DEF RefersForward
<1> HIDE DEF n
<1>4. /\ n \in 0 .. n /\ i - 1 \in 0 .. n /\ j > i - 1 /\ i <= n
    BY <1>1, <1>3
<1>5. /\ c[n] \in AnyConfig /\ c[i - 1] \in AnyConfig
      /\ c[i - 1][Keys[j]] = config[Keys[j]]
      /\ c[n][Keys[i]] = SubstReferences(c[i - 1], config[Keys[i]])
    BY <1>2, <1>4, DuringPass DEF n
<1>6. Keys[j] \in DOMAIN c[i - 1] /\ config[Keys[i]] \in AnyText
    BY <1>1, <1>5 DEF AnyConfig
<1>7. References(c[n][Keys[i]]) # {}
    BY <1>3, <1>5, <1>6, InsertedStays
<1>8. Keys[i] \in DOMAIN c[n] /\ SubstConfig(config) = c[n]
    BY <1>1, <1>2, <1>5 DEF AnyConfig, IsPass, n
<1> QED BY <1>7, <1>8

\* A round replaces the references of the file by what the round before made of
\* their values; a text without references is the same in every round.
LEMMA DuringRounds ==
    ASSUME NEW config \in AnyConfig, NEW e, AreRounds(e, config)
    PROVE  \A k \in 0 .. Len(Keys) :
              /\ e[k] \in AnyConfig
              /\ k > 0 => \A i \in 1 .. Len(Keys) :
                   e[k][Keys[i]] = SubstReferences(e[k - 1], config[Keys[i]])
              /\ \A i \in 1 .. Len(Keys) :
                   References(config[Keys[i]]) = {} =>
                     e[k][Keys[i]] = config[Keys[i]]
<1> DEFINE n == Len(Keys)
           Made(k) == k > 0 =>
              /\ e[k - 1] \in AnyConfig
              /\ \A i \in 1 .. n :
                   e[k][Keys[i]] = SubstReferences(e[k - 1], config[Keys[i]])
           Plain(k) == \A i \in 1 .. n : References(config[Keys[i]]) = {} =>
                          e[k][Keys[i]] = config[Keys[i]]
           Good(k) == e[k] \in AnyConfig /\ Made(k) /\ Plain(k)
           S == {k \in 0 .. n : Good(k)}
<1>1. n \in Nat
      /\ \A i \in 1 .. n : Keys[i] \in ToSet(Keys)
    BY KeyFacts
<1>2. e[0] = config /\ \A k \in 1 .. n : e[k] = Round(config, e[k - 1])
    BY DEF AreRounds
<1> HIDE DEF n
<1>3. 0 \in S
    <2>1. e[0] \in AnyConfig /\ Plain(0) /\ Made(0)
        BY <1>2
    <2> HIDE DEF Plain, Made
    <2> QED BY <1>1, <2>1
<1>4. ASSUME NEW k \in 1 .. n, k - 1 \in S PROVE k \in S
    <2>1. e[k - 1] \in AnyConfig /\ Made(k - 1)
        BY <1>4
    <2>2. e[k] \in AnyConfig
        BY <1>2, <2>1, RoundType
    <2>3. ASSUME NEW i \in 1 .. n
          PROVE  e[k][Keys[i]] = SubstReferences(e[k - 1], config[Keys[i]])
        <3> DEFINE t == config[Keys[i]]
        <3>1. Keys[i] \in ToSet(Keys) /\ t \in AnyText
            BY <1>1 DEF AnyConfig
        <3>2. e[k][Keys[i]] = SubstReferences(config, e[k - 1][Keys[i]])
            BY <1>2, <2>1, <3>1, RoundType
        <3>3. CASE k = 1
            BY <1>2, <3>2, <3>3
        <3>4. CASE k # 1
            <4>1. k - 1 \in 1 .. n /\ k - 1 > 0 /\ k - 1 - 1 \in 0 .. n
                BY <1>1, <3>4
            <4>2. e[k - 1][Keys[i]] = SubstReferences(e[k - 1 - 1], t)
                BY <2>1, <4>1
            <4>3. e[k - 1] = Round(config, e[k - 1 - 1])
                BY <1>2, <4>1
            <4>4. e[k - 1 - 1] \in AnyConfig
                BY <2>1, <4>1
            <4> HIDE DEF t
            <4> QED BY <3>1, <3>2, <4>2, <4>3, <4>4, NextRound DEF t
        <3> QED BY <3>3, <3>4
    <2>4. Plain(k)
        <3> SUFFICES ASSUME NEW i \in 1 .. n, References(config[Keys[i]]) = {}
                     PROVE  e[k][Keys[i]] = config[Keys[i]]
            OBVIOUS
        <3>1. config[Keys[i]] \in AnyText
            BY <1>1 DEF AnyConfig
        <3> QED BY <2>3, <3>1, PlainStays
    <2>5. Made(k)
        BY <2>1, <2>3
    <2> HIDE DEF Plain, Made
    <2> QED BY <2>2, <2>4, <2>5
<1>5. 0 .. n \subseteq S
    <2> HIDE DEF S
    <2> QED BY <1>1, <1>3, <1>4, InductionTo
<1>6. \A k \in 0 .. n : Good(k)
    <2> HIDE DEF Good
    <2> QED BY <1>5
<1> QED BY <1>6 DEF n

\* Nor does the pass change it.
LEMMA PlainInPass ==
    ASSUME NEW config \in AnyConfig, NEW c, IsPass(c, config),
           NEW k \in 0 .. Len(Keys), NEW i \in 1 .. Len(Keys),
           References(config[Keys[i]]) = {}
    PROVE  c[k][Keys[i]] = config[Keys[i]]
<1>1. Len(Keys) \in Nat /\ Keys[i] \in ToSet(Keys)
    BY KeyFacts
<1>2. config[Keys[i]] \in AnyText
    BY <1>1 DEF AnyConfig
<1>3. CASE i > k
    BY <1>3, DuringPass
<1>4. CASE i <= k
    <2>1. c[k][Keys[i]] = SubstReferences(c[i - 1], config[Keys[i]])
        BY <1>4, DuringPass
    <2> QED BY <1>2, <2>1, PlainStays
<1> QED BY <1>1, <1>3, <1>4

\* Without such references the m-th round has what the pass made of the first m
\* keys: what these refer to was replaced before, or has no references.
LEMMA RoundsArePass ==
    ASSUME NEW config \in AnyConfig, ~RefersForward(config),
           NEW c, IsPass(c, config), NEW e, AreRounds(e, config)
    PROVE  \A m \in 0 .. Len(Keys) : \A i \in 1 .. Len(Keys) :
              i <= m => e[m][Keys[i]] = c[Len(Keys)][Keys[i]]
<1> DEFINE n == Len(Keys)
           Good(m) == \A i \in 1 .. n : i <= m => e[m][Keys[i]] = c[n][Keys[i]]
           S == {m \in 0 .. n : Good(m)}
<1>1. /\ n \in Nat /\ DOMAIN Keys = 1 .. n
      /\ \A i \in 1 .. n : Keys[i] \in ToSet(Keys)
      /\ \A k \in ToSet(Keys) : \E i \in 1 .. n : k = Keys[i]
    BY KeyFacts
<1>2. \A i, j \in 1 .. n :
         i <= j /\ Keys[j] \in References(config[Keys[i]]) =>
           References(config[Keys[j]]) = {}
    BY <1>1 DEF RefersForward
<1>3. \A m \in 1 .. n : \A i \in 1 .. n :
         e[m][Keys[i]] = SubstReferences(e[m - 1], config[Keys[i]])
    BY <1>1, DuringRounds
<1>4. \A k \in 0 .. n :
         /\ c[k] \in AnyConfig /\ e[k] \in AnyConfig
         /\ \A i \in 1 .. n :
              /\ i <= k => c[k][Keys[i]]
                             = SubstReferences(c[i - 1], config[Keys[i]])
              /\ References(config[Keys[i]]) = {} =>
                   e[k][Keys[i]] = config[Keys[i]]
    BY DuringPass, DuringRounds
<1>5. \A k \in 0 .. n : \A i \in 1 .. n :
         References(config[Keys[i]]) = {} => c[k][Keys[i]] = config[Keys[i]]
    BY PlainInPass
<1> HIDE DEF n
<1>6. 0 \in S
    BY <1>1
<1>7. ASSUME NEW m \in 1 .. n, m - 1 \in S PROVE m \in S
    <2>1. ASSUME NEW i \in 1 .. n, i <= m
          PROVE  e[m][Keys[i]] = c[n][Keys[i]]
        <3>1. /\ m - 1 \in 0 .. n /\ i - 1 \in 0 .. n /\ n \in 0 .. n /\ i <= n
              /\ Keys[i] \in ToSet(Keys)
            BY <1>1
        <3>2. e[m][Keys[i]] = SubstReferences(e[m - 1], config[Keys[i]])
            BY <1>3
        <3>3. c[n][Keys[i]] = SubstReferences(c[i - 1], config[Keys[i]])
            BY <1>4, <3>1
        <3>4. /\ DOMAIN e[m - 1] = ToSet(Keys)
              /\ DOMAIN c[i - 1] = ToSet(Keys)
            BY <1>4, <3>1 DEF AnyConfig
        <3>5. ASSUME NEW k \in References(config[Keys[i]])
              PROVE  Get(e[m - 1], k) = Get(c[i - 1], k)
            <4>1. CASE k \notin ToSet(Keys)
                BY <3>4, <4>1 DEF Get
            <4>2. CASE k \in ToSet(Keys)
                <5>1. PICK j \in 1 .. n : k = Keys[j]
                    BY <1>1, <4>2
                <5>2. CASE References(config[k]) = {}
                    <6>1. /\ e[m - 1][k] = config[k]
                          /\ c[i - 1][k] = config[k]
                        BY <1>4, <1>5, <3>1, <5>1, <5>2
                    <6> QED BY <3>4, <4>2, <6>1 DEF Get
                <5>3. CASE References(config[k]) # {}
                    <6>1. j < i
                        BY <1>1, <1>2, <5>1, <5>3
                    <6>2. j <= m - 1 /\ j <= i - 1 /\ j <= n
                        BY <1>1, <2>1, <6>1
                    <6>3. e[m - 1][k] = c[n][k]
                        BY <1>7, <5>1, <6>2
                    <6>4. c[n][k] = c[i - 1][k]
                        BY <1>4, <3>1, <5>1, <6>2
                    <6> QED BY <3>4, <4>2, <6>3, <6>4 DEF Get
                <5> QED BY <5>2, <5>3
            <4> QED BY <4>1, <4>2
        <3>6. SubstReferences(e[m - 1], config[Keys[i]])
                = SubstReferences(c[i - 1], config[Keys[i]])
            BY <3>5, SameReferences
        <3> QED BY <3>2, <3>3, <3>6
    <2>2. Good(m)
        BY <2>1
    <2> HIDE DEF Good
    <2> QED BY <2>2
<1>8. 0 .. n \subseteq S
    <2> HIDE DEF S
    <2> QED BY <1>1, <1>6, <1>7, InductionTo
<1>9. \A m \in 0 .. n : Good(m)
    <2> HIDE DEF Good
    <2> QED BY <1>8
<1> QED BY <1>9 DEF n

\* Then one pass makes of the configuration what a reader expects.
LEMMA BackwardIsExpanded ==
    ASSUME NEW config \in AnyConfig, ~RefersForward(config)
    PROVE  SubstConfig(config) = Expansion(config)
<1> DEFINE n == Len(Keys)
<1>1. PICK c : IsPass(c, config)
    BY PassExists
<1>2. PICK e : AreRounds(e, config)
    BY RoundsExist
<1>3. /\ n \in 0 .. n
      /\ \A k \in ToSet(Keys) : \E i \in 1 .. n : k = Keys[i] /\ i <= n
    BY KeyFacts
<1>4. /\ SubstConfig(config) = c[n] /\ Expansion(config) = e[n]
    BY <1>1, <1>2 DEF IsPass, AreRounds
<1>5. c[n] \in AnyConfig /\ e[n] \in AnyConfig
    BY <1>1, <1>2, <1>3, DuringPass, DuringRounds
<1>6. ASSUME NEW k \in ToSet(Keys) PROVE e[n][k] = c[n][k]
    BY <1>1, <1>2, <1>3, RoundsArePass
<1> HIDE DEF n
<1>7. e[n] = c[n]
    BY <1>5, <1>6 DEF AnyConfig
<1> QED BY <1>4, <1>7

----------------------------------------------------------------------------
(* The invariant *)

Early == {"start", "name", "init", "failed", "listening"}

\* Where the request is, what has been checked and what was done so far.
Position ==
    /\ pc \in {"start", "name", "init"} => file \in Files
    /\ pc = "start" => texts = file.texts
    /\ pc = "name" => texts = SubstConfig(file.texts)
    /\ pc = "init" =>
         texts = SetServiceName(SubstConfig(file.texts), file.name)
    /\ pc \notin {"shutdown", "after", "done"} => out = <<>>
    /\ pc \notin {"delegated", "waiting", "done"} => released = "no"
    /\ pc \in {"delegated", "waiting"} => released = pc
    /\ pc # "done" => ~shutdown
    /\ pc \in {"preflight", "method", "act", "shutdown"} => handler # "request"
    /\ pc \in {"halted", "create", "content", "run", "after", "delegated",
               "waiting"} => handler = "request"
    /\ pc = "shutdown" => handler = "quit" /\ out = <<"final">>
    /\ pc = "after" => Answered(out, status)

\* The handler was selected for the path.
Routing ==
    pc \notin Early \cup {"dispatch"} => Routed(handler, req.path, conf.quit)

\* The administrative commands have passed the checks in front of them, and a
\* shutdown was asked for and answered.
Checked ==
    /\ pc \in {"method", "act", "shutdown"} => ~OriginRefused
    /\ pc \in {"act", "shutdown"} => req.method = "GET"
    /\ shutdown => /\ pc = "done" /\ handler = "quit" /\ req.method = "GET"
                   /\ ~OriginRefused
                   /\ out # <<>> /\ out[1] = "final"

\* A content request is executed with one content, made of its parameters if it
\* has some.
Execution ==
    /\ ran # "no" => /\ pc \in {"run", "after", "delegated", "waiting", "done"}
                     /\ handler = "request"
                     /\ HasParams => ran = "params"
    /\ pc \in {"run", "after", "delegated", "waiting"} => ran # "no"
    /\ ran = "params" => content = FormToJson(req.form)

\* The three ways a request may end.
Outcome ==
    pc = "done" =>
        \/ /\ Answered(out, status) /\ released # "lost"
           /\ handler # "request" => ~OriginRefused
           /\ handler = "request" /\ status = 200 => ran # "no"
        \/ released = "lost" /\ out = <<>> /\ ran # "no"
        \/ OriginRefused /\ handler # "request" /\ out = <<>>
           /\ released = "no"

\* The inductive invariant.
IInv ==
    /\ TypeOK /\ Position /\ Routing /\ Checked /\ Execution /\ Outcome
    /\ HeadWithoutContent

\* What the forms are assumed to be.
LEMMA FormFacts ==
    ASSUME NEW form \in Forms
    PROVE  form \in Params /\ Adjacent(form)
BY FormAssumption DEF Params, Adjacent

\* The type of what form_tojson makes.
LEMMA ContentType ==
    ASSUME NEW form \in Forms
    PROVE  FormToJson(form)
             \in Seq([key : STRING, values : Seq(EncodedValues)])
BY FormFacts, FormToJsonIsGood DEF GoodRest, Records

\* The settings ServiceClosure::init reads have their types.
LEMMA SettingsType ==
    ASSUME NEW f \in Files
    PROVE  Settings(f)
             \in [cors : BOOLEAN, hosts : SUBSET Hosts, quit : BOOLEAN]
<1>1. ASSUME NEW S, NEW d \in S, NEW x \in Optional(S)
      PROVE  Default(x, d) \in S
    <2>1. CASE x = Undefined
        BY <2>1 DEF Default
    <2>2. CASE x # Undefined
        <3>1. PICK v \in S : x = <<v>>
            BY <2>2 DEF Optional, Defined
        <3> QED BY <2>2, <3>1 DEF Default
    <2> QED BY <2>1, <2>2
<1>2. /\ f.enable \in Optional(BOOLEAN)
      /\ f.origins \in Optional(SUBSET Hosts)
      /\ f.quit \in Optional(BOOLEAN)
    BY FileAssumption
<1>3. /\ Default(f.enable, FALSE) \in BOOLEAN
      /\ Default(f.origins, {}) \in SUBSET Hosts
      /\ Default(f.quit, FALSE) \in BOOLEAN
    <2>1. FALSE \in BOOLEAN /\ {} \in SUBSET Hosts
        OBVIOUS
    <2> QED BY <1>1, <1>2, <2>1, Zenon
<1> QED BY <1>3, Zenon DEF Settings

\* A step that finishes the response keeps the invariant.
LEMMA AnsweredStep ==
    ASSUME IInv,
           pc \in {"method", "act", "halted", "create", "content", "run",
                  "after", "delegated", "waiting"},
           \/ pc' = "done"
           \/ pc = "run" /\ pc' = "after",
           UNCHANGED <<request, cors, released, ran, content, shutdown>>,
           Answered(out', status'),
           handler = "request" /\ status' = 200 => ran # "no",
           req.method = "HEAD" /\ "content" \in ToSet(out') =>
               released = "delegated",
           pc \in {"method", "act"} => ~OriginRefused
    PROVE  IInv'
<1>1. TypeOK'
    BY DEF IInv, TypeOK, Received, Answered, Done, start, request
<1>2. Position'
    <2>1. CASE pc' = "done"
        BY <2>1 DEF Position
    <2>2. CASE pc = "run" /\ pc' = "after"
        BY <2>2 DEF IInv, Position, start, request
    <2> QED BY <2>1, <2>2
<1>3. Routing'
    BY DEF IInv, Routing, Early, Done, start, request
<1>4. Checked'
    BY DEF IInv, Checked, Position, Done, start, request
<1>5. Execution'
    BY DEF IInv, Execution, HasParams, Done, start, request
<1>6. Outcome'
    <2>1. released # "lost"
        BY DEF IInv, Position
    <2>2. handler # "request" => ~OriginRefused
        BY DEF IInv, Position
    <2> QED BY <2>1, <2>2 DEF Outcome, OriginRefused, start, request
<1>7. HeadWithoutContent'
    BY DEF IInv, HeadWithoutContent, Received, start, request
<1> QED BY <1>1, <1>2, <1>3, <1>4, <1>5, <1>6, <1>7 DEF IInv

\* So does a step that finishes it with a reported error.
LEMMA ErrorStep ==
    ASSUME IInv,
           pc \in {"method", "act", "halted", "create", "content", "run",
                  "after", "delegated", "waiting"},
           \/ pc' = "done"
           \/ pc = "run" /\ pc' = "after",
           UNCHANGED <<request, cors, released, ran, content, shutdown>>,
           NEW s \in {400, 404, 405, 500, 503}, ReportError(s)
    PROVE  IInv'
<1>1. /\ out \in Seq(Steps)
      /\ req.method = "HEAD" /\ "content" \in ToSet(out) =>
            released = "delegated"
    BY DEF IInv, TypeOK, HeadWithoutContent, Received
<1>2. /\ Answered(out', status')
      /\ status' # 200
      /\ "content" \in ToSet(out') => "content" \in ToSet(out)
    BY <1>1, ErrorIsAnswered
<1>3. pc \in {"method", "act"} => ~OriginRefused
    BY DEF IInv, Checked
<1> QED BY <1>1, <1>2, <1>3, AnsweredStep

----------------------------------------------------------------------------
(* The steps *)

\* The invariant holds when main starts.
LEMMA InitialInv == Init => IInv
<1> SUFFICES ASSUME Init PROVE IInv
    OBVIOUS
<1>1. TypeOK
    <2>1. conf \in [cors : BOOLEAN, hosts : SUBSET Hosts, quit : BOOLEAN]
        BY DEF Init
    <2>2. out \in Seq(Steps) /\ content \in Seq([key : STRING,
                                                 values : Seq(EncodedValues)])
        BY DEF Init
    <2>3. released \in Holders /\ handler \in Handlers /\ status \in Statuses
        BY DEF Init, Holders, Handlers, Statuses
    <2> QED BY <2>1, <2>2, <2>3 DEF Init, TypeOK, Received
<1>2. Position
    BY DEF Init, Position
<1>3. Routing
    BY DEF Init, Routing, Early
<1>4. Checked
    BY DEF Init, Checked
<1>5. Execution
    BY DEF Init, Execution
<1>6. Outcome
    BY DEF Init, Outcome
<1>7. HeadWithoutContent
    BY DEF Init, HeadWithoutContent, Received
<1> QED BY <1>1, <1>2, <1>3, <1>4, <1>5, <1>6, <1>7 DEF IInv

\* Reading the configuration file keeps the invariant.
LEMMA ReadConfigurationStep ==
    ASSUME IInv, ReadConfiguration
    PROVE  IInv'
<1>1. TypeOK'
    BY DEF IInv, TypeOK, Received, ReadConfiguration, start, request, response
<1>2. Position'
    BY DEF IInv, Position, ReadConfiguration, start, request, response
<1>3. Routing'
    BY DEF IInv, Routing, Early, ReadConfiguration, start, request, response
<1>4. Checked'
    BY DEF IInv, Checked, Position, OriginRefused, ReadConfiguration, start,
           request, response
<1>5. Execution'
    BY DEF IInv, Execution, Position, HasParams, ReadConfiguration, start,
           request, response
<1>6. Outcome'
    BY DEF IInv, Outcome, Position, OriginRefused, ReadConfiguration, start,
           request, response
<1>7. HeadWithoutContent'
    BY DEF IInv, HeadWithoutContent, Received, Position, ReadConfiguration,
           start, request, response
<1> QED BY <1>1, <1>2, <1>3, <1>4, <1>5, <1>6, <1>7 DEF IInv

\* Setting the name of the service keeps it.
LEMMA NameServiceStep ==
    ASSUME IInv, NameService
    PROVE  IInv'
<1>1. TypeOK'
    BY DEF IInv, TypeOK, Received, NameService, start, request, response
<1>2. Position'
    BY DEF IInv, Position, NameService, start, request, response
<1>3. Routing'
    BY DEF IInv, Routing, Early, NameService, start, request, response
<1>4. Checked'
    BY DEF IInv, Checked, Position, OriginRefused, NameService, start,
           request, response
<1>5. Execution'
    BY DEF IInv, Execution, Position, HasParams, NameService, start,
           request, response
<1>6. Outcome'
    BY DEF IInv, Outcome, Position, OriginRefused, NameService, start,
           request, response
<1>7. HeadWithoutContent'
    BY DEF IInv, HeadWithoutContent, Received, Position, NameService,
           start, request, response
<1> QED BY <1>1, <1>2, <1>3, <1>4, <1>5, <1>6, <1>7 DEF IInv

\* ServiceClosure::init keeps it.
LEMMA InitServiceStep ==
    ASSUME IInv, InitService
    PROVE  IInv'
<1>1. TypeOK'
    <2>1. conf' \in [cors : BOOLEAN, hosts : SUBSET Hosts, quit : BOOLEAN]
        <3>1. CASE conf' = conf
            BY <3>1 DEF IInv, TypeOK
        <3>2. CASE conf' = Settings(file)
            BY <3>2, SettingsType DEF IInv, Position, InitService
        <3> QED BY <3>1, <3>2 DEF InitService, start
    <2>2. pc' \in {"failed", "listening"} /\ UNCHANGED <<req, response>>
        BY DEF InitService
    <2> QED BY <2>1, <2>2 DEF IInv, TypeOK, Received, response
<1>2. Position'
    BY DEF IInv, Position, InitService, start, request, response
<1>3. Routing'
    BY DEF IInv, Routing, Early, InitService, start, request, response
<1>4. Checked'
    BY DEF IInv, Checked, Position, OriginRefused, InitService, start,
           request, response
<1>5. Execution'
    BY DEF IInv, Execution, Position, HasParams, InitService, start, request,
           response
<1>6. Outcome'
    BY DEF IInv, Outcome, Position, OriginRefused, InitService, start,
           request, response
<1>7. HeadWithoutContent'
    BY DEF IInv, HeadWithoutContent, Received, Position, InitService, start,
           request, response
<1> QED BY <1>1, <1>2, <1>3, <1>4, <1>5, <1>6, <1>7 DEF IInv

\* A request that comes in keeps it.
LEMMA ReceiveRequestStep ==
    ASSUME IInv, ReceiveRequest
    PROVE  IInv'
<1>1. TypeOK'
    BY DEF IInv, TypeOK, Received, ReceiveRequest, start, request, response
<1>2. Position'
    BY DEF IInv, Position, ReceiveRequest, start, request, response
<1>3. Routing'
    BY DEF IInv, Routing, Early, ReceiveRequest, start, request, response
<1>4. Checked'
    BY DEF IInv, Checked, Position, OriginRefused, ReceiveRequest, start,
           request, response
<1>5. Execution'
    BY DEF IInv, Execution, Position, HasParams, ReceiveRequest, start,
           request, response
<1>6. Outcome'
    BY DEF IInv, Outcome, Position, OriginRefused, ReceiveRequest, start,
           request, response
<1>7. HeadWithoutContent'
    <2>1. out' = <<>> /\ released' = "no"
        BY DEF IInv, Position, ReceiveRequest, response
    <2>2. "content" \notin ToSet(<<>>)
        BY StepsOfTuples
    <2> QED BY <2>1, <2>2 DEF HeadWithoutContent
<1> QED BY <1>1, <1>2, <1>3, <1>4, <1>5, <1>6, <1>7 DEF IInv

\* The dispatcher keeps it: the handler it calls fits the path.
LEMMA DispatchStep ==
    ASSUME IInv, Dispatch
    PROVE  IInv'
<1>1. Routed(handler', req.path, conf.quit)
    <2>1. conf.quit \in BOOLEAN
        BY DEF IInv, TypeOK
    <2>2. req.path \in Seq(STRING)
        BY PathAssumption DEF IInv, TypeOK, Received, Dispatch, Requests
    <2> QED BY <2>1, <2>2, DispatchRoutes
<1>2. TypeOK'
    <2>1. handler' \in Handlers
        BY <1>1 DEF Routed
    <2> QED BY <2>1 DEF IInv, TypeOK, Received, Dispatch, start
<1>3. Position'
    BY DEF IInv, Position, Dispatch, start, request, response
<1>4. Routing'
    BY <1>1 DEF Routing, Early, Dispatch, start
<1>5. Checked'
    BY DEF IInv, Checked, Position, OriginRefused, Dispatch, start, request,
           response
<1>6. Execution'
    BY DEF IInv, Execution, Position, HasParams, Dispatch, start, request,
           response
<1>7. Outcome'
    BY DEF IInv, Outcome, Position, OriginRefused, Dispatch, start, request,
           response
<1>8. HeadWithoutContent'
    BY DEF IInv, HeadWithoutContent, Received, Position, Dispatch, start,
           request, response
<1> QED BY <1>2, <1>3, <1>4, <1>5, <1>6, <1>7, <1>8 DEF IInv

\* The check of the origin keeps it: a refused one ends without an answer.
LEMMA PreflightStep ==
    ASSUME IInv, Preflight
    PROVE  IInv'
<1>1. CASE OriginRefused /\ Done /\ UNCHANGED cors
    <2>1. TypeOK'
        BY <1>1 DEF IInv, TypeOK, Received, Preflight, Done, start, request
    <2>2. Position'
        BY <1>1 DEF IInv, Position, Preflight, Done, start, request
    <2>3. Routing'
        BY <1>1 DEF IInv, Routing, Early, Preflight, Done, start, request
    <2>4. Checked'
        BY <1>1
           DEF IInv, Checked, Position, OriginRefused, Preflight, Done, start,
               request
    <2>5. Execution'
        BY <1>1
           DEF IInv, Execution, Position, HasParams, Preflight, Done, start,
               request
    <2>6. Outcome'
        BY <1>1
           DEF IInv, Outcome, Position, OriginRefused, Preflight, Done, start,
               request
    <2>7. HeadWithoutContent'
        BY <1>1
           DEF IInv, HeadWithoutContent, Received, Position, Preflight, Done,
               start, request
    <2> QED BY <2>1, <2>2, <2>3, <2>4, <2>5, <2>6, <2>7 DEF IInv
<1>2. CASE ~OriginRefused /\ pc' = "method"
              /\ cors' = (conf.cors /\ req.origin # NoOrigin)
    <2>1. TypeOK'
        BY <1>2 DEF IInv, TypeOK, Received, Preflight, Done, start, request
    <2>2. Position'
        BY <1>2 DEF IInv, Position, Preflight, Done, start, request
    <2>3. Routing'
        BY <1>2 DEF IInv, Routing, Early, Preflight, Done, start, request
    <2>4. Checked'
        BY <1>2
           DEF IInv, Checked, Position, OriginRefused, Preflight, Done, start,
               request
    <2>5. Execution'
        BY <1>2
           DEF IInv, Execution, Position, HasParams, Preflight, Done, start,
               request
    <2>6. Outcome'
        BY <1>2
           DEF IInv, Outcome, Position, OriginRefused, Preflight, Done, start,
               request
    <2>7. HeadWithoutContent'
        BY <1>2
           DEF IInv, HeadWithoutContent, Received, Position, Preflight, Done,
               start, request
    <2> QED BY <2>1, <2>2, <2>3, <2>4, <2>5, <2>6, <2>7 DEF IInv
<1> QED BY <1>1, <1>2 DEF Preflight, Done

\* The check of the method keeps it.
LEMMA CheckRequestMethodStep ==
    ASSUME IInv, CheckRequestMethod
    PROVE  IInv'
<1>1. CASE req.method = "GET" /\ pc' = "act" /\ UNCHANGED <<status, out>>
    <2>1. TypeOK'
        BY <1>1
           DEF IInv, TypeOK, Received, CheckRequestMethod, CheckMethodOr,
               start, request
    <2>2. Position'
        BY <1>1
           DEF IInv, Position, CheckRequestMethod, CheckMethodOr, start,
               request
    <2>3. Routing'
        BY <1>1
           DEF IInv, Routing, Early, CheckRequestMethod, CheckMethodOr, start,
               request
    <2>4. Checked'
        BY <1>1
           DEF IInv, Checked, Position, OriginRefused, CheckRequestMethod,
               CheckMethodOr, start, request
    <2>5. Execution'
        BY <1>1
           DEF IInv, Execution, Position, HasParams, CheckRequestMethod,
               CheckMethodOr, start, request
    <2>6. Outcome'
        BY <1>1
           DEF IInv, Outcome, Position, OriginRefused, CheckRequestMethod,
               CheckMethodOr, start, request
    <2>7. HeadWithoutContent'
        BY <1>1
           DEF IInv, HeadWithoutContent, Received, Position,
               CheckRequestMethod, CheckMethodOr, start, request
    <2> QED BY <2>1, <2>2, <2>3, <2>4, <2>5, <2>6, <2>7 DEF IInv
<1>2. CASE ReportError(405) /\ Done
    BY <1>2, ErrorStep DEF CheckRequestMethod, CheckMethodOr, Done
<1> QED BY <1>1, <1>2 DEF CheckRequestMethod, CheckMethodOr

\* The test of the maintenance flag keeps it.
LEMMA TestHaltedStep ==
    ASSUME IInv, TestHalted
    PROVE  IInv'
<1>1. CASE pc' = "create" /\ UNCHANGED <<status, out>>
    <2>1. TypeOK'
        BY <1>1 DEF IInv, TypeOK, Received, TestHalted, start, request
    <2>2. Position'
        BY <1>1 DEF IInv, Position, TestHalted, start, request
    <2>3. Routing'
        BY <1>1 DEF IInv, Routing, Early, TestHalted, start, request
    <2>4. Checked'
        BY <1>1
           DEF IInv, Checked, Position, OriginRefused, TestHalted, start,
               request
    <2>5. Execution'
        BY <1>1
           DEF IInv, Execution, Position, HasParams, TestHalted, start,
               request
    <2>6. Outcome'
        BY <1>1
           DEF IInv, Outcome, Position, OriginRefused, TestHalted, start,
               request
    <2>7. HeadWithoutContent'
        BY <1>1
           DEF IInv, HeadWithoutContent, Received, Position, TestHalted,
               start, request
    <2> QED BY <2>1, <2>2, <2>3, <2>4, <2>5, <2>6, <2>7 DEF IInv
<1>2. CASE ReportError(503) /\ Done
    BY <1>2, ErrorStep DEF TestHalted, Done
<1> QED BY <1>1, <1>2 DEF TestHalted

\* Making the context of the request keeps it.
LEMMA CreateContextStep ==
    ASSUME IInv, CreateContext
    PROVE  IInv'
<1>1. CASE pc' = "content" /\ UNCHANGED <<status, out>>
    <2>1. TypeOK'
        BY <1>1 DEF IInv, TypeOK, Received, CreateContext, start, request
    <2>2. Position'
        BY <1>1 DEF IInv, Position, CreateContext, start, request
    <2>3. Routing'
        BY <1>1 DEF IInv, Routing, Early, CreateContext, start, request
    <2>4. Checked'
        BY <1>1
           DEF IInv, Checked, Position, OriginRefused, CreateContext, start,
               request
    <2>5. Execution'
        BY <1>1
           DEF IInv, Execution, Position, HasParams, CreateContext, start,
               request
    <2>6. Outcome'
        BY <1>1
           DEF IInv, Outcome, Position, OriginRefused, CreateContext, start,
               request
    <2>7. HeadWithoutContent'
        BY <1>1
           DEF IInv, HeadWithoutContent, Received, Position, CreateContext,
               start, request
    <2> QED BY <2>1, <2>2, <2>3, <2>4, <2>5, <2>6, <2>7 DEF IInv
<1>2. CASE ReportError(404) /\ Done
    BY <1>2, ErrorStep DEF CreateContext, CatchExecError, Done
<1>3. CASE CatchExecError
    BY <1>3, ErrorStep DEF CreateContext, CatchExecError, Done
<1> QED BY <1>1, <1>2, <1>3 DEF CreateContext

\* So does a step that finishes the response with an answer.
LEMMA AnswerStep ==
    ASSUME IInv,
           pc \in {"act", "run", "delegated", "waiting"},
           \/ pc' = "done"
           \/ pc = "run" /\ pc' = "after",
           UNCHANGED <<request, cors, released, ran, content, shutdown>>,
           NEW a \in Answers, NEW withContent \in BOOLEAN,
           ReportAnswer(a, withContent),
           req.method = "HEAD" /\ withContent => released = "delegated"
    PROVE  IInv'
<1>1. out = <<>>
    BY DEF IInv, Position
<1>2. /\ Answered(out', status')
      /\ "content" \in ToSet(out') => withContent
    BY <1>1, AnswerIsAnswered
<1>3. /\ handler = "request" => ran # "no"
      /\ pc \in {"method", "act"} => ~OriginRefused
    BY DEF IInv, Position, Execution, Checked
<1> QED BY <1>2, <1>3, AnsweredStep

\* So does a step that hands the response over, to be answered later.
LEMMA ReleasedStep ==
    ASSUME IInv, pc = "run", released' \in {"delegated", "waiting"},
           pc' = released', released' = "waiting" => req.method # "HEAD",
           UNCHANGED <<request, status, cors, out, ran, content, shutdown>>
    PROVE  IInv'
<1>1. TypeOK'
    BY DEF IInv, TypeOK, Received, Holders, start, request
<1>2. Position'
    BY DEF IInv, Position, start, request
<1>3. Routing'
    BY DEF IInv, Routing, Early, start, request
<1>4. Checked'
    BY DEF IInv, Checked, Position, OriginRefused, start, request
<1>5. Execution'
    BY DEF IInv, Execution, Position, HasParams, start, request
<1>6. Outcome'
    BY DEF Outcome
<1>7. HeadWithoutContent'
    <2>1. out' = <<>>
        BY DEF IInv, Position
    <2>2. "content" \notin ToSet(<<>>)
        BY StepsOfTuples
    <2> QED BY <2>1, <2>2 DEF HeadWithoutContent, start, request
<1> QED BY <1>1, <1>2, <1>3, <1>4, <1>5, <1>6, <1>7 DEF IInv

\* So does one that loses it.
LEMMA LostStep ==
    ASSUME IInv, pc \in {"run", "delegated"}, Done, Release("lost"),
           UNCHANGED <<request, cors, ran, content, shutdown>>
    PROVE  IInv'
<1>1. out = <<>> /\ out' = <<>> /\ released' = "lost" /\ ran' # "no"
    BY DEF IInv, Position, Execution, Release
<1>2. TypeOK'
    BY DEF IInv, TypeOK, Received, Holders, Done, Release, start, request
<1>3. Position'
    BY DEF Position, Done
<1>4. Routing'
    BY DEF IInv, Routing, Early, Done, start, request
<1>5. Checked'
    BY DEF IInv, Checked, Position, Done, start, request
<1>6. Execution'
    BY DEF IInv, Execution, HasParams, Done, start, request
<1>7. Outcome'
    BY <1>1 DEF Outcome
<1>8. HeadWithoutContent'
    <2>1. "content" \notin ToSet(<<>>)
        BY StepsOfTuples
    <2> QED BY <1>1, <2>1 DEF HeadWithoutContent
<1> QED BY <1>2, <1>3, <1>4, <1>5, <1>6, <1>7, <1>8 DEF IInv

\* ping, version and id keep it.
LEMMA ReportMessageStep ==
    ASSUME IInv, ReportMessage
    PROVE  IInv'
<1>1. /\ pc = "act" /\ req.method # "HEAD"
      /\ UNCHANGED <<request, cors, released, ran, content, shutdown>>
    BY DEF IInv, Checked, ReportMessage
<1>2. CASE CatchExecError
    BY <1>1, <1>2, ErrorStep DEF CatchExecError, Done
<1>3. CASE Done /\ \E a \in Answers : ReportAnswer(a, TRUE)
    BY <1>1, <1>3, AnswerStep DEF Done
<1> QED BY <1>2, <1>3 DEF ReportMessage

\* The answer to /quit keeps it.
LEMMA ReportQuitStep ==
    ASSUME IInv, ReportQuit
    PROVE  IInv'
<1>1. out' = <<"final">> /\ out' \in Seq(Steps) /\ ToSet(out') = {"final"}
    <2>1. out = <<>>
        BY DEF IInv, Position, ReportQuit
    <2>2. out' = <<"final">>
        BY <2>1 DEF ReportQuit
    <2> QED BY <2>2, StepsOfTuples, Zenon
<1>2. TypeOK'
    BY <1>1 DEF IInv, TypeOK, Received, ReportQuit, Statuses, start, request
<1>3. Position'
    BY <1>1 DEF IInv, Position, ReportQuit, Statuses, start, request
<1>4. Routing'
    BY <1>1 DEF IInv, Routing, Early, ReportQuit, Statuses, start, request
<1>5. Checked'
    BY <1>1
       DEF IInv, Checked, Position, OriginRefused, ReportQuit, Statuses,
           start, request
<1>6. Execution'
    BY <1>1
       DEF IInv, Execution, Position, HasParams, ReportQuit, Statuses, start,
           request
<1>7. Outcome'
    BY <1>1
       DEF IInv, Outcome, Position, OriginRefused, ReportQuit, Statuses,
           start, request
<1>8. HeadWithoutContent'
    BY <1>1
       DEF IInv, HeadWithoutContent, Received, Position, ReportQuit, Statuses,
           start, request
<1> QED BY <1>2, <1>3, <1>4, <1>5, <1>6, <1>7, <1>8 DEF IInv

\* The shutdown keeps it: the client has its answer already, and an error text
\* may only come behind it.
LEMMA ShutdownStep ==
    ASSUME IInv, Shutdown
    PROVE  IInv'
<1>1. /\ pc = "shutdown" /\ out = <<"final">> /\ released = "no"
      /\ handler = "quit" /\ ~OriginRefused /\ req.method = "GET"
      /\ UNCHANGED <<request, cors, released, ran, content>>
      /\ shutdown' = TRUE /\ pc' = "done"
    BY DEF IInv, Position, Checked, Shutdown, CatchExecError, Done
<1>2. /\ Answered(out', status')
      /\ "content" \notin ToSet(out')
      /\ out' # <<>> /\ out'[1] = "final"
    <2>1. /\ out \in Seq(Steps) /\ ToSet(out) = {"final"}
          /\ out # <<>> /\ out[1] = "final"
        BY <1>1, StepsOfTuples
    <2>2. CASE UNCHANGED <<status, out>>
        BY <2>1, <2>2 DEF IInv, TypeOK, Answered
    <2>3. CASE ReportError(500)
        <3>1. /\ Answered(out', status')
              /\ "content" \notin ToSet(out')
            BY <2>1, <2>3, ErrorIsAnswered
        <3>2. out' = <<"final">> \o <<"text", "final">>
            BY <1>1, <2>3 DEF ReportError
        <3>3. out' # <<>> /\ out'[1] = "final"
            BY <3>2, FirstStepStays, StepsOfTuples
        <3> QED BY <3>1, <3>3
    <2> QED BY <2>2, <2>3 DEF Shutdown, CatchExecError
<1>3. TypeOK'
    BY <1>1, <1>2 DEF IInv, TypeOK, Received, Answered, start, request
<1>4. Position'
    BY <1>1 DEF Position
<1>5. Routing'
    BY <1>1 DEF IInv, Routing, Early, start, request
<1>6. Checked'
    BY <1>1, <1>2 DEF Checked, OriginRefused, start, request
<1>7. Execution'
    BY <1>1 DEF IInv, Execution, HasParams, start, request
<1>8. Outcome'
    <2>1. released' # "lost" /\ handler' = "quit" /\ ~OriginRefused'
        BY <1>1 DEF OriginRefused, start, request
    <2> QED BY <1>2, <2>1 DEF Outcome
<1>9. HeadWithoutContent'
    BY <1>1, <1>2 DEF HeadWithoutContent, start, request
<1> QED BY <1>3, <1>4, <1>5, <1>6, <1>7, <1>8, <1>9 DEF IInv

\* Selecting the content keeps it: parameters become the content they are
\* executed with.
LEMMA InitContentStep ==
    ASSUME IInv, InitContent
    PROVE  IInv'
<1>1. CASE ReportError(400) /\ Done /\ UNCHANGED <<ran, content>>
    BY <1>1, ErrorStep DEF InitContent, Done
<1>2. CASE /\ ~(req.post /\ HasParams)
           /\ pc' = "run"
           /\ ran' = (CASE req.post -> "body" [] HasParams -> "params"
                         [] OTHER -> "empty")
           /\ content' = FormToJson(req.form)
           /\ UNCHANGED <<status, out>>
    <2>1. /\ ran' \in {"empty", "params", "body"}
          /\ HasParams => ran' = "params"
        BY <1>2
    <2>2. content' \in Seq([key : STRING, values : Seq(EncodedValues)])
        BY <1>2, ContentType DEF IInv, TypeOK, Received, InitContent, Requests
    <2>3. TypeOK'
        BY <1>2, <2>1, <2>2
           DEF IInv, TypeOK, Received, InitContent, start, request
    <2>4. Position'
        BY <1>2, <2>1, <2>2 DEF IInv, Position, InitContent, start, request
    <2>5. Routing'
        BY <1>2, <2>1, <2>2
           DEF IInv, Routing, Early, InitContent, start, request
    <2>6. Checked'
        BY <1>2, <2>1, <2>2
           DEF IInv, Checked, Position, OriginRefused, InitContent, start,
               request
    <2>7. Execution'
        BY <1>2, <2>1, <2>2
           DEF IInv, Execution, Position, HasParams, InitContent, start,
               request
    <2>8. Outcome'
        BY <1>2, <2>1, <2>2
           DEF IInv, Outcome, Position, OriginRefused, InitContent, start,
               request
    <2>9. HeadWithoutContent'
        BY <1>2, <2>1, <2>2
           DEF IInv, HeadWithoutContent, Received, Position, InitContent,
               start, request
    <2> QED BY <2>3, <2>4, <2>5, <2>6, <2>7, <2>8, <2>9 DEF IInv
<1>3. CASE CatchExecError /\ UNCHANGED <<ran, content>>
    BY <1>3, ErrorStep DEF InitContent, CatchExecError, Done
<1> QED BY <1>1, <1>2, <1>3 DEF InitContent

\* A successful execution keeps it.
LEMMA ExecuteSucceedsStep ==
    ASSUME IInv, ExecuteSucceeds
    PROVE  IInv'
<1>1. CASE /\ \E a \in Answers : ReportAnswer(a, DoReplyContent)
           /\ pc' = "after"
           /\ UNCHANGED released
    <2>1. /\ DoReplyContent \in BOOLEAN
          /\ req.method = "HEAD" => ~DoReplyContent
        BY DEF DoReplyContent
    <2> QED BY <1>1, <2>1, AnswerStep DEF ExecuteSucceeds
<1>2. CASE Release("delegated") /\ pc' = "delegated"
    BY <1>2, ReleasedStep DEF ExecuteSucceeds, Release
<1> QED BY <1>1, <1>2 DEF ExecuteSucceeds

\* An execution that is refused, or put aside, keeps it.
LEMMA ExecuteRefusesStep ==
    ASSUME IInv, ExecuteRefuses
    PROVE  IInv'
<1>1. CASE /\ \E s \in {404, 405, 503} : ReportError(s)
           /\ pc' = "after" /\ UNCHANGED released
    BY <1>1, ErrorStep DEF ExecuteRefuses
<1>2. CASE DoReplyContent /\ Release("waiting") /\ pc' = "waiting"
    BY <1>2, ReleasedStep DEF ExecuteRefuses, Release, DoReplyContent
<1> QED BY <1>1, <1>2 DEF ExecuteRefuses

\* An execution that throws keeps it, whether the exception can be reported or
\* not.
LEMMA ExecuteThrowsStep ==
    ASSUME IInv, ExecuteThrows
    PROVE  IInv'
<1>1. CASE CatchExecError /\ UNCHANGED released
    BY <1>1, ErrorStep DEF ExecuteThrows, CatchExecError, Done
<1>2. CASE Release("lost") /\ Done
    BY <1>2, LostStep DEF ExecuteThrows
<1> QED BY <1>1, <1>2 DEF ExecuteThrows

\* What comes behind the reply keeps it.
LEMMA AfterReplyStep ==
    ASSUME IInv, AfterReply
    PROVE  IInv'
<1>1. CASE Done /\ UNCHANGED <<status, out>>
    <2>1. Answered(out', status')
        BY <1>1 DEF IInv, Position, AfterReply, Answered
    <2>2. /\ ran # "no"
          /\ req.method = "HEAD" /\ "content" \in ToSet(out') =>
                released = "delegated"
        BY <1>1 DEF IInv, Execution, HeadWithoutContent, Received, AfterReply
    <2> QED BY <1>1, <2>1, <2>2, AnsweredStep DEF AfterReply, Done
<1>2. CASE CatchExecError
    BY <1>2, ErrorStep DEF AfterReply, CatchExecError, Done
<1> QED BY <1>1, <1>2 DEF AfterReply

\* The end of the delegate requests keeps it: content for HEAD comes from here
\* only.
LEMMA CompleteDelegatedStep ==
    ASSUME IInv, CompleteDelegated
    PROVE  IInv'
<1>1. released = "delegated"
    BY DEF IInv, Position, CompleteDelegated
<1>2. CASE (\E a \in Answers : ReportAnswer(a, TRUE)) /\ UNCHANGED released
    BY <1>1, <1>2, AnswerStep DEF CompleteDelegated, Done
<1>3. CASE /\ \E s \in {404, 500, 503} : ReportError(s)
           /\ UNCHANGED released
    BY <1>3, ErrorStep DEF CompleteDelegated, Done
<1>4. CASE Release("lost")
    BY <1>4, LostStep DEF CompleteDelegated
<1> QED BY <1>2, <1>3, <1>4 DEF CompleteDelegated

\* The second execution of a waiting request keeps it.
LEMMA ProcessWaitingStep ==
    ASSUME IInv, ProcessWaiting
    PROVE  IInv'
<1>1. req.method # "HEAD"
    BY DEF IInv, Position, HeadWithoutContent, Received, ProcessWaiting
<1>2. CASE \E a \in Answers : ReportAnswer(a, TRUE)
    BY <1>1, <1>2, AnswerStep DEF ProcessWaiting, Done
<1>3. CASE \E s \in {404, 500, 503} : ReportError(s)
    BY <1>3, ErrorStep DEF ProcessWaiting, Done
<1> QED BY <1>2, <1>3 DEF ProcessWaiting

\* A step that changes nothing keeps it.
LEMMA Stuttering ==
    ASSUME IInv, UNCHANGED vars
    PROVE  IInv'
<1>1. TypeOK' /\ HeadWithoutContent'
    BY DEF IInv, TypeOK, HeadWithoutContent, Received, vars
<1>2. Position' /\ Routing' /\ Outcome'
    BY DEF IInv, Position, Routing, Early, Outcome, OriginRefused, vars
<1>3. Checked' /\ Execution'
    BY DEF IInv, Checked, Execution, OriginRefused, HasParams, vars
<1> QED BY <1>1, <1>2, <1>3 DEF IInv

----------------------------------------------------------------------------
(* The theorems *)

\* Every step keeps the invariant.
LEMMA StepInv == IInv /\ [Next]_vars => IInv'
<1> SUFFICES ASSUME IInv, [Next]_vars
             PROVE  IInv'
    OBVIOUS
<1>1. CASE ReadConfiguration
    BY <1>1, ReadConfigurationStep
<1>2. CASE NameService
    BY <1>2, NameServiceStep
<1>3. CASE InitService
    BY <1>3, InitServiceStep
<1>4. CASE ReceiveRequest
    BY <1>4, ReceiveRequestStep
<1>5. CASE Dispatch
    BY <1>5, DispatchStep
<1>6. CASE Preflight
    BY <1>6, PreflightStep
<1>7. CASE CheckRequestMethod
    BY <1>7, CheckRequestMethodStep
<1>8. CASE ReportMessage
    BY <1>8, ReportMessageStep
<1>9. CASE ReportQuit
    BY <1>9, ReportQuitStep
<1>10. CASE Shutdown
    BY <1>10, ShutdownStep
<1>11. CASE TestHalted
    BY <1>11, TestHaltedStep
<1>12. CASE CreateContext
    BY <1>12, CreateContextStep
<1>13. CASE InitContent
    BY <1>13, InitContentStep
<1>14. CASE ExecuteSucceeds
    BY <1>14, ExecuteSucceedsStep
<1>15. CASE ExecuteRefuses
    BY <1>15, ExecuteRefusesStep
<1>16. CASE ExecuteThrows
    BY <1>16, ExecuteThrowsStep
<1>17. CASE AfterReply
    BY <1>17, AfterReplyStep
<1>18. CASE CompleteDelegated
    BY <1>18, CompleteDelegatedStep
<1>19. CASE ProcessWaiting
    BY <1>19, ProcessWaitingStep
<1>20. CASE UNCHANGED vars
    BY <1>20, Stuttering
<1> QED BY <1>1, <1>2, <1>3, <1>4, <1>5, <1>6, <1>7, <1>8, <1>9, <1>10,
           <1>11, <1>12, <1>13, <1>14, <1>15, <1>16, <1>17, <1>18, <1>19, <1>20,
           Zenon DEF Next

\* The invariant holds in every state the program reaches.
THEOREM Invariant == Spec => []IInv
BY InitialInv, StepInv, PTL DEF Spec

\* Every variable stays in its type: the handlers selected by the URL map, the
\* statuses and steps of the response, the members form_tojson makes of any URL
\* parameters.
THEOREM TypeCorrect == Spec => []TypeOK
<1>1. IInv => TypeOK
    BY DEF IInv
<1> QED BY <1>1, Invariant, PTL

\* A request that is through has got a finished response, unless its origin was
\* refused or an exception came when its context had been released: then nothing
\* was written.
THEOREM NothingForgotten == Spec => []NoRequestForgotten
<1>1. ASSUME IInv, pc = "done"
      PROVE  /\ Final <=> /\ released # "lost"
                          /\ ~(OriginRefused /\ handler # "request")
             /\ released = "lost" => ran # "no"
             /\ ~Final => out = <<>>
    <2>1. "final" \notin ToSet(<<>>)
        BY StepsOfTuples
    <2>2. CASE /\ Answered(out, status) /\ released # "lost"
               /\ handler # "request" => ~OriginRefused
        BY <2>2 DEF Answered, Final
    <2>3. CASE released = "lost" /\ out = <<>> /\ ran # "no"
        BY <2>1, <2>3 DEF Final
    <2>4. CASE OriginRefused /\ handler # "request" /\ out = <<>>
               /\ released = "no"
        BY <2>1, <2>4 DEF Final
    <2> QED BY <1>1, <2>2, <2>3, <2>4 DEF IInv, Outcome
<1>2. IInv => NoRequestForgotten
    BY <1>1 DEF NoRequestForgotten
<1> QED BY <1>2, Invariant, PTL

\* exec_quit shuts the service down only for a GET of /quit that is enabled and
\* allowed, and after the client was told.
THEOREM ShutdownIsAnswered == Spec => []ShutdownAnswered
<1>1. IInv => ShutdownAnswered
    BY DEF IInv, Checked, Routing, Early, Routed, OriginRefused,
           ShutdownAnswered
<1> QED BY <1>1, Invariant, PTL

\* An error text goes out with an error status, and exec_request finishes a
\* response with status 200 only for a request that was executed.
THEOREM StatusFitsResponse == Spec => []ErrorsAreErrors
<1>1. ASSUME IInv PROVE ErrorsAreErrors
    <2>1. CASE out = <<>>
        <3>1. "text" \notin ToSet(out) /\ "final" \notin ToSet(out)
            BY <2>1, StepsOfTuples
        <3> QED BY <3>1 DEF ErrorsAreErrors, Final
    <2>2. CASE out = <<"final">> /\ handler = "quit"
        <3>1. "text" \notin ToSet(out)
            BY <2>2, StepsOfTuples
        <3> QED BY <2>2, <3>1 DEF ErrorsAreErrors
    <2>3. CASE /\ Answered(out, status)
               /\ handler = "request" /\ status = 200 => ran # "no"
        BY <2>3 DEF ErrorsAreErrors, Answered
    <2>4. CASE pc = "after"
        BY <1>1, <2>4 DEF IInv, Position, Execution, ErrorsAreErrors, Answered
    <2> QED BY <1>1, <2>1, <2>2, <2>3, <2>4 DEF IInv, Position, Outcome
<1> QED BY <1>1, Invariant, PTL

\* A HEAD request never waits for exclusive access, and it gets no content
\* unless delegate requests answer it.
THEOREM HeadGetsNoContent == Spec => []HeadWithoutContent
<1>1. IInv => HeadWithoutContent
    BY DEF IInv
<1> QED BY <1>1, Invariant, PTL

\* Whatever paths, words and components there are, administrative paths are not
\* executed as content requests, and URL parameters are the only content of a
\* request that has them.
THEOREM PathsAreReserved == Spec => []ReservedPaths
<1>1. IInv => ReservedPaths
    BY DEF IInv, Execution, Routing, Early, Routed, ReservedPaths, HasParams
<1> QED BY <1>1, Invariant, PTL

\* A request executed with its URL parameters gets every key once and in order
\* with all of its values, for any number of parameters: form_tojson loses
\* nothing, wherever the lists of equal keys are.
THEOREM ParamsAreGrouped == Spec => []ParamsByKey
<1>1. ASSUME IInv, ran = "params" PROVE ParamsByKey
    <2>1. req.form \in Forms /\ content = FormToJson(req.form)
        BY <1>1 DEF IInv, TypeOK, Execution, Received, Requests
    <2>2. GoodRest(req.form, 1, content) /\ req.form \in Params
        BY <2>1, FormFacts, FormToJsonIsGood
    <2> DEFINE Mine(i) == {n \in DOMAIN req.form :
                             req.form[n].key = content[i].key}
    <2>3. DOMAIN req.form = 1 .. Len(req.form)
        BY <2>2 DEF Params
    <2>4. \A i : Mine(i) = PositionsFrom(req.form, 1, content[i].key)
        BY <2>3 DEF PositionsFrom
    <2> HIDE DEF Mine
    <2>5. /\ {content[i].key : i \in DOMAIN content}
               = {req.form[n].key : n \in DOMAIN req.form}
          /\ \A i, j \in DOMAIN content : i < j =>
               \A m \in Mine(i), n \in Mine(j) : m < n
        BY <2>2, <2>3, <2>4 DEF GoodRest
    <2>6. ASSUME NEW i \in DOMAIN content
          PROVE  /\ Len(content[i].values) = Cardinality(Mine(i))
                 /\ \A n \in Mine(i) :
                      LET nth == Cardinality({m \in Mine(i) : m <= n}) IN
                      req.form[n].value = "" <=> content[i].values[nth] = ""
        BY <2>2, <2>4 DEF GoodRest, GoodRecord
    <2> QED BY <2>5, <2>6, Zenon DEF ParamsByKey, Mine
<1>2. IInv => ParamsByKey
    BY <1>1 DEF ParamsByKey
<1> QED BY <1>2, Invariant, PTL

\* Whatever the keys and the texts of the file: after configFromFile the
\* configuration is the expansion of the file if no key refers to itself or to
\* a later one with references; if one does then references are left. The name
\* of the option -N is set in what comes out of this.
THEOREM ReferencesAreResolved == Spec => []ReferencesResolved
<1>1. ASSUME IInv, pc \in {"name", "init"} PROVE ReferencesResolved
    <2> DEFINE passed == SubstConfig(file.texts)
    <2>1. /\ file.texts \in AnyConfig
          /\ pc = "name" => texts = passed
          /\ pc = "init" => texts = SetServiceName(passed, file.name)
        BY <1>1, FileAssumption DEF IInv, Position, AnyConfig, AnyText
    <2>2. CASE RefersForward(file.texts)
        <3>1. \E k \in DOMAIN passed : References(passed[k]) # {}
            BY <2>1, <2>2, ForwardIsLeft
        <3> QED BY <2>1, <2>2, <3>1 DEF ReferencesResolved
    <2>3. CASE ~RefersForward(file.texts)
        <3>1. passed = Expansion(file.texts)
            BY <2>1, <2>3, BackwardIsExpanded
        <3> QED BY <1>1, <2>1, <2>3, <3>1, Zenon DEF ReferencesResolved
    <2> QED BY <2>2, <2>3
<1>2. IInv => ReferencesResolved
    BY <1>1 DEF ReferencesResolved
<1> QED BY <1>2, Invariant, PTL
=============================================================================
