---------------------------- MODULE Configuration ----------------------------
(***************************************************************************)
(* What the service makes of its configuration file: the replacement of    *)
(* references to other values in configFromFile, the service name of the   *)
(* command line, and what ServiceClosure::init reads for the dispatch of   *)
(* requests.                                                               *)
(*                                                                         *)
(* A text is a sequence of words and references; a reference that is left  *)
(* in a text is read by the rest of the program as the characters          *)
(* "{key}".                                                                *)
(***************************************************************************)
EXTENDS Integers, SequencesExt, FiniteSetsExt

CONSTANTS
    Keys            \* the keys with string values, in the order of the object

ASSUME KeyAssumption == Keys \in Seq(STRING) /\ IsInjective(Keys)

Word(w) == [ref |-> FALSE, word |-> w]
RefTo(k) == [ref |-> TRUE, word |-> k]

References(text) == {text[i].word : i \in {j \in DOMAIN text : text[j].ref}}

NoText == <<>>

\* json::value::get with the default "": what is no string counts as missing.
Get(config, k) == IF k \in DOMAIN config THEN config[k] ELSE NoText

\* The text with its references replaced by what config holds for them. What
\* has been inserted is not searched again.
SubstReferences(config, text) ==
    FlattenSeq([i \in DOMAIN text |->
        IF text[i].ref THEN Get(config, text[i].word) ELSE <<text[i]>>])

\* Wrong variant: the references are looked up in a copy of the file.
SubstConfigFromCopy(config) ==
    FoldLeft(LAMBDA c, k : [c EXCEPT ![k] = SubstReferences(config, @)],
             config, Keys)

\* substConfigReferenceVariables(config, config): one pass over the object in
\* the order of its keys, in place.
SubstConfig(config) ==
    FoldLeft(LAMBDA c, k : [c EXCEPT ![k] = SubstReferences(c, @)],
             config, Keys)

\* The option -N sets service.name when the references have been replaced.
SetServiceName(config, name) ==
    IF name = NoText THEN config ELSE [config EXCEPT !["service.name"] = name]

\* A setting the file need not have is a sequence of at most one value.
Undefined == <<>>
Defined(value) == <<value>>
Optional(S) == {Undefined} \cup {Defined(x) : x \in S}
Default(setting, default) == IF setting = Undefined THEN default ELSE setting[1]

\* loadHtmlConfiguration throws: html.css without a source, or with several.
HtmlRefused(css) == css # Undefined /\ Cardinality(css[1]) # 1

\* readIncludeContent may throw: html.css.file names a file to be read.
HtmlUnreadable(css) == css # Undefined /\ "file" \in css[1]

\* loadCorsConfiguration and loadProtocolConfiguration.
Settings(file) ==
    [cors  |-> Default(file.enable, FALSE),
     hosts |-> Default(file.origins, {}),
     quit  |-> Default(file.quit, FALSE)]

----------------------------------------------------------------------------
(* What a reader of the file expects *)

\* All references replaced at once, until none of an acyclic file is left.
Round(config, current) ==
    [k \in DOMAIN config |-> SubstReferences(config, current[k])]

Expansion(config) ==
    FoldLeft(LAMBDA current, k : Round(config, current), config, Keys)

\* A key that refers to itself, or to a later key that has references too.
RefersForward(config) ==
    \E i, j \in DOMAIN Keys :
        /\ i <= j
        /\ Keys[j] \in References(config[Keys[i]])
        /\ References(config[Keys[j]]) # {}
=============================================================================
