------------------------------ MODULE HealthBody ------------------------------
(***************************************************************************)
(* What a probe concludes from a response body                             *)
(* (src/src/scf/tools/cloud_run_evidence.py, body_is_healthy).             *)
(*                                                                         *)
(* A text is the sequence of its words, in lower case and free of          *)
(* punctuation, except for the word that stands for an indexed entry ("0:")*)
(* and the one that stands for the identifiers with an unhealthy word in   *)
(* them.                                                                   *)
(*                                                                         *)
(* A JSON value is [t |-> "bool" | "str" | "num" | "null" | "list" | "obj"]*)
(* with its content in v; an object is the sequence of its pairs, a key as *)
(* often as it was sent.                                                   *)
(***************************************************************************)
EXTENDS Naturals, Sequences, Selection

CONSTANTS
  MAX_HEALTH_DEPTH,
  JsonValues         \* the JSON values that bodies are made of

ASSUME HealthAssumption ==
  /\ MAX_HEALTH_DEPTH \in Nat
  /\ \A value \in JsonValues :
       /\ value.t \in {"bool", "str", "num", "null", "list", "obj"}
       /\ value.t = "bool" => value.v \in BOOLEAN
       /\ value.t = "list" => value.v \in Seq(JsonValues)
       /\ value.t = "obj"  => value.v \in Seq(STRING \X JsonValues)

(* _HEALTH_KEYS, _HEALTHY_MARKERS, _UNHEALTHY_WORDS, _BARE_LITERALS and the*)
(* key under which the parser leaves its own note.                         *)
HealthKeys == {"healthy", "ok", "ready", "serving", "status", "state"}

HealthyMarkers ==
  {"healthy", "ok", "ready", "serving", "up", "pass", "passing", "available"}

UnhealthyWords ==
  {"unhealthy", "unavailable", "degraded", "failing", "failed", "failure", "fail",
   "down", "false", "starting", "stopping", "terminating", "draining",
   "initializing", "warming", "pending"}

BareLiterals == {"true", "false", "null", "none", "0", "1"}

ConflictKey == "__scf_conflicting_health_keys__"

(* Words that are not letters only.                                        *)
Identifiers == {"web-down-01"}
Numerals    == {"0", "1", "0:"}

-----------------------------------------------------------------------------
(* Text.                                                                   *)

Negates(word) == word \in {"not", "never"}

(* _NEGATED_MARKER: a negator, at most two words, a marker.                *)
NegatedMarker(text) ==
  \E i, j \in DOMAIN text :
    /\ Negates(text[i]) /\ text[j] \in HealthyMarkers /\ i < j /\ j - i <= 3
    /\ \A k \in (i + 1)..(j - 1) : text[k] \notin Identifiers \cup Numerals

(* _NEGATED_FAILURE: "no failure" does not report one.                     *)
SaysFailure(text, i) ==
  \/ text[i] \in Identifiers
  \/ /\ text[i] \in UnhealthyWords
     /\ ~(i > 1 /\ text[i-1] \in {"no", "not", "zero", "never", "without", "0"})

text_says_unhealthy(text) ==
  NegatedMarker(text) \/ \E i \in DOMAIN text : SaysFailure(text, i)

text_is_healthy(text) ==
  /\ ~text_says_unhealthy(text)
  /\ \E i \in DOMAIN text : text[i] \in HealthyMarkers

(* A bare literal or a lone identifier is a value, not a report.           *)
value_reports_failure(text) ==
  /\ ~(Len(text) = 1 /\ text[1] \in BareLiterals \cup Identifiers \cup Numerals)
  /\ text_says_unhealthy(text)

-----------------------------------------------------------------------------
(* JSON.                                                                   *)

PairsOf(pairs, key) == {i \in DOMAIN pairs : pairs[i][1] = key}

(* _same_value: the values of two pairs are both booleans or neither, and  *)
(* they are equal; plain is, for each pair, what its value plainly is.     *)
SameAssertion(pairs, plain, i, j) ==
  /\ pairs[i][2].t = "bool" <=> pairs[j][2].t = "bool"
  /\ plain[i] = plain[j]

(* _object_pairs: the last pair of a key is kept.                          *)
KeptPairs(pairs) ==
  {i \in DOMAIN pairs : \A j \in PairsOf(pairs, pairs[i][1]) : j <= i}

(* A pair disagrees with what is kept of its key when it is read ...       *)
Disagreeing(pairs, plain) ==
  {i \in DOMAIN pairs :
     \E j \in PairsOf(pairs, pairs[i][1]) :
       /\ j < i
       /\ \A k \in PairsOf(pairs, pairs[i][1]) : k < i => k <= j
       /\ ~SameAssertion(pairs, plain, j, i)}

(* ... and its key is listed.                                              *)
KeyText(key) == [t |-> "str", v |-> <<key>>]

ConflictNote(pairs, plain) ==
  LET listed == Only([i \in DOMAIN pairs |-> i], Disagreeing(pairs, plain))
  IN  [t |-> "list", v |-> [n \in DOMAIN listed |-> KeyText(pairs[listed[n]][1])]]

(* Python's equality of parsed values: a boolean equals its number, lists  *)
(* are equal item by item, and objects are their kept pairs in any order,  *)
(* with the list of their own conflicts if they have any.                  *)
Plain[value \in JsonValues] ==
  CASE value.t = "bool" -> [t |-> "num", v |-> IF value.v THEN 1 ELSE 0]
    [] value.t = "list" ->
         [t |-> "list", v |-> [i \in DOMAIN value.v |-> Plain[value.v[i]]]]
    [] value.t = "obj" ->
         LET pairs  == value.v
             plain  == [i \in DOMAIN pairs |-> Plain[pairs[i][2]]]
             listed == IF Disagreeing(pairs, plain) = {} THEN {} ELSE {ConflictKey}
         IN  [t |-> "obj",
              v |-> {<<pairs[i][1], plain[i]>> :
                       i \in {k \in KeptPairs(pairs) : pairs[k][1] \notin listed}}
                    \cup {<<key, ConflictNote(pairs, plain)>> : key \in listed}]
    [] value.t \in {"str", "num", "null"} -> value

PlainValues(pairs) == [i \in DOMAIN pairs |-> Plain[pairs[i][2]]]

(* What a parsed object holds under the conflict key: the parser's list, or*)
(* what the body itself brought.                                           *)
Declared(pairs) ==
  LET own   == KeptPairs(pairs) \cap PairsOf(pairs, ConflictKey)
      plain == PlainValues(pairs)
  IN  IF Disagreeing(pairs, plain) # {} THEN ConflictNote(pairs, plain)
      ELSE IF own # {} THEN pairs[CHOOSE i \in own : TRUE][2]
      ELSE [t |-> "list", v |-> <<>>]

NamesHealthKey(list) ==
  \E i \in DOMAIN list.v : \E key \in HealthKeys : list.v[i] = KeyText(key)

(* The kept pairs that are read.                                           *)
ReadPairs(pairs) == {i \in KeptPairs(pairs) : pairs[i][1] # ConflictKey}

(* What the value of a health key says; nested are the verdicts inside it. *)
HealthVerdict(value, nested) ==
  CASE value.t = "bool" -> {value.v}
    [] value.t = "str"  -> {text_is_healthy(value.v)}
    [] value.t \in {"obj", "list"} -> IF nested = {} THEN {FALSE} ELSE {}
    [] value.t \in {"num", "null"} -> {FALSE}

(* Mutant: an object answers by its own health keys.                       *)
MutantTopLevelOnly(pair, nested) ==
  IF pair[1] \in HealthKeys THEN HealthVerdict(pair[2], {TRUE}) ELSE {}

PairVerdicts(pair, nested) ==
  IF pair[1] \in HealthKeys THEN nested \cup HealthVerdict(pair[2], nested)
  ELSE nested

(* _collect_health_verdicts, as the set of verdicts: what one value says,  *)
(* given what each value inside it does.                                   *)
OwnVerdicts(value, inside) ==
  CASE value.t = "str" -> IF value_reports_failure(value.v) THEN {FALSE} ELSE {}
    [] value.t = "obj" ->
         LET declared == Declared(value.v)
         IN  IF declared.t # "list" THEN {FALSE}
             ELSE (IF NamesHealthKey(declared) THEN {FALSE} ELSE {})
                  \cup UNION {PairVerdicts(value.v[i], inside[value.v[i][2]]) :
                                i \in ReadPairs(value.v)}
    [] value.t = "list" -> UNION {inside[value.v[i]] : i \in DOMAIN value.v}
    [] value.t \in {"bool", "num", "null"} -> {}

(* And with so many levels left to read; a value beyond them is not read.  *)
Verdicts[levels \in 0..(MAX_HEALTH_DEPTH + 1)] ==
  [value \in JsonValues |->
     IF levels = 0 THEN {FALSE} ELSE OwnVerdicts(value, Verdicts[levels - 1])]

(* A body, its guard strings stripped: empty or beyond the readable bound, *)
(* JSON that does not parse, JSON, or text.                                *)
body_is_healthy(body) ==
  CASE body.form \in {"empty", "truncated", "broken"} -> FALSE
    [] body.form = "json" ->
         LET verdicts == Verdicts[MAX_HEALTH_DEPTH + 1][body.value]
         IN  verdicts # {} /\ FALSE \notin verdicts
    [] body.form = "text" -> text_is_healthy(body.text)

-----------------------------------------------------------------------------
(* A reading by levels: every value of a body with the key it is under.    *)

(* Two pairs of an object have one key and are not the same assertion.     *)
Contradict(pairs, i, j) ==
  pairs[i][1] = pairs[j][1] /\ ~SameAssertion(pairs, PlainValues(pairs), i, j)

(* An object contradicts itself about its health; or it agrees with itself *)
(* throughout and brings the parser's note, which then says that it does,  *)
(* or is no such note.                                                     *)
ContradictsItself(pairs) ==
  \/ \E i, j \in DOMAIN pairs : pairs[i][1] \in HealthKeys /\ Contradict(pairs, i, j)
  \/ /\ \A i, j \in DOMAIN pairs : ~Contradict(pairs, i, j)
     /\ \E i \in KeptPairs(pairs) :
          /\ pairs[i][1] = ConflictKey
          /\ pairs[i][2].t = "list" => NamesHealthKey(pairs[i][2])

Unkeyed(value) == <<"-", value>>

Below(node) ==
  LET value == node[2]
  IN  CASE value.t = "obj"  -> {value.v[i] : i \in ReadPairs(value.v)}
        [] value.t = "list" -> {Unkeyed(value.v[i]) : i \in DOMAIN value.v}
        [] value.t \in {"bool", "str", "num", "null"} -> {}

LevelsFrom(node) ==
  LET level[n \in 0..(MAX_HEALTH_DEPTH + 1)] ==
        IF n = 0 THEN {node} ELSE UNION {Below(above) : above \in level[n - 1]}
  IN  level

Everything(node) ==
  LET level == LevelsFrom(node)
  IN  UNION {level[n] : n \in DOMAIN level}

Statements(node) == {n \in Everything(node) : n[1] \in HealthKeys}

Denies(node) ==
  LET value == node[2]
  IN  \/ /\ value.t = "str"
         /\ \/ value_reports_failure(value.v)
            \/ node[1] \in HealthKeys /\ ~text_is_healthy(value.v)
      \/ value.t = "obj" /\ ContradictsItself(value.v)
      \/ /\ node[1] \in HealthKeys
         /\ \/ value.t = "bool" /\ value.v = FALSE
            \/ value.t \in {"num", "null"}
            \/ /\ value.t \in {"obj", "list"}
               /\ Statements(Unkeyed(value)) = {}

(* A value is a healthy answer when it can be read to its last level, says *)
(* so somewhere, and nothing in it, however deep, says otherwise.          *)
HealthyByLevels(value) ==
  LET root == Unkeyed(value)
  IN  /\ LevelsFrom(root)[MAX_HEALTH_DEPTH + 1] = {}
      /\ Statements(root) # {}
      /\ \A node \in Everything(root) : ~Denies(node)

IsBody(body) ==
  /\ body.form \in {"empty", "truncated", "broken", "json", "text"}
  /\ body.form = "json" => body.value \in JsonValues

(* What a body says, whoever reads it.                                     *)
SaysHealthy(body) ==
  \/ body.form = "json" /\ HealthyByLevels(body.value)
  \/ body.form = "text" /\ text_is_healthy(body.text)

(* The verdict on any JSON body is the reading by levels                   *)
(* (cloud_run_evidence.py:178-263, 311-402).                               *)
ReadsByLevels ==
  \A value \in JsonValues :
    body_is_healthy([form |-> "json", value |-> value]) <=> HealthyByLevels(value)
=============================================================================
