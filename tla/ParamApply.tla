----------------------------- MODULE ParamApply -----------------------------
(***************************************************************************)
(* Camera parameters of a real run: ApplyParams of                         *)
(* src/src/backends/real_sdk/apply_params.cpp over the node map of         *)
(* node_map_adapter.cpp and the key map of param_key_map.cpp.              *)
(*                                                                         *)
(* A request names a generic key; the key map gives the node; the node's   *)
(* type and range decide what is written to the node map and then set on   *)
(* the backend, which takes every value that is not empty, and no request  *)
(* is.  One parameter is one step.                                         *)
(*                                                                         *)
(* A value is a number, or a word of an enumeration that may be spelled in *)
(* another case: [kind, at, exact].                                        *)
(***************************************************************************)
EXTENDS Arrangement, Functions

CONSTANTS
  Priority,   \* generic key |-> rank in the order of application
  Lenient,    \* keys that are best effort in a strict run, too
  CaseBlind,  \* keys whose words match in any case
  GigEKeys,   \* keys of the transport, left out on other transports
  Nodes       \* node |-> its type, min, max, words and first value

ASSUME ParamAssumption ==
  /\ GigEKeys \subseteq Lenient
  /\ \A n \in DOMAIN Nodes :
       Nodes[n].type = "number" =>
         Nodes[n].min \in Int /\ Nodes[n].max \in Int /\ Nodes[n].min <= Nodes[n].max

\* What a scenario may ask for
Request ==
  [key : DOMAIN Priority, value : [kind : {"number", "word"}, at : Int, exact : BOOLEAN]]

VARIABLES
  todo,   \* requests not yet applied, in order
  nodes,  \* the node map's values
  rows    \* readback rows; those not applied are the unsupported parameters

paramVars == <<todo, nodes, rows>>

FreshNodes == [n \in DOMAIN Nodes |-> Nodes[n].first]

\* OrderApplyInputs: a stable sort by rank, sizes before offsets.
Ordered(requests) ==
  LET of(rank) == Kept(requests, {i \in DOMAIN requests : Priority[requests[i].key] = rank})
  IN  of(0) \o of(1) \o of(2) \o of(3) \o of(10)

\* Broken form: a key without a node is skipped in a strict run.
StrictIfMapped(r, strict, keys) == strict /\ r.key \notin Lenient /\ r.key \in DOMAIN keys

\* ResolveModeForRule
IsStrict(r, strict, keys) == strict /\ r.key \notin Lenient

NodeOf(r, keys) == IF r.key \in DOMAIN keys THEN keys[r.key] ELSE "none"

\* ClampWithRange
Clamped(v, spec) ==
  [v EXCEPT !.at = IF @ < spec.min THEN spec.min ELSE IF @ > spec.max THEN spec.max ELSE @]

\* The node exists and takes a value made of the request.
Accepts(r, node) ==
  /\ node \in DOMAIN Nodes
  /\ LET spec == Nodes[node]
     IN  \/ spec.type = "number" /\ r.value.kind = "number"
         \/ /\ spec.type = "word"
            /\ r.value.kind = "word" /\ r.value.at \in spec.words
            /\ r.value.exact \/ r.key \in CaseBlind
         \/ spec.type = "text"

\* Prepare...Write: what the node is set to.
Prepared(r, node) ==
  CASE Nodes[node].type = "number" -> Clamped(r.value, Nodes[node])
    [] Nodes[node].type = "word" -> [r.value EXCEPT !.exact = TRUE]
    [] Nodes[node].type = "text" -> r.value

\* Broken form: the backend is set to what was asked for.
AsRequested(r, node) == r.value

\* What the backend is set to.
BackendValue(r, node) == Prepared(r, node)

AppliedRow(r, node) ==
  [key |-> r.key, node |-> node, applied |-> TRUE,
   adjusted |-> Prepared(r, node) # r.value, actual |-> Prepared(r, node)]

UnsupportedRow(r, node) ==
  [key |-> r.key, node |-> node, applied |-> FALSE, adjusted |-> FALSE, actual |-> r.value]

\* Parameters left out for the transport are reported after the others.
SkippedRows(skipped) == [i \in DOMAIN skipped |-> UnsupportedRow(skipped[i], "none")]

Unsupported(rs) == SelectSeq(rs, LAMBDA row : ~row.applied)
Adjusted(rs) == SelectSeq(rs, LAMBDA row : row.applied /\ row.adjusted)
=============================================================================
