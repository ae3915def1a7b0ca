------------------------------- MODULE Redaction -------------------------------
(***************************************************************************)
(* security/redaction.py: the rewriting of a connector configuration on    *)
(* its way out of the service.  A configuration is a tree of dicts and     *)
(* lists, given by its nodes: each path of keys and indices that leads to  *)
(* one is mapped to what is there, a dict, a list, a literal string, a     *)
(* secret:// reference or a scalar that is not a string.  Key names appear *)
(* by what the patterns and lists of the code make of them.                *)
(***************************************************************************)
EXTENDS Sequences, FiniteSets, Integers

CONSTANTS
  Keys,             \* key names, in lower case
  SensitiveKeys,    \* those SENSITIVE_KEY matches
  STRUCTURAL_KEYS,
  HeadersKey,       \* "headers"
  NoKey             \* in place of a key, where there is none

ASSUME KeyAssumption ==
  /\ SensitiveKeys \cup STRUCTURAL_KEYS \cup {HeadersKey} \subseteq Keys
  /\ HeadersKey \notin SensitiveKeys \cup STRUCTURAL_KEYS
  /\ NoKey \notin Keys

\* A step into a dict is a key, a step into a list an index.
InDict(k) == [key |-> k]
InList(i) == [index |-> i]
Steps     == [key : Keys] \cup [index : Nat]

Containers == {"dict", "list"}
Leafs      == {"reference", "literal", "scalar"}
REDACTED   == "[redacted]"

\* p leads to the dict or list that q leads into.
Parent(q) == SubSeq(q, 1, Len(q) - 1)
ChildOf(p, q) == q # <<>> /\ Parent(q) = p

\* What a JSON object is: every node but the outermost dict is in a dict by a
\* key or in a list by an index.
IsConfig(config) ==
  /\ config \in [DOMAIN config -> Containers \cup Leafs]
  /\ DOMAIN config \subseteq Seq(Steps)
  /\ <<>> \in DOMAIN config /\ config[<<>>] = "dict"
  /\ \A q \in DOMAIN config \ {<<>>} :
       /\ Parent(q) \in DOMAIN config
       /\ config[Parent(q)] = IF "key" \in DOMAIN q[Len(q)] THEN "dict" ELSE "list"

-----------------------------------------------------------------------------

\* Mutant: a denylist, publishing every string under a key it does not know.
MutantRedactValue(key, value, parent_sensitive) ==
  IF value = "reference" THEN value
  ELSE IF parent_sensitive \/ key \in SensitiveKeys THEN REDACTED
  ELSE value

\* redact_value.
redact_value(key, value, parent_sensitive) ==
  IF value = "reference" THEN value
  ELSE IF parent_sensitive \/ key \in SensitiveKeys THEN REDACTED
  ELSE IF value # "literal" \/ key \in STRUCTURAL_KEYS THEN value
  ELSE REDACTED

\* Mutant: no header value is shown, not even a reference.
MutantRedactHeaders(value) == REDACTED

\* _redact_headers, on the value of one header.
redact_headers(value) == IF value = "reference" THEN value ELSE REDACTED

\* The call of the recursion that a node is the value of: _redact_any with
\* the key and what is inherited, _redact_headers, or none at all for what is
\* buried in the value of a header.  The outermost is that of redact_config.
Call(function, key, parent_sensitive) ==
  [function |-> function, key |-> key, parent_sensitive |-> parent_sensitive]
Outermost == Call("redact_any", NoKey, FALSE)

Sensitive(call) == call.parent_sensitive \/ call.key \in SensitiveKeys

\* The call for what lies one step below the value of a call.
Descend(call, step) ==
  CASE call.function # "redact_any" ->
         Call("none", call.key, Sensitive(call))
    [] call.function = "redact_any" /\ "key" \in DOMAIN step /\ call.key = HeadersKey ->
         Call("redact_headers", step.key, Sensitive(call))
    [] call.function = "redact_any" /\ "key" \in DOMAIN step /\ call.key # HeadersKey ->
         Call("redact_any", step.key, Sensitive(call))
    [] call.function = "redact_any" /\ "key" \notin DOMAIN step ->
         Call("redact_any", call.key, Sensitive(call))

\* The call for the node at the end of a path, from the root down.
CallFor(path) ==
  LET call[n \in Nat] == IF n = 0 THEN Outermost ELSE Descend(call[n - 1], path[n])
  IN call[Len(path)]

\* What a call makes of its value; the items of a container are calls of
\* their own.
redact_any(call, value) ==
  CASE call.function = "redact_headers" -> redact_headers(value)
    [] call.function = "redact_any" /\ value \in Containers -> value
    [] call.function = "redact_any" /\ value \notin Containers ->
         redact_value(call.key, value, Sensitive(call))

redact_config(config) ==
  LET reached == {p \in DOMAIN config : CallFor(p).function # "none"}
  IN [p \in reached |-> redact_any(CallFor(p), config[p])]

-----------------------------------------------------------------------------
(* What redaction is meant to do, stated on the paths of the tree.          *)

\* Each leaf, and each empty dict or list, with the path that leads to it.
Leaves(config) ==
  {<<p, config[p]>> : p \in {q \in DOMAIN config : \A r \in DOMAIN config : ~ChildOf(q, r)}}

KeyPositions(path) == {i \in DOMAIN path : "key" \in DOMAIN path[i]}

\* The keys on a path, and the one closest to the leaf.
KeysOn(path) == {path[i].key : i \in KeyPositions(path)}
Innermost(path) ==
  LET last == CHOOSE i \in KeyPositions(path) : \A j \in KeyPositions(path) : j <= i
  IN path[last].key

\* Where the value of a header is on a path: right below a dict that is the
\* value of "headers" itself or an item of a list under it.
HeaderValueAt(path, n) ==
  /\ n \in KeyPositions(path)
  /\ \E m \in KeyPositions(path) :
       /\ m < n /\ path[m].key = HeadersKey
       /\ \A j \in (m + 1)..(n - 1) : j \notin KeyPositions(path)

IsHeaderValue(path) == \E n \in DOMAIN path : HeaderValueAt(path, n)

\* A literal that must not leave the service: under a header, anywhere below
\* a key that sounds like a credential, or under a name nobody knows.
MustHide(path) ==
  \/ IsHeaderValue(path)
  \/ KeysOn(path) \cap SensitiveKeys # {}
  \/ Innermost(path) \notin STRUCTURAL_KEYS

\* What is shown as it is: a reference, unless it is buried in the value of a
\* header, and what is neither a credential by its place nor a string under
\* an unknown name.
MayShow(path, v) ==
  \/ v = "reference" /\ \A n \in DOMAIN path : HeaderValueAt(path, n) => n = Len(path)
  \/ v \notin {"reference", "literal"} /\ ~IsHeaderValue(path)
       /\ KeysOn(path) \cap SensitiveKeys = {}
  \/ v = "literal" /\ ~MustHide(path)
=============================================================================
