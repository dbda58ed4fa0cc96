------------------------------- MODULE JsonWire -----------------------------
(***************************************************************************)
(* The two JSON front ends of the verifiers: transport parsing             *)
(* (loads_no_duplicate_keys in Python, parseStrictJson in TypeScript) and  *)
(* the canonical form that is signed and hashed (ACTENON-JCS-STRICT-1).    *)
(*                                                                         *)
(* A document is a record: kind "object", "array" or that of a scalar's    *)
(* lexeme; keys, in order of appearance and perhaps repeated; items.       *)
(***************************************************************************)
EXTENDS Integers, Sequences, SequencesExt, FiniteSets

CONSTANTS MaxDepth,        \* 128: nesting of a document in transport
          MaxCanonical     \* 32: nesting of a canonical value, its root at 0

Scalars == {"string", "lone_surrogate", "integer", "unsafe_integer", "fraction", "literal"}

Scalar(kind) == [kind |-> kind, keys |-> <<>>, items |-> <<>>]
Array(items) == [kind |-> "array", keys |-> <<>>, items |-> items]
Object(keys, items) == [kind |-> "object", keys |-> keys, items |-> items]

Repeats(keys) == Cardinality(ToSet(keys)) # Len(keys)

RECURSIVE AnyRepeats(_)
AnyRepeats(d) == Repeats(d.keys) \/ \E n \in DOMAIN d.items : AnyRepeats(d.items[n])

(* validate_json_depth: a stack of values with their depth, the root at 1. *)
RECURSIVE DepthWithin(_, _)
DepthWithin(stack, limit) ==
    \/ stack = <<>>
    \/ LET top == Last(stack)
           children == [n \in DOMAIN top.value.items |->
                           [value |-> top.value.items[n], depth |-> top.depth + 1]]
       IN  top.depth <= limit /\ DepthWithin(Front(stack) \o children, limit)

ValidDepth(d, limit) == DepthWithin(<<[value |-> d, depth |-> 1]>>, limit)

(* loads_no_duplicate_keys: fractions and lone surrogates pass here.       *)
PyLoads(d) == ~AnyRepeats(d) /\ ValidDepth(d, MaxDepth)

(* Parser.value, object, array, string, number: recursive descent from     *)
(* depth 0, where a container parses its items one level down.             *)
RECURSIVE TsValue(_, _)
TsValue(d, depth) ==
    /\ depth <= MaxDepth
    /\ d.kind \in {"object", "array", "string", "integer", "literal"}
    /\ ~Repeats(d.keys)
    /\ \A n \in DOMAIN d.items : TsValue(d.items[n], depth + 1)

TsParses(d) == TsValue(d, 0)

(***************************************************************************)
(* Canonical form.  Keys are naturals in their UTF-8 order, which is also  *)
(* the order of code points that Python sorts by.                          *)
(***************************************************************************)

SortedKeys(d) == SetToSortSeq(ToSet(d.keys), <)

ItemOf(d, key) == d.items[CHOOSE n \in DOMAIN d.keys : d.keys[n] = key]

(* Mutation of Members: members keep the order of the document.            *)
MembersAsGiven(d) == [n \in DOMAIN d.keys |-> <<d.keys[n], d.items[n]>>]

Members(d) == [n \in DOMAIN SortedKeys(d) |-> <<SortedKeys(d)[n], ItemOf(d, SortedKeys(d)[n])>>]

(* The canonical text as a tree: a scalar, the texts of an array, or the   *)
(* keys and texts of an object.                                            *)
RECURSIVE CanonicalText(_)
CanonicalText(d) ==
    CASE d.kind = "array" -> Array([n \in DOMAIN d.items |-> CanonicalText(d.items[n])])
      [] d.kind = "object" -> Object([n \in DOMAIN Members(d) |-> Members(d)[n][1]],
                                     [n \in DOMAIN Members(d) |-> CanonicalText(Members(d)[n][2])])
      [] OTHER -> d

(* _canonicalize_string and the type checks of _canonicalize_json.         *)
StringCanonical(d) == d.kind # "lone_surrogate"
ScalarCanonical(d) == StringCanonical(d) /\ d.kind # "fraction"

RECURSIVE EveryScalar(_)
EveryScalar(d) == ScalarCanonical(d) /\ \A n \in DOMAIN d.items : EveryScalar(d.items[n])

RECURSIVE Kinds(_)
Kinds(d) == {d.kind} \cup UNION {Kinds(d.items[n]) : n \in DOMAIN d.items}

(* canonicalize_json: the shared depth check counts the root at 1.         *)
PyCanonical(d) == EveryScalar(d) /\ ValidDepth(d, MaxCanonical + 1)

RECURSIVE TsCanonicalAt(_, _)
TsCanonicalAt(d, depth) ==
    /\ depth <= MaxCanonical
    /\ d.kind \notin {"fraction", "unsafe_integer"}
    /\ \A n \in DOMAIN d.items : TsCanonicalAt(d.items[n], depth + 1)

(* What each side can hash: parsed from the wire, then canonicalised.      *)
PySigns(d) == PyLoads(d) /\ PyCanonical(d)
TsSigns(d) == TsParses(d) /\ TsCanonicalAt(d, 0)

(***************************************************************************)
(* One document is read by both.                                           *)
(***************************************************************************)
CONSTANT Documents

VARIABLES document, read

vars == <<document, read>>

Init == document \in Documents /\ read = "unread"

Read ==
    /\ read = "unread"
    /\ read' = CASE PySigns(document) /\ TsSigns(document) -> "both"
                 [] PySigns(document) -> "python"
                 [] TsSigns(document) -> "typescript"
                 [] OTHER -> "neither"
    /\ UNCHANGED document

Next == Read

Spec == Init /\ [][Next]_vars

(* The value a document denotes: the order of members does not matter.     *)
RECURSIVE SameValue(_, _)
SameValue(a, b) ==
    /\ a.kind = b.kind /\ Len(a.items) = Len(b.items)
    /\ IF a.kind = "object"
       THEN ToSet(a.keys) = ToSet(b.keys) /\ \A k \in ToSet(a.keys) : SameValue(ItemOf(a, k), ItemOf(b, k))
       ELSE \A n \in DOMAIN a.items : SameValue(a.items[n], b.items[n])

(* What TypeScript can hash, Python can; an integer beyond the safe range  *)
(* is the only thing Python alone hashes.  Two documents have one          *)
(* canonical text if and only if they denote one value.                    *)
CanonicalAgreement ==
    /\ read # "typescript"
    /\ read = "python" => "unsafe_integer" \in Kinds(document)
    /\ read = "both" => \A e \in Documents : PySigns(e) =>
          ((CanonicalText(e) = CanonicalText(document)) = SameValue(e, document))
=============================================================================
