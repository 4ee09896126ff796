------------------------------- MODULE Config -------------------------------
(***************************************************************************)
(* coypu::config::CoypuConfig (include/echidna/config.hpp, src/config.cpp):*)
(* Parse builds a tree of nodes from the events of libyaml, with a stack   *)
(* of the collections around the one it is in and, in each mapping, the    *)
(* key that waits for its value. libyaml is external: it walks through     *)
(* documents, closes what it opened, and may stop with an error anywhere.  *)
(* Scalars are numbers; the root enters the first document under ROOT.     *)
(***************************************************************************)
EXTENDS Integers, Sequences, SequencesExt

CONSTANTS
  Scalars,       \* the scalars of a file
  MaxNodes,      \* bound on the scalars, collections and aliases of a file
  MaxDepth,      \* bound on the collections open at once
  MaxDocuments   \* bound on the documents

ROOT == 0        \* "<<ROOT>>", and no key

ASSUME ScalarsAssumption == Scalars \subseteq Nat \ {ROOT}
ASSUME BoundsAssumption  == {MaxNodes, MaxDepth, MaxDocuments} \subseteq Nat

VARIABLES
  nodes,        \* the CoypuConfig objects, in the order they were made
  curConfig,    \* the one that is added to
  configStack,  \* the ones around it
  done, fail,   \* the loop has ended; with an error of libyaml
  asserted,     \* an assertion failed: the program is gone
  (* libyaml, and what the file says *)
  document,     \* "outside" or "inside" of a document
  documents,    \* how many have begun
  open,         \* the collections that are open: type, what is in them, key
  value,        \* what the first document says, once it has ended
  odd           \* the events Parse does not expect

program == <<nodes, curConfig, configStack, done, fail, asserted>>
file    == <<document, documents, open, value, odd>>
vars    == <<program, file>>

(* odd: "alias"; "key", a collection as a key; "document", a collection   *)
(* as a later document.                                                    *)

-----------------------------------------------------------------------------
(* CoypuConfig. *)

New(type, scalar) ==
  [type |-> type, value |-> scalar, maps |-> [k \in {} |-> 0], seqs |-> <<>>,
   lastKey |-> ROOT, isValue |-> FALSE]

(* Mutant: _maps[key] = item *)
Assign(map, key, item) == [k \in DOMAIN map \cup {key} |-> IF k = key THEN item ELSE map[k]]

(* _maps.insert: the first item of a key stays. *)
Insert(map, key, item) == IF key \in DOMAIN map THEN map ELSE Assign(map, key, item)

KeyTaken(node, key) == [node EXCEPT !.lastKey = key, !.isValue = TRUE]

(* Add, what becomes of the node. *)
Added(node, item, new) ==
  IF node.type = "seq" THEN [node EXCEPT !.seqs = Append(@, item)]
  ELSE IF node.isValue THEN [node EXCEPT !.maps = Insert(@, node.lastKey, item), !.isValue = FALSE]
  ELSE KeyTaken(node, new.value)

(* Add, its assertion: a collection is no key. *)
MayAdd(node, new) == node.type = "map" => node.isValue \/ new.type = "scalar"

Add(new) ==
  /\ nodes' = Append([nodes EXCEPT ![curConfig] = Added(@, Len(nodes) + 1, new)], new)
  /\ asserted' = ~MayAdd(nodes[curConfig], new)

-----------------------------------------------------------------------------
(* What the file says: a value enters the collection around it when it is  *)
(* complete; of the values of a key the first counts.                      *)

Entered(top, v) ==
  IF top.type = "seq" THEN [top EXCEPT !.items = Append(@, v)]
  ELSE IF top.key # ROOT
  THEN [top EXCEPT !.items = [k \in DOMAIN @ \cup {top.key} |-> IF k \in DOMAIN @ THEN @[k] ELSE v],
                   !.key = ROOT]
  ELSE [top EXCEPT !.key = v[2]]

Says(v, around) ==
  IF around = <<>>
  THEN /\ open' = <<>> /\ document' = "outside"
       /\ value' = IF documents = 1 THEN v ELSE value
  ELSE /\ open' = Append(Front(around), Entered(Last(around), v))
       /\ UNCHANGED <<document, value>>

KeyDue == open # <<>> /\ Last(open).type = "map" /\ Last(open).key = ROOT

Content == document = "inside" /\ Len(nodes) < MaxNodes + 2

-----------------------------------------------------------------------------
(* The events, and what Parse does for each. *)

DocumentStart ==
  /\ document = "outside" /\ documents < MaxDocuments
  /\ document' = "inside" /\ documents' = documents + 1
  /\ UNCHANGED <<program, open, value, odd>>

Scalar(v) ==
  /\ Content
  /\ Add(New("scalar", v))
  /\ Says(<<"scalar", v>>, open)
  /\ UNCHANGED <<curConfig, configStack, done, fail, documents, odd>>

(* YAML_SEQUENCE_START_EVENT and YAML_MAPPING_START_EVENT. *)
Start(type) ==
  /\ Content /\ Len(open) < MaxDepth
  /\ Add(New(type, ROOT))
  /\ configStack' = Append(configStack, curConfig)
  /\ curConfig' = Len(nodes) + 1
  /\ open' = Append(open, [type |-> type, key |-> ROOT, items |-> <<>>])
  /\ odd' = odd \cup (IF KeyDue THEN {"key"} ELSE {})
                \cup (IF open = <<>> /\ documents > 1 THEN {"document"} ELSE {})
  /\ UNCHANGED <<done, fail, document, documents, value>>

(* Mutant: back to the outermost collection. *)
Outermost(stack) == Head(stack)

Parent(stack) == Last(stack)

(* YAML_SEQUENCE_END_EVENT and YAML_MAPPING_END_EVENT. *)
End ==
  /\ open # <<>> /\ Last(open).key = ROOT
  /\ asserted' = (configStack = <<>>)
  /\ curConfig' = IF configStack = <<>> THEN curConfig ELSE Parent(configStack)
  /\ configStack' = IF configStack = <<>> THEN <<>> ELSE Front(configStack)
  /\ Says(<<Last(open).type, Last(open).items>>, Front(open))
  /\ UNCHANGED <<nodes, done, fail, documents, odd>>

Alias ==
  /\ Content
  /\ asserted' = TRUE
  /\ odd' = odd \cup {"alias"}
  /\ UNCHANGED <<nodes, curConfig, configStack, done, fail, document, documents, open, value>>

StreamEnd ==
  /\ document = "outside"
  /\ done' = TRUE
  /\ UNCHANGED <<nodes, curConfig, configStack, fail, asserted, file>>

(* yaml_parser_parse fails. *)
Error ==
  /\ done' = TRUE /\ fail' = TRUE
  /\ UNCHANGED <<nodes, curConfig, configStack, asserted, file>>

-----------------------------------------------------------------------------
(* The root is a mapping that has taken the key ROOT. *)
Init ==
  /\ nodes = <<KeyTaken(New("map", ROOT), ROOT), New("scalar", ROOT)>>
  /\ curConfig = 1 /\ configStack = <<>>
  /\ done = FALSE /\ fail = FALSE /\ asserted = FALSE
  /\ document = "outside" /\ documents = 0 /\ open = <<>> /\ value = <<>> /\ odd = {}

Next ==
  /\ ~done /\ ~asserted
  /\ \/ DocumentStart
     \/ \E v \in Scalars : Scalar(v)
     \/ \E type \in {"map", "seq"} : Start(type)
     \/ End
     \/ Alias
     \/ StreamEnd
     \/ Error

Spec == Init /\ [][Next]_vars

-----------------------------------------------------------------------------
(* What GetValue, GetKeys, GetSeqValues and GetConfig show of a node, given *)
(* what they show of the nodes in it, which were made after it.            *)
Form(node, shown) ==
  IF node.type = "map" THEN <<"map", [k \in DOMAIN node.maps |-> shown[node.maps[k]]]>>
  ELSE IF node.type = "seq" THEN <<"seq", [i \in DOMAIN node.seqs |-> shown[node.seqs[i]]]>>
  ELSE <<"scalar", node.value>>

Shown == LET shown[n \in DOMAIN nodes] == Form(nodes[n], shown) IN shown

(* What Parse returns for a file without an error. *)
Returned == Shown[nodes[1].maps[ROOT]]

(* A file without an error is returned as its first document says it,      *)
(* however its collections are nested, whatever keys are repeated and      *)
(* whatever documents follow.                                              *)
ReturnedAsWritten == (done /\ ~fail /\ documents > 0) => Returned = value

(* An assertion fails only at an alias, a collection as a key, or a        *)
(* collection as a later document.                                         *)
AssertsForCause == asserted => odd # {}
=============================================================================
