---------------------------- MODULE ConfigProofs ----------------------------
(***************************************************************************)
(* Proofs about Config, for files of every size, depth and number of       *)
(* documents: Parse returns what the first document says, and its          *)
(* assertions fail only for the three causes it does not handle.           *)
(***************************************************************************)
EXTENDS Config, SequenceTheorems, TLAPS

-----------------------------------------------------------------------------
(* Sequences of anything: what is in the collections of a file has no type *)
(* that could be written down, since collections nest.                     *)
IsSequence(s) == s \in Seq({s[i] : i \in DOMAIN s})

(* A sequence over any set is one of its own elements. *)
LEMMA SequenceOfOwn ==
  ASSUME NEW S, NEW s \in Seq(S)
  PROVE  IsSequence(s)
<1>1. Len(s) \in Nat /\ DOMAIN s = 1 .. Len(s) /\ s \in [1 .. Len(s) -> S]
  BY LenProperties
<1>2. s \in [1 .. Len(s) -> {s[i] : i \in DOMAIN s}]
  BY <1>1
<1> QED  BY <1>1, <1>2, SeqDef DEF IsSequence

LEMMA SequenceParts ==
  ASSUME NEW s, IsSequence(s)
  PROVE  Len(s) \in Nat /\ DOMAIN s = 1 .. Len(s)
BY LenProperties DEF IsSequence

(* What Append does to a sequence of anything. *)
LEMMA SequenceAppend ==
  ASSUME NEW s, IsSequence(s), NEW e
  PROVE  /\ IsSequence(Append(s, e))
         /\ Len(Append(s, e)) = Len(s) + 1
         /\ Append(s, e)[Len(s) + 1] = e
         /\ \A i \in 1 .. Len(s) : Append(s, e)[i] = s[i]
<1> DEFINE S == {s[i] : i \in DOMAIN s} \cup {e}
<1>1. s \in Seq(S) /\ e \in S
  BY SeqMonotonic DEF IsSequence
<1> HIDE DEF S
<1>2. /\ Append(s, e) \in Seq(S)
      /\ Len(Append(s, e)) = Len(s) + 1
      /\ Append(s, e)[Len(s) + 1] = e
      /\ \A i \in 1 .. Len(s) : Append(s, e)[i] = s[i]
  BY <1>1, AppendProperties
<1>3. IsSequence(Append(s, e))
  BY <1>2, SequenceOfOwn
<1> QED  BY <1>2, <1>3

(* What Front and Last do. *)
LEMMA SequenceFront ==
  ASSUME NEW s, IsSequence(s), s # <<>>
  PROVE  /\ Len(s) >= 1 /\ Len(s) - 1 \in Nat
         /\ IsSequence(Front(s)) /\ Len(Front(s)) = Len(s) - 1
         /\ Last(s) = s[Len(s)]
         /\ \A i \in 1 .. Len(s) - 1 : Front(s)[i] = s[i]
<1> DEFINE S == {s[i] : i \in DOMAIN s}
<1>1. s \in Seq(S)
  BY DEF IsSequence
<1> HIDE DEF S
<1>2. Len(s) >= 1 /\ Len(s) \in Nat
  BY <1>1, EmptySeq, LenProperties
<1>3. /\ SubSeq(s, 1, Len(s) - 1) \in Seq(S)
      /\ Len(SubSeq(s, 1, Len(s) - 1)) = Len(s) - 1
      /\ \A i \in 1 .. Len(s) - 1 : SubSeq(s, 1, Len(s) - 1)[i] = s[i]
  <2>1. \A i \in 1 .. Len(s) - 1 : s[i] \in S
    BY <1>1, <1>2, LenProperties
  <2>2. 1 \in Int /\ Len(s) - 1 \in Int
    BY <1>2
  <2>3. /\ SubSeq(s, 1, Len(s) - 1) \in Seq(S)
        /\ Len(SubSeq(s, 1, Len(s) - 1)) = IF 1 <= Len(s) - 1 THEN (Len(s) - 1) - 1 + 1 ELSE 0
        /\ \A i \in 1 .. (Len(s) - 1) - 1 + 1 : SubSeq(s, 1, Len(s) - 1)[i] = s[1 + i - 1]
    BY <2>1, <2>2, SubSeqProperties
  <2>4. \A i \in 1 .. Len(s) - 1 : i \in 1 .. (Len(s) - 1) - 1 + 1 /\ 1 + i - 1 = i
    BY <1>2
  <2>5. \A i \in 1 .. Len(s) - 1 : SubSeq(s, 1, Len(s) - 1)[i] = s[i]
    BY <2>3, <2>4
  <2>6. Len(SubSeq(s, 1, Len(s) - 1)) = Len(s) - 1
    <3>1. CASE 1 <= Len(s) - 1
      <4>1. (Len(s) - 1) - 1 + 1 = Len(s) - 1
        BY <1>2
      <4> QED  BY <2>3, <3>1, <4>1
    <3>2. CASE ~(1 <= Len(s) - 1)
      <4>1. Len(s) - 1 = 0
        BY <1>2, <3>2
      <4> QED  BY <2>3, <3>2, <4>1
    <3> QED  BY <3>1, <3>2
  <2> QED  BY <2>3, <2>5, <2>6
<1>4. IsSequence(SubSeq(s, 1, Len(s) - 1))
  BY <1>3, SequenceOfOwn
<1> QED  BY <1>2, <1>3, <1>4 DEF Front, Last

-----------------------------------------------------------------------------
(* One node, and the collection of the file that it is built from. What    *)
(* the nodes of a set C show is f.                                         *)

Node ==
  [type : {"map", "seq", "scalar"}, value : Nat, maps : UNION {[D -> Nat] : D \in SUBSET Nat},
   seqs : Seq(Nat), lastKey : Nat, isValue : BOOLEAN]

(* A collection of the file. *)
Collection(top) ==
  /\ top = [type |-> top.type, key |-> top.key, items |-> top.items]
  /\ top.type \in {"map", "seq"} /\ top.key \in Nat
  /\ top.type = "seq" => top.key = ROOT /\ IsSequence(top.items)
  /\ top.type = "map" => top.items = [k \in DOMAIN top.items |-> top.items[k]]

(* The node has what the collection has. *)
SeqHolds(node, top, f, C) ==
  \A i \in 1 .. Len(top.items) : node.seqs[i] \in C /\ f[node.seqs[i]] = top.items[i]

MapHolds(node, top, f, C) ==
  \A k \in DOMAIN top.items :
    k \in DOMAIN node.maps /\ node.maps[k] \in C /\ f[node.maps[k]] = top.items[k]

(* Nothing is missing: the node waits for a value as the collection does.  *)
Rests(node, top, f, C) ==
  /\ Collection(top) /\ node.type = top.type
  /\ top.type = "seq" => Len(node.seqs) = Len(top.items) /\ SeqHolds(node, top, f, C)
  /\ top.type = "map" =>
       /\ node.isValue <=> top.key # ROOT
       /\ node.isValue => node.lastKey = top.key
       /\ DOMAIN node.maps = DOMAIN top.items
       /\ MapHolds(node, top, f, C)

(* The node has p already, which the collection gets when it is complete.  *)
Awaits(node, top, f, C, p) ==
  /\ Collection(top) /\ node.type = top.type
  /\ top.type = "seq" =>
       /\ Len(node.seqs) = Len(top.items) + 1 /\ node.seqs[Len(node.seqs)] = p
       /\ SeqHolds(node, top, f, C)
  /\ top.type = "map" =>
       /\ ~node.isValue /\ top.key # ROOT
       /\ DOMAIN node.maps = DOMAIN top.items \cup {top.key}
       /\ MapHolds(node, top, f, C)
       /\ top.key \notin DOMAIN top.items => node.maps[top.key] = p

Children(node) ==
  IF node.type = "map" THEN {node.maps[k] : k \in DOMAIN node.maps}
  ELSE IF node.type = "seq" THEN {node.seqs[i] : i \in DOMAIN node.seqs}
  ELSE {}

(* More may be known of other nodes. *)
LEMMA RestsMore ==
  ASSUME NEW node, NEW top, NEW f, NEW C, NEW g, NEW D,
         Rests(node, top, f, C), C \subseteq D, \A n \in C : g[n] = f[n]
  PROVE  Rests(node, top, g, D)
BY DEF Rests, SeqHolds, MapHolds

LEMMA AwaitsMore ==
  ASSUME NEW node, NEW top, NEW f, NEW C, NEW g, NEW D, NEW p,
         Awaits(node, top, f, C, p), C \subseteq D, \A n \in C : g[n] = f[n]
  PROVE  Awaits(node, top, g, D, p)
BY DEF Awaits, SeqHolds, MapHolds

(* What a node shows depends on what the nodes in it show. *)
LEMMA FormSame ==
  ASSUME NEW node \in Node, NEW f, NEW g, \A n \in Children(node) : g[n] = f[n]
  PROVE  Form(node, g) = Form(node, f)
<1>1. CASE node.type = "map"
  BY <1>1 DEF Children, Form
<1>2. CASE node.type = "seq"
  BY <1>2 DEF Children, Form
<1>3. CASE node.type = "scalar"
  BY <1>3 DEF Children, Form
<1> QED  BY <1>1, <1>2, <1>3 DEF Node

(* A node that rests shows what the collection holds, and only of nodes    *)
(* that are complete.                                                      *)
LEMMA RestsShows ==
  ASSUME NEW node \in Node, NEW top, NEW f, NEW C, Rests(node, top, f, C)
  PROVE  /\ Form(node, f) = <<top.type, top.items>>
         /\ Children(node) \subseteq C
<1>1. CASE top.type = "map"
  <2>1. /\ node.type = "map" /\ DOMAIN node.maps = DOMAIN top.items
        /\ \A k \in DOMAIN node.maps : node.maps[k] \in C /\ f[node.maps[k]] = top.items[k]
        /\ top.items = [k \in DOMAIN top.items |-> top.items[k]]
    BY <1>1 DEF Rests, MapHolds, Collection
  <2>2. [k \in DOMAIN node.maps |-> f[node.maps[k]]] = top.items
    BY <2>1
  <2> QED  BY <1>1, <2>1, <2>2 DEF Form, Children
<1>2. CASE top.type = "seq"
  <2>1. /\ node.type = "seq" /\ IsSequence(top.items) /\ node.seqs \in Seq(Nat)
        /\ Len(node.seqs) = Len(top.items)
        /\ \A i \in 1 .. Len(top.items) : node.seqs[i] \in C /\ f[node.seqs[i]] = top.items[i]
    BY <1>2 DEF Rests, SeqHolds, Collection, Node
  <2>2. DOMAIN node.seqs = 1 .. Len(top.items) /\ DOMAIN top.items = 1 .. Len(top.items)
    BY <2>1, LenProperties, SequenceParts
  <2>3. top.items = [i \in DOMAIN top.items |-> top.items[i]]
    BY <2>1, LenProperties DEF IsSequence
  <2>4. [i \in DOMAIN node.seqs |-> f[node.seqs[i]]] = top.items
    BY <2>1, <2>2, <2>3
  <2> QED  BY <1>2, <2>1, <2>2, <2>4 DEF Form, Children
<1> QED  BY <1>1, <1>2 DEF Rests, Collection

(* Add puts an item in: the node awaits what the file says of it. *)
LEMMA AddedAwaits ==
  ASSUME NEW node \in Node, NEW top, NEW f, NEW C, NEW p \in Nat, NEW new,
         Rests(node, top, f, C), top.type = "map" => top.key # ROOT
  PROVE  Added(node, p, new) \in Node /\ Awaits(Added(node, p, new), top, f, C, p)
<1> DEFINE n == Added(node, p, new)
<1>1. CASE top.type = "seq"
  <2>1. /\ n = [node EXCEPT !.seqs = Append(node.seqs, p)]
        /\ node.type = "seq" /\ Collection(top) /\ IsSequence(top.items)
        /\ Len(node.seqs) = Len(top.items) /\ SeqHolds(node, top, f, C)
    BY <1>1 DEF Added, Rests, Collection
  <2>2. /\ Append(node.seqs, p) \in Seq(Nat)
        /\ Len(Append(node.seqs, p)) = Len(top.items) + 1
        /\ Append(node.seqs, p)[Len(top.items) + 1] = p
        /\ \A i \in 1 .. Len(top.items) : Append(node.seqs, p)[i] = node.seqs[i]
    BY <2>1, AppendProperties DEF Node
  <2>3. n \in Node /\ n.seqs = Append(node.seqs, p) /\ n.type = node.type
    BY <2>1, <2>2 DEF Node
  <2> HIDE DEF n
  <2>4. SeqHolds(n, top, f, C)
    BY <2>1, <2>2, <2>3 DEF SeqHolds
  <2> QED  BY <1>1, <2>1, <2>2, <2>3, <2>4 DEF Awaits, n
<1>2. CASE top.type = "map"
  <2>1. /\ node.type = "map" /\ Collection(top) /\ node.isValue /\ node.lastKey = top.key
        /\ top.key # ROOT /\ DOMAIN node.maps = DOMAIN top.items /\ MapHolds(node, top, f, C)
    BY <1>2 DEF Rests
  <2> DEFINE m == Insert(node.maps, top.key, p)
  <2>2. n = [node EXCEPT !.maps = m, !.isValue = FALSE]
    BY <2>1 DEF Added
  <2>3. /\ DOMAIN m = DOMAIN node.maps \cup {top.key}
        /\ \A k \in DOMAIN node.maps : m[k] = node.maps[k]
        /\ top.key \notin DOMAIN node.maps => m[top.key] = p
    BY DEF Insert, Assign
  <2>4. m \in UNION {[D -> Nat] : D \in SUBSET Nat}
    <3>1. PICK D \in SUBSET Nat : node.maps \in [D -> Nat]
      BY DEF Node
    <3>2. m \in [D \cup {top.key} -> Nat]
      BY <3>1 DEF Insert, Assign
    <3>3. D \cup {top.key} \in SUBSET Nat
      BY <2>1 DEF Collection
    <3> QED  BY <3>2, <3>3
  <2> HIDE DEF m
  <2>5. n \in Node /\ n.maps = m /\ n.type = node.type /\ ~n.isValue
    BY <2>2, <2>4 DEF Node
  <2> HIDE DEF n
  <2>6. MapHolds(n, top, f, C)
    BY <2>1, <2>3, <2>5 DEF MapHolds
  <2> QED  BY <1>2, <2>1, <2>3, <2>5, <2>6 DEF Awaits, n
<1> QED  BY <1>1, <1>2 DEF Rests, Collection

(* A scalar as a key: the node and the collection wait for its value. *)
LEMMA KeyRests ==
  ASSUME NEW node \in Node, NEW top, NEW f, NEW C, NEW p \in Nat, NEW v \in Nat \ {ROOT},
         Rests(node, top, f, C), top.type = "map", top.key = ROOT
  PROVE  /\ Added(node, p, New("scalar", v)) \in Node
         /\ Rests(Added(node, p, New("scalar", v)), Entered(top, <<"scalar", v>>), f, C)
<1> DEFINE n == Added(node, p, New("scalar", v))
           t == Entered(top, <<"scalar", v>>)
<1>1. /\ node.type = "map" /\ Collection(top) /\ ~node.isValue
      /\ DOMAIN node.maps = DOMAIN top.items /\ MapHolds(node, top, f, C)
  BY DEF Rests
<1>2. n = [node EXCEPT !.lastKey = v, !.isValue = TRUE]
  BY <1>1 DEF Added, New, KeyTaken
<1>3. t = [top EXCEPT !.key = v]
  BY DEF Entered
<1>4. n \in Node /\ n.maps = node.maps /\ n.type = "map" /\ n.lastKey = v /\ n.isValue
  BY <1>1, <1>2 DEF Node
<1>5. t.type = "map" /\ t.key = v /\ t.items = top.items /\ Collection(t)
  BY <1>1, <1>3 DEF Collection
<1> HIDE DEF n, t
<1>6. MapHolds(n, t, f, C)
  BY <1>1, <1>4, <1>5 DEF MapHolds
<1>7. Rests(n, t, f, C)
  BY <1>1, <1>4, <1>5, <1>6 DEF Rests
<1> QED  BY <1>4, <1>7 DEF n, t

(* The value that the node awaited is complete, and enters the collection. *)
LEMMA EnteredRests ==
  ASSUME NEW node \in Node, NEW top, NEW f, NEW C, NEW p, NEW g, NEW D, NEW v,
         Awaits(node, top, f, C, p), C \subseteq D, p \in D, \A n \in C : g[n] = f[n], g[p] = v
  PROVE  Rests(node, Entered(top, v), g, D)
<1> DEFINE t == Entered(top, v)
<1>1. CASE top.type = "seq"
  <2>1. /\ t = [top EXCEPT !.items = Append(top.items, v)]
        /\ node.type = "seq" /\ Collection(top) /\ IsSequence(top.items)
        /\ Len(node.seqs) = Len(top.items) + 1 /\ node.seqs[Len(top.items) + 1] = p
        /\ SeqHolds(node, top, f, C)
    BY <1>1 DEF Entered, Awaits, Collection
  <2>2. /\ IsSequence(Append(top.items, v))
        /\ Len(Append(top.items, v)) = Len(top.items) + 1
        /\ Append(top.items, v)[Len(top.items) + 1] = v
        /\ \A i \in 1 .. Len(top.items) : Append(top.items, v)[i] = top.items[i]
    BY <2>1, SequenceAppend
  <2>3. t.items = Append(top.items, v) /\ t.type = "seq" /\ Collection(t)
    BY <1>1, <2>1, <2>2 DEF Collection
  <2> HIDE DEF t
  <2>4. SeqHolds(node, t, g, D)
    <3>1. \A i \in 1 .. Len(top.items) + 1 : i = Len(top.items) + 1 \/ i \in 1 .. Len(top.items)
      BY <2>1, SequenceParts
    <3> QED  BY <3>1, <2>1, <2>2, <2>3 DEF SeqHolds
  <2> QED  BY <2>1, <2>2, <2>3, <2>4 DEF Rests, t
<1>2. CASE top.type = "map"
  <2> DEFINE m == [k \in DOMAIN top.items \cup {top.key} |->
                      IF k \in DOMAIN top.items THEN top.items[k] ELSE v]
  <2>1. /\ t = [top EXCEPT !.items = m, !.key = ROOT]
        /\ node.type = "map" /\ Collection(top) /\ ~node.isValue
        /\ DOMAIN node.maps = DOMAIN top.items \cup {top.key} /\ MapHolds(node, top, f, C)
        /\ top.key \notin DOMAIN top.items => node.maps[top.key] = p
    BY <1>2 DEF Entered, Awaits
  <2>2. /\ DOMAIN m = DOMAIN top.items \cup {top.key}
        /\ m = [k \in DOMAIN m |-> m[k]]
        /\ \A k \in DOMAIN top.items : m[k] = top.items[k]
        /\ top.key \notin DOMAIN top.items => m[top.key] = v
    OBVIOUS
  <2> HIDE DEF m
  <2>3. t.items = m /\ t.type = "map" /\ t.key = ROOT /\ Collection(t)
    <3>1. t = [type |-> "map", key |-> ROOT, items |-> m]
      BY <1>2, <2>1 DEF Collection
    <3> HIDE DEF t
    <3>2. t.items = m /\ t.type = "map" /\ t.key = ROOT
      BY <3>1
    <3>3. t.items = [k \in DOMAIN t.items |-> t.items[k]]
      BY <3>2, <2>2
    <3> QED  BY <3>1, <3>2, <3>3 DEF Collection, ROOT
  <2> HIDE DEF t
  <2>4. MapHolds(node, t, g, D)
    BY <2>1, <2>2, <2>3 DEF MapHolds
  <2> QED  BY <2>1, <2>2, <2>3, <2>4 DEF Rests, t
<1> QED  BY <1>1, <1>2 DEF Awaits, Collection

-----------------------------------------------------------------------------
(* The whole tree: o are the open collections of the file, p the nodes     *)
(* that are built from them, with the root before them.                    *)

Levels(ns, o, p) ==
  /\ ns \in Seq(Node) /\ Len(ns) >= 1 /\ ns[1].type = "map"
  /\ IsSequence(o)
  /\ p \in Seq(Nat) /\ Len(p) = Len(o) + 1 /\ p[1] = 1
  /\ \A i \in 1 .. Len(p) : p[i] \in 1 .. Len(ns)
  /\ \A i, j \in 1 .. Len(p) : i # j => p[i] # p[j]

(* The nodes that are complete. *)
Closed(ns, p) == {n \in 1 .. Len(ns) : \A i \in 1 .. Len(p) : p[i] # n}

(* Each collection is built so far; all but the last await the next one. *)
Built(ns, o, p, f, C) ==
  /\ \A i \in 1 .. Len(o) - 1 : Awaits(ns[p[i + 1]], o[i], f, C, p[i + 2])
  /\ Len(o) > 0 => Rests(ns[p[Len(o) + 1]], o[Len(o)], f, C)

(* f is what the complete nodes show, and nothing else could be. *)
Shows(ns, C, f) ==
  /\ \A n \in C : Children(ns[n]) \subseteq C /\ f[n] = Form(ns[n], f)
  /\ \A g : (\A n \in C : g[n] = Form(ns[n], g)) => \A n \in C : g[n] = f[n]

(* The root waits for the first document, which is not there yet. *)
First(docs, doc, o) == docs = 0 \/ (docs = 1 /\ doc = "inside" /\ o = <<>>)

(* The first document is a collection, and still open. *)
Pending(docs, o) == docs = 1 /\ o # <<>>

RootHolds(node, docs, doc, o, p, said, f, C) ==
  /\ First(docs, doc, o) => node.isValue /\ node.lastKey = ROOT /\ DOMAIN node.maps = {}
  /\ Pending(docs, o) => ROOT \in DOMAIN node.maps /\ node.maps[ROOT] = p[2]
  /\ ~First(docs, doc, o) /\ ~Pending(docs, o) =>
       ROOT \in DOMAIN node.maps /\ node.maps[ROOT] \in C /\ f[node.maps[ROOT]] = said
  /\ \A k \in DOMAIN node.maps : node.maps[k] \in C \/ (o # <<>> /\ node.maps[k] = p[2])

Path == Append(configStack, curConfig)

Structure(f) ==
  /\ Levels(nodes, open, Path)
  /\ Built(nodes, open, Path, f, Closed(nodes, Path))
  /\ Shows(nodes, Closed(nodes, Path), f)
  /\ RootHolds(nodes[1], documents, document, open, Path, value, f, Closed(nodes, Path))

(* libyaml: what is open is in a document, and a file without an error     *)
(* ends outside of one.                                                    *)
Outline ==
  /\ configStack \in Seq(Nat) /\ curConfig \in Nat
  /\ documents \in Nat /\ document \in {"outside", "inside"}
  /\ document = "outside" => open = <<>>
  /\ documents = 0 => document = "outside"
  /\ done /\ ~fail => document = "outside"

IInv ==
  /\ AssertsForCause
  /\ asserted => ~done
  /\ ~asserted => Outline /\ \E f : Structure(f)

-----------------------------------------------------------------------------
(* Growing the set of complete nodes. *)

LEMMA NewNode ==
  ASSUME NEW type \in {"map", "seq", "scalar"}, NEW v \in Nat
  PROVE  New(type, v) \in Node
<1>1. [k \in {} |-> 0] \in UNION {[D -> Nat] : D \in SUBSET Nat}
  <2>1. [k \in {} |-> 0] \in [{} -> Nat]
    OBVIOUS
  <2> QED  BY <2>1
<1>2. <<>> \in Seq(Nat)
  OBVIOUS
<1> QED  BY <1>1, <1>2 DEF New, Node, ROOT

(* Only the other nodes of a tree change. *)
LEMMA ShowsSame ==
  ASSUME NEW ns, NEW C, NEW f, NEW ns2, Shows(ns, C, f), \A n \in C : ns2[n] = ns[n]
  PROVE  Shows(ns2, C, f)
<1>1. \A n \in C : Children(ns2[n]) \subseteq C /\ f[n] = Form(ns2[n], f)
  BY DEF Shows
<1>2. ASSUME NEW g, \A n \in C : g[n] = Form(ns2[n], g)
      PROVE  \A n \in C : g[n] = f[n]
  <2>1. \A n \in C : g[n] = Form(ns[n], g)
    BY <1>2
  <2> QED  BY <2>1 DEF Shows
<1> QED  BY <1>1, <1>2 DEF Shows

(* One more node is complete: what is in it was. *)
LEMMA ShowsGrow ==
  ASSUME NEW ns, NEW C, NEW f, NEW q, NEW f2,
         Shows(ns, C, f), \A n \in C \cup {q} : ns[n] \in Node,
         q \notin C, Children(ns[q]) \subseteq C,
         f2[q] = Form(ns[q], f), \A n \in C : f2[n] = f[n]
  PROVE  Shows(ns, C \cup {q}, f2)
<1>1. ASSUME NEW n \in C \cup {q}
      PROVE  Children(ns[n]) \subseteq C \cup {q} /\ f2[n] = Form(ns[n], f2)
  <2>1. Children(ns[n]) \subseteq C /\ f2[n] = Form(ns[n], f)
    BY DEF Shows
  <2>2. \A c \in Children(ns[n]) : f2[c] = f[c]
    BY <2>1
  <2>3. Form(ns[n], f2) = Form(ns[n], f)
    BY <2>2, FormSame
  <2> QED  BY <2>1, <2>3
<1>2. ASSUME NEW g, \A n \in C \cup {q} : g[n] = Form(ns[n], g)
      PROVE  \A n \in C \cup {q} : g[n] = f2[n]
  <2>1. \A n \in C : g[n] = Form(ns[n], g)
    BY <1>2
  <2>2. \A n \in C : g[n] = f[n]
    BY <2>1 DEF Shows
  <2>3. \A c \in Children(ns[q]) : g[c] = f[c]
    BY <2>2
  <2>4. Form(ns[q], g) = Form(ns[q], f)
    BY <2>3, FormSame
  <2>5. g[q] = f2[q]
    BY <1>2, <2>4
  <2> QED  BY <2>2, <2>5
<1> QED  BY <1>1, <1>2 DEF Shows

(* Add: a node more, and the current one changed. *)
Grown(ns, c, node, new, ns2) ==
  /\ ns2 \in Seq(Node) /\ Len(ns2) = Len(ns) + 1
  /\ ns2[c] = node /\ ns2[Len(ns) + 1] = new
  /\ \A i \in 1 .. Len(ns) : i # c => ns2[i] = ns[i]

LEMMA AddGrows ==
  ASSUME NEW ns \in Seq(Node), NEW c \in 1 .. Len(ns), NEW node \in Node, NEW new \in Node
  PROVE  Grown(ns, c, node, new, Append([ns EXCEPT ![c] = node], new))
<1> DEFINE s == [ns EXCEPT ![c] = node]
<1>1. /\ Len(ns) \in Nat /\ DOMAIN ns = 1 .. Len(ns)
      /\ ns \in [1 .. Len(ns) -> Node]
  BY LenProperties
<1>2. s \in [1 .. Len(ns) -> Node]
  BY <1>1
<1>3. s \in Seq(Node)
  BY <1>1, <1>2, SeqDef
<1>4. Len(s) = Len(ns)
  BY <1>1, <1>2, <1>3, LenProperties
<1>5. s[c] = node /\ \A i \in 1 .. Len(ns) : i # c => s[i] = ns[i]
  BY <1>1
<1> HIDE DEF s
<1>6. /\ Append(s, new) \in Seq(Node) /\ Len(Append(s, new)) = Len(ns) + 1
      /\ Append(s, new)[Len(ns) + 1] = new
      /\ \A i \in 1 .. Len(ns) : Append(s, new)[i] = s[i]
  BY <1>3, <1>4, AppendProperties
<1>7. Grown(ns, c, node, new, Append(s, new))
  BY <1>1, <1>5, <1>6 DEF Grown
<1> QED  BY <1>7 DEF s

(* The new node is complete, unless it is opened. *)
LEMMA ClosedGrow ==
  ASSUME NEW ns, NEW o, NEW p, NEW ns2, Levels(ns, o, p), Len(ns2) = Len(ns) + 1
  PROVE  /\ Closed(ns2, p) = Closed(ns, p) \cup {Len(ns) + 1}
         /\ Len(ns) + 1 \notin Closed(ns, p)
<1>1. Len(ns) \in Nat /\ Len(p) \in Nat
  BY LenProperties DEF Levels
<1>2. 1 .. Len(ns2) = (1 .. Len(ns)) \cup {Len(ns) + 1} /\ Len(ns) + 1 \notin 1 .. Len(ns)
  BY <1>1
<1>3. \A i \in 1 .. Len(p) : p[i] # Len(ns) + 1
  BY <1>2 DEF Levels
<1> QED  BY <1>2, <1>3 DEF Closed

LEMMA ClosedOpened ==
  ASSUME NEW ns, NEW o, NEW p, NEW ns2, NEW p2, Levels(ns, o, p), Len(ns2) = Len(ns) + 1,
         Len(p2) = Len(p) + 1, p2[Len(p) + 1] = Len(ns) + 1, \A i \in 1 .. Len(p) : p2[i] = p[i]
  PROVE  Closed(ns2, p2) = Closed(ns, p)
<1>1. Len(ns) \in Nat /\ Len(p) \in Nat
  BY LenProperties DEF Levels
<1>2. 1 .. Len(ns2) = (1 .. Len(ns)) \cup {Len(ns) + 1} /\ Len(ns) + 1 \notin 1 .. Len(ns)
  BY <1>1
<1>3. 1 .. Len(p2) = (1 .. Len(p)) \cup {Len(p) + 1}
  BY <1>1
<1>4. \A n \in 1 .. Len(ns) : (\A i \in 1 .. Len(p2) : p2[i] # n) <=> (\A i \in 1 .. Len(p) : p[i] # n)
  BY <1>2, <1>3
<1>5. ~ \A i \in 1 .. Len(p2) : p2[i] # Len(ns) + 1
  BY <1>3
<1> QED  BY <1>2, <1>4, <1>5 DEF Closed

LEMMA ClosedEnded ==
  ASSUME NEW ns, NEW o, NEW p, NEW p2, Levels(ns, o, p),
         Len(p2) = Len(p) - 1, \A i \in 1 .. Len(p) - 1 : p2[i] = p[i]
  PROVE  /\ Closed(ns, p2) = Closed(ns, p) \cup {p[Len(p)]}
         /\ p[Len(p)] \notin Closed(ns, p)
<1>1. Len(ns) \in Nat /\ Len(p) \in Nat /\ Len(p) # 0
  BY LenProperties, SequenceParts DEF Levels
<1>2. 1 .. Len(p) = (1 .. Len(p2)) \cup {Len(p)} /\ Len(p) \notin 1 .. Len(p2)
  BY <1>1
<1>3. p[Len(p)] \in 1 .. Len(ns) /\ \A i \in 1 .. Len(p2) : p2[i] = p[i] /\ p[i] # p[Len(p)]
  BY <1>2 DEF Levels
<1>4. \A n \in 1 .. Len(ns) :
        (\A i \in 1 .. Len(p) : p[i] # n) <=> (\A i \in 1 .. Len(p2) : p2[i] # n) /\ n # p[Len(p)]
  BY <1>2, <1>3
<1>5. \A i \in 1 .. Len(p2) : p2[i] # p[Len(p)]
  BY <1>3
<1>6. p[Len(p)] \in Closed(ns, p2) /\ p[Len(p)] \notin Closed(ns, p)
  BY <1>2, <1>3, <1>5 DEF Closed
<1>7. \A n \in 1 .. Len(ns) : n \in Closed(ns, p2) <=> n \in Closed(ns, p) \/ n = p[Len(p)]
  BY <1>4, <1>6 DEF Closed
<1>8. Closed(ns, p) \subseteq 1 .. Len(ns) /\ Closed(ns, p2) \subseteq 1 .. Len(ns)
  BY DEF Closed
<1> QED  BY <1>3, <1>6, <1>7, <1>8

-----------------------------------------------------------------------------
(* What each event does to the tree. *)

Tree(ns, o, p, f) ==
  Levels(ns, o, p) /\ Built(ns, o, p, f, Closed(ns, p)) /\ Shows(ns, Closed(ns, p), f)

(* q is complete, and shows v. *)
Extended(f, q, v) == [n \in Nat |-> IF n = q THEN v ELSE f[n]]

(* The value enters the last of the collections around it, if any. *)
AllEntered(o, v) == IF o = <<>> THEN <<>> ELSE Append(Front(o), Entered(Last(o), v))

LEMMA EnteredParts ==
  ASSUME NEW o, IsSequence(o), NEW v
  PROVE  /\ IsSequence(AllEntered(o, v)) /\ Len(AllEntered(o, v)) = Len(o)
         /\ \A i \in 1 .. Len(o) - 1 : AllEntered(o, v)[i] = o[i]
         /\ Len(o) > 0 => AllEntered(o, v)[Len(o)] = Entered(o[Len(o)], v)
         /\ AllEntered(o, v) = <<>> <=> o = <<>>
<1>1. CASE o = <<>>
  BY <1>1 DEF AllEntered
<1>2. CASE o # <<>>
  <2>1. /\ Len(o) >= 1 /\ Len(o) - 1 \in Nat
        /\ IsSequence(Front(o)) /\ Len(Front(o)) = Len(o) - 1
        /\ Last(o) = o[Len(o)]
        /\ \A i \in 1 .. Len(o) - 1 : Front(o)[i] = o[i]
    BY <1>2, SequenceFront
  <2> DEFINE e == Entered(Last(o), v)
  <2>2. /\ IsSequence(Append(Front(o), e))
        /\ Len(Append(Front(o), e)) = Len(Front(o)) + 1
        /\ Append(Front(o), e)[Len(Front(o)) + 1] = e
        /\ \A i \in 1 .. Len(Front(o)) : Append(Front(o), e)[i] = Front(o)[i]
    BY <2>1, SequenceAppend
  <2>3. AllEntered(o, v) = Append(Front(o), e)
    BY <1>2 DEF AllEntered
  <2>4. Len(Front(o)) + 1 = Len(o) /\ e = Entered(o[Len(o)], v)
    BY <2>1
  <2> HIDE DEF e
  <2>5. AllEntered(o, v) # <<>>
    BY <2>1, <2>2, <2>3
  <2> QED  BY <1>2, <2>1, <2>2, <2>3, <2>4, <2>5
<1> QED  BY <1>1, <1>2

(* The last node of the path is the one that is added to. *)
LEMMA PathParts ==
  ASSUME NEW ns, NEW o, NEW p, Levels(ns, o, p)
  PROVE  /\ Len(o) \in Nat /\ Len(ns) \in Nat /\ Len(p) = Len(o) + 1
         /\ p[Len(p)] \in 1 .. Len(ns) /\ ns[p[Len(p)]] \in Node
         /\ o = <<>> <=> Len(o) = 0
         /\ o = <<>> => p[Len(p)] = 1
         /\ o # <<>> => p[Len(p)] # 1
         /\ \A i \in 1 .. Len(p) : ns[p[i]] \in Node
         /\ \A i \in 1 .. Len(p) - 1 : p[i] # p[Len(p)]
<1>1. Len(o) \in Nat /\ Len(ns) \in Nat /\ Len(p) = Len(o) + 1
  BY SequenceParts, LenProperties DEF Levels
<1>2. \A i \in 1 .. Len(p) : p[i] \in 1 .. Len(ns) /\ ns[p[i]] \in Node
  BY <1>1, ElementOfSeq DEF Levels
<1>3. Len(p) \in 1 .. Len(p) /\ 1 \in 1 .. Len(p)
  BY <1>1
<1>4. o = <<>> <=> Len(o) = 0
  BY EmptySeq DEF Levels, IsSequence
<1>5. o = <<>> => p[Len(p)] = 1
  BY <1>1, <1>4 DEF Levels
<1>6. o # <<>> => p[Len(p)] # 1
  BY <1>1, <1>3, <1>4 DEF Levels
<1>7. \A i \in 1 .. Len(p) - 1 : i \in 1 .. Len(p) /\ i # Len(p)
  BY <1>1
<1>8. \A i \in 1 .. Len(p) - 1 : p[i] # p[Len(p)]
  BY <1>3, <1>7 DEF Levels
<1> QED  BY <1>1, <1>2, <1>3, <1>4, <1>5, <1>6, <1>8

(* Complete nodes are no nodes of the path, so Add leaves them alone. *)
LEMMA ClosedSame ==
  ASSUME NEW ns, NEW o, NEW p, NEW ns2, NEW node, NEW new,
         Levels(ns, o, p), Grown(ns, p[Len(p)], node, new, ns2)
  PROVE  /\ \A n \in Closed(ns, p) : n \in Nat /\ ns2[n] = ns[n] /\ ns2[n] \in Node
         /\ \A i \in 1 .. Len(p) - 1 : ns2[p[i]] = ns[p[i]]
         /\ o # <<>> => ns2[1] = ns[1]
         /\ \A i \in 1 .. Len(p) : p[i] \in 1 .. Len(ns2)
<1>1. /\ Len(o) \in Nat /\ Len(ns) \in Nat /\ Len(p) = Len(o) + 1
      /\ \A i \in 1 .. Len(p) - 1 : p[i] # p[Len(p)]
      /\ o # <<>> => p[Len(p)] # 1
  BY PathParts
<1>2. Len(p) \in 1 .. Len(p) /\ 1 .. Len(p) - 1 \subseteq 1 .. Len(p)
  BY <1>1
<1>3. \A n \in Closed(ns, p) : n \in 1 .. Len(ns) /\ n # p[Len(p)]
  BY <1>2 DEF Closed
<1>4. \A n \in 1 .. Len(ns) : n \in 1 .. Len(ns2) /\ ns2[n] \in Node
  <2>1. Len(ns2) = Len(ns) + 1 /\ ns2 \in Seq(Node)
    BY DEF Grown
  <2>2. \A n \in 1 .. Len(ns) : n \in 1 .. Len(ns2)
    BY <1>1, <2>1
  <2> QED  BY <2>1, <2>2, ElementOfSeq
<1>5. \A n \in Closed(ns, p) : n \in Nat /\ ns2[n] = ns[n] /\ ns2[n] \in Node
  BY <1>1, <1>3, <1>4 DEF Grown
<1>6. \A i \in 1 .. Len(p) - 1 : ns2[p[i]] = ns[p[i]]
  BY <1>1, <1>2 DEF Grown, Levels
<1>7. o # <<>> => ns2[1] = ns[1]
  BY <1>1 DEF Grown, Levels
<1>8. \A i \in 1 .. Len(p) : p[i] \in 1 .. Len(ns2)
  BY <1>4 DEF Levels
<1> QED  BY <1>5, <1>6, <1>7, <1>8

LEMMA AddedNode ==
  ASSUME NEW node \in Node, NEW p \in Nat, NEW new, new.value \in Nat
  PROVE  Added(node, p, new) \in Node
<1>1. CASE node.type = "seq"
  <2>1. Append(node.seqs, p) \in Seq(Nat)
    BY AppendProperties DEF Node
  <2> QED  BY <1>1, <2>1 DEF Added, Node
<1>2. CASE node.type # "seq" /\ node.isValue
  <2> DEFINE m == Insert(node.maps, node.lastKey, p)
  <2>1. PICK D \in SUBSET Nat : node.maps \in [D -> Nat]
    BY DEF Node
  <2>2. m \in [D \cup {node.lastKey} -> Nat] /\ D \cup {node.lastKey} \in SUBSET Nat
    BY <2>1 DEF Insert, Assign, Node
  <2>3. m \in UNION {[E -> Nat] : E \in SUBSET Nat}
    BY <2>2
  <2>4. Added(node, p, new) = [node EXCEPT !.maps = m, !.isValue = FALSE]
    BY <1>2 DEF Added
  <2> HIDE DEF m
  <2> QED  BY <2>3, <2>4 DEF Node
<1>3. CASE node.type # "seq" /\ ~node.isValue
  BY <1>3 DEF Added, KeyTaken, Node
<1> QED  BY <1>1, <1>2, <1>3

(* The root is a mapping whatever is added to it. *)
LEMMA AddedType ==
  ASSUME NEW node \in Node, NEW p, NEW new
  PROVE  Added(node, p, new).type = node.type
BY DEF Added, KeyTaken, Node

(* A scalar: the current node gets it, as a value, an item or a key. *)
LEMMA ScalarTree ==
  ASSUME NEW ns, NEW o, NEW p, NEW f, NEW v \in Nat \ {ROOT}, NEW ns2, NEW o2, NEW f2,
         Tree(ns, o, p, f),
         Grown(ns, p[Len(p)], Added(ns[p[Len(p)]], Len(ns) + 1, New("scalar", v)), New("scalar", v), ns2),
         o2 = AllEntered(o, <<"scalar", v>>), f2 = Extended(f, Len(ns) + 1, <<"scalar", v>>)
  PROVE  Tree(ns2, o2, p, f2)
<1> DEFINE q == Len(ns) + 1
           C == Closed(ns, p)
           D == Closed(ns2, p)
           new == New("scalar", v)
           cur == ns[p[Len(p)]]
<1>1. Levels(ns, o, p) /\ Built(ns, o, p, f, C) /\ Shows(ns, C, f)
  BY DEF Tree
<1>2. /\ Len(o) \in Nat /\ Len(ns) \in Nat /\ Len(p) = Len(o) + 1
      /\ cur \in Node /\ (o = <<>> <=> Len(o) = 0)
  BY <1>1, PathParts
<1>3. /\ ns2 \in Seq(Node) /\ Len(ns2) = q /\ ns2[q] = new
      /\ ns2[p[Len(p)]] = Added(cur, q, new)
  BY DEF Grown
<1>4. /\ \A n \in C : n \in Nat /\ ns2[n] = ns[n] /\ ns2[n] \in Node
      /\ \A i \in 1 .. Len(p) - 1 : ns2[p[i]] = ns[p[i]]
      /\ o # <<>> => ns2[1] = ns[1]
      /\ \A i \in 1 .. Len(p) : p[i] \in 1 .. Len(ns2)
  BY <1>1, ClosedSame
<1>5. D = C \cup {q} /\ q \notin C
  BY <1>1, <1>3, ClosedGrow
<1>6. /\ IsSequence(o2) /\ Len(o2) = Len(o)
      /\ \A i \in 1 .. Len(o) - 1 : o2[i] = o[i]
      /\ Len(o) > 0 => o2[Len(o)] = Entered(o[Len(o)], <<"scalar", v>>)
  BY <1>1, EnteredParts DEF Levels
<1>7. new \in Node /\ Children(new) = {} /\ Form(new, f) = <<"scalar", v>>
  BY NewNode DEF New, Children, Form
<1>8. q \in Nat /\ f2[q] = <<"scalar", v>> /\ \A n \in C : f2[n] = f[n]
  BY <1>2, <1>4, <1>5 DEF Extended
<1>9. ns2[1].type = "map"
  <2>1. CASE o = <<>>
    <3>1. p[Len(p)] = 1
      BY <1>1, <2>1, PathParts
    <3> QED  BY <1>1, <1>2, <1>3, <3>1, AddedType DEF Levels
  <2>2. CASE o # <<>>
    BY <1>1, <1>4, <2>2 DEF Levels
  <2> QED  BY <2>1, <2>2
<1> HIDE DEF q, C, D, new, cur
<1>10. Levels(ns2, o2, p)
  BY <1>1, <1>2, <1>3, <1>4, <1>6, <1>9 DEF Levels, q
<1>11. Shows(ns2, D, f2)
  <2>1. Shows(ns2, C, f)
    BY <1>1, <1>4, ShowsSame
  <2>2. \A n \in C \cup {q} : ns2[n] \in Node
    BY <1>3, <1>4, <1>7
  <2>3. Children(ns2[q]) \subseteq C /\ f2[q] = Form(ns2[q], f)
    BY <1>3, <1>7, <1>8
  <2>4. Shows(ns2, C \cup {q}, f2)
    BY <2>1, <2>2, <2>3, <1>5, <1>8, ShowsGrow
  <2> QED  BY <2>4, <1>5
<1>12. Built(ns2, o2, p, f2, D)
  <2>1. ASSUME NEW i \in 1 .. Len(o2) - 1
        PROVE  Awaits(ns2[p[i + 1]], o2[i], f2, D, p[i + 2])
    <3>1. i \in 1 .. Len(o) - 1 /\ i + 1 \in 1 .. Len(p) - 1
      BY <1>2, <1>6
    <3>2. Awaits(ns[p[i + 1]], o[i], f, C, p[i + 2])
      BY <1>1, <3>1 DEF Built
    <3>3. ns2[p[i + 1]] = ns[p[i + 1]] /\ o2[i] = o[i]
      BY <1>4, <1>6, <3>1
    <3> QED  BY <3>2, <3>3, <1>5, <1>8, AwaitsMore
  <2>2. ASSUME Len(o2) > 0
        PROVE  Rests(ns2[p[Len(o2) + 1]], o2[Len(o2)], f2, D)
    <3> DEFINE top == o[Len(o)]
               node == ns2[p[Len(p)]]
    <3>1. Rests(cur, top, f, C)
      BY <1>1, <1>2, <1>6, <2>2 DEF Built, cur
    <3>2. /\ ns2[p[Len(o2) + 1]] = node /\ node = Added(cur, q, new)
          /\ o2[Len(o2)] = Entered(top, <<"scalar", v>>)
      BY <1>2, <1>3, <1>6, <2>2
    <3> HIDE DEF top, node
    <3>3. CASE top.type = "map" /\ top.key = ROOT
      <4>1. Rests(node, Entered(top, <<"scalar", v>>), f, C)
        BY <1>2, <1>8, <3>1, <3>2, <3>3, KeyRests DEF new
      <4> QED  BY <4>1, <3>2, <1>5, <1>8, RestsMore
    <3>4. CASE ~(top.type = "map" /\ top.key = ROOT)
      <4>1. Awaits(node, top, f, C, q) /\ node \in Node
        <5>1. top.type = "map" => top.key # ROOT
          BY <3>4
        <5>2. Added(cur, q, new) \in Node /\ Awaits(Added(cur, q, new), top, f, C, q)
          BY <1>2, <1>8, <3>1, <5>1, AddedAwaits
        <5> QED  BY <5>2, <3>2
      <4>2. Rests(node, Entered(top, <<"scalar", v>>), f2, D)
        BY <4>1, <1>5, <1>8, EnteredRests
      <4> QED  BY <4>2, <3>2
    <3> QED  BY <3>3, <3>4
  <2> QED  BY <2>1, <2>2 DEF Built
<1> QED  BY <1>10, <1>11, <1>12 DEF Tree, D

(* A collection begins: the current node gets it, and awaits it. *)
Starts(type, ns, o, p, ns2, o2, p2) ==
  /\ type \in {"map", "seq"}
  /\ MayAdd(ns[p[Len(p)]], New(type, ROOT))
  /\ Grown(ns, p[Len(p)], Added(ns[p[Len(p)]], Len(ns) + 1, New(type, ROOT)), New(type, ROOT), ns2)
  /\ o2 = Append(o, [type |-> type, key |-> ROOT, items |-> <<>>])
  /\ p2 = Append(p, Len(ns) + 1)

LEMMA StartTree ==
  ASSUME NEW type, NEW ns, NEW o, NEW p, NEW f, NEW ns2, NEW o2, NEW p2,
         Tree(ns, o, p, f), Starts(type, ns, o, p, ns2, o2, p2)
  PROVE  Tree(ns2, o2, p2, f)
<1> DEFINE q == Len(ns) + 1
           C == Closed(ns, p)
           new == New(type, ROOT)
           cur == ns[p[Len(p)]]
           begun == [type |-> type, key |-> ROOT, items |-> <<>>]
<1>0. /\ type \in {"map", "seq"} /\ MayAdd(cur, new)
      /\ Grown(ns, p[Len(p)], Added(cur, q, new), new, ns2)
      /\ o2 = Append(o, begun) /\ p2 = Append(p, q)
  BY DEF Starts
<1>1. Levels(ns, o, p) /\ Built(ns, o, p, f, C) /\ Shows(ns, C, f)
  BY DEF Tree
<1>2. /\ Len(o) \in Nat /\ Len(ns) \in Nat /\ Len(p) = Len(o) + 1
      /\ cur \in Node /\ (o = <<>> <=> Len(o) = 0)
  BY <1>1, PathParts
<1>3. /\ ns2 \in Seq(Node) /\ Len(ns2) = q /\ ns2[q] = new
      /\ ns2[p[Len(p)]] = Added(cur, q, new)
  BY <1>0 DEF Grown
<1>4. /\ \A n \in C : n \in Nat /\ ns2[n] = ns[n] /\ ns2[n] \in Node
      /\ \A i \in 1 .. Len(p) - 1 : ns2[p[i]] = ns[p[i]]
      /\ o # <<>> => ns2[1] = ns[1]
      /\ \A i \in 1 .. Len(p) : p[i] \in 1 .. Len(ns2)
  BY <1>0, <1>1, ClosedSame
<1>5. /\ IsSequence(o2) /\ Len(o2) = Len(o) + 1 /\ o2[Len(o) + 1] = begun
      /\ \A i \in 1 .. Len(o) : o2[i] = o[i]
  BY <1>0, <1>1, SequenceAppend DEF Levels
<1>6. /\ p2 \in Seq(Nat) /\ Len(p2) = Len(p) + 1 /\ p2[Len(p) + 1] = q
      /\ \A i \in 1 .. Len(p) : p2[i] = p[i]
  BY <1>0, <1>1, <1>2, AppendProperties DEF Levels
<1>7. Closed(ns2, p2) = C
  <2>1. Len(ns2) = Len(ns) + 1 /\ p2[Len(p) + 1] = Len(ns) + 1
    BY <1>3, <1>6
  <2> HIDE DEF C
  <2>2. Len(p2) = Len(p) + 1 /\ \A i \in 1 .. Len(p) : p2[i] = p[i]
    BY <1>6
  <2>3. Levels(ns, o, p)
    BY <1>1
  <2>4. Closed(ns2, p2) = Closed(ns, p)
    BY ONLY <2>1, <2>2, <2>3, ClosedOpened
  <2> QED  BY <2>4 DEF C
<1>8. ns2[1].type = "map"
  <2>1. CASE o = <<>>
    <3>1. p[Len(p)] = 1
      BY <1>1, <2>1, PathParts
    <3> QED  BY <1>1, <1>2, <1>3, <3>1, AddedType DEF Levels
  <2>2. CASE o # <<>>
    BY <1>1, <1>4, <2>2 DEF Levels
  <2> QED  BY <2>1, <2>2
<1>9. q \in Nat /\ q \in 1 .. q /\ q \notin 1 .. Len(ns)
  BY <1>2
<1>10. MayAdd(cur, new) /\ new.type # "scalar"
  BY <1>0 DEF New
<1> HIDE DEF q, C, new, cur, begun
<1>11. Levels(ns2, o2, p2)
  <2>1. \A i \in 1 .. Len(p2) : i = Len(p) + 1 \/ i \in 1 .. Len(p)
    BY <1>2, <1>6
  <2>2. \A i \in 1 .. Len(p2) : p2[i] \in 1 .. Len(ns2)
    BY <2>1, <1>3, <1>4, <1>6, <1>9
  <2>3. ASSUME NEW i \in 1 .. Len(p2), NEW j \in 1 .. Len(p2), i # j
        PROVE  p2[i] # p2[j]
    BY <2>1, <2>3, <1>1, <1>6, <1>9 DEF Levels
  <2>4. p2[1] = 1 /\ Len(ns2) >= 1 /\ Len(p2) = Len(o2) + 1
    BY <1>1, <1>2, <1>3, <1>5, <1>6 DEF Levels, q
  <2> QED  BY <2>2, <2>3, <2>4, <1>3, <1>5, <1>6, <1>8 DEF Levels
<1>12. Shows(ns2, C, f)
  BY <1>1, <1>4, ShowsSame
<1>13. Built(ns2, o2, p2, f, C)
  <2>1. ASSUME NEW i \in 1 .. Len(o2) - 1, i # Len(o)
        PROVE  Awaits(ns2[p2[i + 1]], o2[i], f, C, p2[i + 2])
    <3>1. /\ i \in 1 .. Len(o) - 1 /\ i \in 1 .. Len(o) /\ i + 1 \in 1 .. Len(p) - 1
          /\ i + 1 \in 1 .. Len(p) /\ i + 2 \in 1 .. Len(p)
      BY <1>2, <1>5, <2>1
    <3>2. Awaits(ns[p[i + 1]], o[i], f, C, p[i + 2])
      BY <1>1, <3>1 DEF Built
    <3>3. /\ ns2[p2[i + 1]] = ns[p[i + 1]] /\ o2[i] = o[i]
          /\ p2[i + 2] = p[i + 2]
      BY <1>4, <1>5, <1>6, <3>1
    <3> QED  BY <3>2, <3>3
  <2>2. ASSUME Len(o) > 0
        PROVE  Awaits(ns2[p2[Len(o) + 1]], o2[Len(o)], f, C, p2[Len(o) + 2])
    <3> DEFINE top == o[Len(o)]
    <3>1. Rests(cur, top, f, C)
      BY <1>1, <1>2, <2>2 DEF Built, cur
    <3>2. top.type = "map" => top.key # ROOT
      BY <1>10, <3>1 DEF Rests, MayAdd
    <3> HIDE DEF top
    <3>3. Awaits(Added(cur, q, new), top, f, C, q)
      BY <1>2, <1>9, <3>1, <3>2, AddedAwaits
    <3>4. Len(o) \in 1 .. Len(o) /\ Len(o) + 1 = Len(p) /\ Len(o) + 2 = Len(p) + 1 /\ Len(p) \in 1 .. Len(p)
      BY <1>2, <2>2
    <3> QED  BY <3>3, <3>4, <1>3, <1>5, <1>6 DEF top
  <2>3. Rests(ns2[p2[Len(o2) + 1]], o2[Len(o2)], f, C)
    <3>1. Len(o2) + 1 = Len(p) + 1 /\ ns2[p2[Len(o2) + 1]] = new /\ o2[Len(o2)] = begun
      BY <1>2, <1>3, <1>5, <1>6
    <3>2. IsSequence(<<>>) /\ Len(<<>>) = 0 /\ DOMAIN <<>> = {}
      BY EmptySeq DEF IsSequence
    <3>3. Collection(begun)
      <4>1. <<>> = [k \in DOMAIN <<>> |-> <<>>[k]]
        BY <3>2
      <4> QED  BY <1>0, <3>2, <4>1 DEF Collection, begun, ROOT
    <3>4. SeqHolds(new, begun, f, C) /\ MapHolds(new, begun, f, C)
      BY <3>2 DEF SeqHolds, MapHolds, begun
    <3>5. Rests(new, begun, f, C)
      BY <1>0, <3>2, <3>3, <3>4 DEF Rests, begun, new, New
    <3> QED  BY <3>1, <3>5
  <2>4. \A i \in 1 .. Len(o2) - 1 : Awaits(ns2[p2[i + 1]], o2[i], f, C, p2[i + 2])
    <3>1. \A i \in 1 .. Len(o2) - 1 : i = Len(o) => Len(o) > 0
      BY <1>2
    <3> QED  BY <2>1, <2>2, <3>1
  <2> QED  BY <2>3, <2>4 DEF Built
<1> QED  BY <1>7, <1>11, <1>12, <1>13 DEF Tree

(* The last collection ends: its node shows it, and the one before has it. *)
Ends(o, p, o2, p2, v) ==
  /\ o # <<>> /\ v = <<o[Len(o)].type, o[Len(o)].items>>
  /\ o2 = AllEntered(Front(o), v)
  /\ p2 \in Seq(Nat) /\ Len(p2) = Len(p) - 1
  /\ \A i \in 1 .. Len(p) - 1 : p2[i] = p[i]

LEMMA EndTree ==
  ASSUME NEW ns, NEW o, NEW p, NEW f, NEW o2, NEW p2, NEW v,
         Tree(ns, o, p, f), Ends(o, p, o2, p2, v)
  PROVE  Tree(ns, o2, p2, Extended(f, p[Len(p)], v))
<1> DEFINE q == p[Len(p)]
           C == Closed(ns, p)
           D == Closed(ns, p2)
           f2 == Extended(f, p[Len(p)], v)
<1>0. /\ o # <<>> /\ v = <<o[Len(o)].type, o[Len(o)].items>>
      /\ o2 = AllEntered(Front(o), v)
      /\ p2 \in Seq(Nat) /\ Len(p2) = Len(p) - 1
      /\ \A i \in 1 .. Len(p) - 1 : p2[i] = p[i]
  BY DEF Ends
<1>1. Levels(ns, o, p) /\ Built(ns, o, p, f, C) /\ Shows(ns, C, f) /\ IsSequence(o)
  BY DEF Tree, Levels
<1>2. /\ Len(o) \in Nat /\ Len(ns) \in Nat /\ Len(p) = Len(o) + 1
      /\ q \in 1 .. Len(ns) /\ ns[q] \in Node
  BY <1>1, PathParts
<1>3. /\ Len(o) >= 1 /\ IsSequence(Front(o)) /\ Len(Front(o)) = Len(o) - 1
      /\ \A i \in 1 .. Len(o) - 1 : Front(o)[i] = o[i]
  BY <1>0, <1>1, SequenceFront
<1>4. /\ IsSequence(o2) /\ Len(o2) = Len(o) - 1
      /\ \A i \in 1 .. Len(o) - 2 : o2[i] = o[i]
      /\ Len(o) > 1 => o2[Len(o) - 1] = Entered(o[Len(o) - 1], v)
  <2> DEFINE b == Front(o)
  <2>1. /\ IsSequence(AllEntered(b, v)) /\ Len(AllEntered(b, v)) = Len(b)
        /\ \A i \in 1 .. Len(b) - 1 : AllEntered(b, v)[i] = b[i]
        /\ Len(b) > 0 => AllEntered(b, v)[Len(b)] = Entered(b[Len(b)], v)
    BY <1>3, EnteredParts
  <2>2. \A i \in 1 .. Len(o) - 2 : i \in 1 .. Len(b) - 1 /\ i \in 1 .. Len(o) - 1
    BY <1>2, <1>3
  <2>3. Len(o) > 1 => Len(b) > 0 /\ Len(o) - 1 \in 1 .. Len(o) - 1
    BY <1>2, <1>3
  <2> HIDE DEF b
  <2> QED  BY <2>1, <2>2, <2>3, <1>0, <1>3 DEF b
<1>5. D = C \cup {q} /\ q \notin C
  BY <1>0, <1>1, ClosedEnded
<1>6. \A n \in C : n \in 1 .. Len(ns) /\ ns[n] \in Node
  BY <1>1, ElementOfSeq DEF Closed, Levels
<1>7. f2[q] = v /\ \A n \in C : f2[n] = f[n]
  <2>1. q \in Nat /\ \A n \in C : n \in Nat /\ n # q
    BY <1>2, <1>5, <1>6
  <2> QED  BY <2>1 DEF Extended
<1>8. Form(ns[q], f) = v /\ Children(ns[q]) \subseteq C
  <2>1. Rests(ns[q], o[Len(o)], f, C)
    BY <1>1, <1>2, <1>3 DEF Built
  <2>2. v = <<o[Len(o)].type, o[Len(o)].items>>
    BY <1>0
  <2> HIDE DEF q, C
  <2> QED  BY ONLY <1>2, <2>1, <2>2, RestsShows
<1> HIDE DEF q, C, D, f2
<1>9. Levels(ns, o2, p2)
  <2>1. \A i \in 1 .. Len(p2) : i \in 1 .. Len(p) /\ p2[i] = p[i]
    BY <1>0, <1>2
  <2>2. p2[1] = 1 /\ Len(p2) = Len(o2) + 1
    <3>1. 1 \in 1 .. Len(p) - 1
      BY <1>2, <1>3
    <3> QED  BY <3>1, <1>0, <1>1, <1>2, <1>4 DEF Levels
  <2> QED  BY <2>1, <2>2, <1>0, <1>1, <1>4 DEF Levels
<1>10. Shows(ns, D, f2)
  <2>1. Shows(ns, C \cup {q}, f2)
    BY <1>1, <1>2, <1>5, <1>6, <1>7, <1>8, ShowsGrow
  <2> QED  BY <2>1, <1>5
<1>11. C \subseteq D /\ q \in D
  BY <1>5
<1>12. Built(ns, o2, p2, f2, D)
  <2>1. ASSUME NEW i \in 1 .. Len(o2) - 1
        PROVE  Awaits(ns[p2[i + 1]], o2[i], f2, D, p2[i + 2])
    <3>1. i \in 1 .. Len(o) - 1 /\ i \in 1 .. Len(o) - 2
      <4>1. Len(o2) = Len(o) - 1 /\ Len(o) \in Nat /\ i \in 1 .. Len(o2) - 1
        BY <1>2, <1>4
      <4> QED  BY ONLY <4>1
    <3>2. Awaits(ns[p[i + 1]], o[i], f, C, p[i + 2])
      BY <1>1, <3>1 DEF Built
    <3>3. i + 1 \in 1 .. Len(p) - 1 /\ i + 2 \in 1 .. Len(p) - 1
      BY <1>2, <3>1
    <3>4. p2[i + 1] = p[i + 1] /\ p2[i + 2] = p[i + 2] /\ o2[i] = o[i]
      BY <1>0, <1>4, <3>1, <3>3
    <3>5. Awaits(ns[p[i + 1]], o[i], f2, D, p[i + 2])
      BY ONLY <3>2, <1>7, <1>11, AwaitsMore
    <3> QED  BY <3>4, <3>5
  <2>2. ASSUME Len(o2) > 0
        PROVE  Rests(ns[p2[Len(o2) + 1]], o2[Len(o2)], f2, D)
    <3> DEFINE j == Len(o) - 1
    <3>1. j \in 1 .. Len(o) - 1 /\ j + 1 = Len(o) /\ j + 2 = Len(p) /\ Len(o2) = j /\ Len(o) > 1
      BY <1>2, <1>4, <2>2
    <3>2. Awaits(ns[p[j + 1]], o[j], f, C, q)
      BY <1>1, <3>1 DEF Built, q
    <3>3. j + 1 \in 1 .. Len(p) - 1 /\ j + 1 \in 1 .. Len(p)
      BY <1>2, <3>1
    <3>4. p2[j + 1] = p[j + 1] /\ o2[j] = Entered(o[j], v)
      BY <1>0, <1>4, <3>1, <3>3
    <3>5. ns[p[j + 1]] \in Node
      BY <1>1, <3>3, PathParts
    <3> HIDE DEF j
    <3>6. Rests(ns[p[j + 1]], Entered(o[j], v), f2, D)
      BY ONLY <3>2, <3>5, <1>7, <1>11, EnteredRests
    <3> QED  BY <3>1, <3>4, <3>6
  <2> QED  BY <2>1, <2>2 DEF Built
<1> QED  BY <1>9, <1>10, <1>12 DEF Tree, D, f2

-----------------------------------------------------------------------------
(* What each event does to the root. *)

(* Add to the root takes a key, or keeps an item more; the item of ROOT is *)
(* the first one.                                                          *)
LEMMA RootAdded ==
  ASSUME NEW node \in Node, node.type = "map", NEW q, NEW new
  PROVE  /\ ~node.isValue => Added(node, q, new).maps = node.maps
         /\ node.isValue =>
              /\ DOMAIN Added(node, q, new).maps = DOMAIN node.maps \cup {node.lastKey}
              /\ \A k \in DOMAIN node.maps : Added(node, q, new).maps[k] = node.maps[k]
              /\ node.lastKey \notin DOMAIN node.maps => Added(node, q, new).maps[node.lastKey] = q
<1> DEFINE n == Added(node, q, new)
<1>1. CASE node.isValue
  <2>1. n = [node EXCEPT !.maps = Insert(node.maps, node.lastKey, q), !.isValue = FALSE]
    BY <1>1 DEF Added
  <2>2. n.maps = Insert(node.maps, node.lastKey, q)
    BY <2>1 DEF Node
  <2> HIDE DEF n
  <2>3. /\ DOMAIN n.maps = DOMAIN node.maps \cup {node.lastKey}
        /\ \A k \in DOMAIN node.maps : n.maps[k] = node.maps[k]
        /\ node.lastKey \notin DOMAIN node.maps => n.maps[node.lastKey] = q
    BY <2>2 DEF Insert, Assign
  <2> QED  BY <1>1, <2>3 DEF n
<1>2. CASE ~node.isValue
  <2>1. n = [node EXCEPT !.lastKey = new.value, !.isValue = TRUE]
    BY <1>2 DEF Added, KeyTaken
  <2>2. n.maps = node.maps
    BY <2>1 DEF Node
  <2> QED  BY <1>2, <2>2
<1> QED  BY <1>1, <1>2

(* A scalar as a document: the first one is what Parse returns. *)
LEMMA ScalarRoot ==
  ASSUME NEW ns, NEW p, NEW f, NEW v, NEW docs \in Nat \ {0}, NEW said,
         Levels(ns, <<>>, p), NEW q \in Nat, NEW new, NEW p2,
         RootHolds(ns[1], docs, "inside", <<>>, p, said, f, Closed(ns, p)),
         q \notin Closed(ns, p)
  PROVE  RootHolds(Added(ns[1], q, new), docs, "outside", <<>>, p2,
                   IF docs = 1 THEN v ELSE said, Extended(f, q, v), Closed(ns, p) \cup {q})
<1> DEFINE C == Closed(ns, p)
           f2 == Extended(f, q, v)
           node == ns[1]
           n == Added(node, q, new)
<1>1. node \in Node /\ node.type = "map"
  BY ElementOfSeq, LenProperties DEF Levels
<1>2. f2[q] = v /\ \A i \in C : f2[i] = f[i]
  BY DEF Extended, Closed
<1>3. /\ ~node.isValue => n.maps = node.maps
      /\ node.isValue =>
           /\ DOMAIN n.maps = DOMAIN node.maps \cup {node.lastKey}
           /\ \A k \in DOMAIN node.maps : n.maps[k] = node.maps[k]
           /\ node.lastKey \notin DOMAIN node.maps => n.maps[node.lastKey] = q
  BY <1>1, RootAdded
<1> HIDE DEF C, f2, node, n
<1>4. RootHolds(node, docs, "inside", <<>>, p, said, f, C)
  BY DEF node, C
<1>5. \A k \in DOMAIN node.maps : node.maps[k] \in C
  BY <1>4 DEF RootHolds
<1>6. \A k \in DOMAIN n.maps : n.maps[k] \in C \cup {q}
  BY <1>3, <1>5
<1>7. CASE docs = 1
  <2>1. node.isValue /\ node.lastKey = ROOT /\ DOMAIN node.maps = {}
    BY <1>4, <1>7 DEF RootHolds, First
  <2>2. ROOT \in DOMAIN n.maps /\ n.maps[ROOT] = q
    BY <1>3, <2>1
  <2> QED  BY <1>2, <1>6, <1>7, <2>2 DEF RootHolds, First, Pending, f2, C, n, node
<1>8. CASE docs # 1
  <2>1. ROOT \in DOMAIN node.maps /\ node.maps[ROOT] \in C /\ f[node.maps[ROOT]] = said
    BY <1>4, <1>8 DEF RootHolds, First, Pending
  <2>2. ROOT \in DOMAIN n.maps /\ n.maps[ROOT] = node.maps[ROOT]
    BY <1>3, <2>1
  <2> QED  BY <1>2, <1>6, <1>8, <2>1, <2>2 DEF RootHolds, First, Pending, f2, C, n, node
<1> QED  BY <1>7, <1>8

(* A collection as a document: of the first one, the root has the node. *)
LEMMA StartRoot ==
  ASSUME NEW ns, NEW p, NEW f, NEW docs \in Nat \ {0}, NEW said, NEW q, NEW new, NEW o2, NEW p2,
         Levels(ns, <<>>, p), o2 # <<>>, p2[2] = q,
         RootHolds(ns[1], docs, "inside", <<>>, p, said, f, Closed(ns, p))
  PROVE  RootHolds(Added(ns[1], q, new), docs, "inside", o2, p2, said, f, Closed(ns, p))
<1> DEFINE C == Closed(ns, p)
           node == ns[1]
           n == Added(node, q, new)
<1>1. node \in Node /\ node.type = "map"
  BY ElementOfSeq, LenProperties DEF Levels
<1>3. /\ ~node.isValue => n.maps = node.maps
      /\ node.isValue =>
           /\ DOMAIN n.maps = DOMAIN node.maps \cup {node.lastKey}
           /\ \A k \in DOMAIN node.maps : n.maps[k] = node.maps[k]
           /\ node.lastKey \notin DOMAIN node.maps => n.maps[node.lastKey] = q
  BY <1>1, RootAdded
<1> HIDE DEF C, node, n
<1>4. RootHolds(node, docs, "inside", <<>>, p, said, f, C)
  BY DEF node, C
<1>5. \A k \in DOMAIN node.maps : node.maps[k] \in C
  BY <1>4 DEF RootHolds
<1>6. \A k \in DOMAIN n.maps : n.maps[k] \in C \/ n.maps[k] = q
  BY <1>3, <1>5
<1>7. CASE docs = 1
  <2>1. node.isValue /\ node.lastKey = ROOT /\ DOMAIN node.maps = {}
    BY <1>4, <1>7 DEF RootHolds, First
  <2>2. ROOT \in DOMAIN n.maps /\ n.maps[ROOT] = q
    BY <1>3, <2>1
  <2> QED  BY <1>6, <1>7, <2>2 DEF RootHolds, First, Pending, C, n, node
<1>8. CASE docs # 1
  <2>1. ROOT \in DOMAIN node.maps /\ node.maps[ROOT] \in C /\ f[node.maps[ROOT]] = said
    BY <1>4, <1>8 DEF RootHolds, First, Pending
  <2>2. ROOT \in DOMAIN n.maps /\ n.maps[ROOT] = node.maps[ROOT]
    BY <1>3, <2>1
  <2> QED  BY <1>6, <1>8, <2>1, <2>2 DEF RootHolds, First, Pending, C, n, node
<1> QED  BY <1>7, <1>8

(* Inside of a document the root stays as it is. *)
LEMMA InnerRoot ==
  ASSUME NEW node, NEW docs, NEW doc, NEW o, NEW p, NEW said, NEW f, NEW C,
         NEW o2, NEW p2, NEW f2, NEW D, o # <<>>, o2 # <<>>, p2[2] = p[2],
         C \subseteq D, \A i \in C : f2[i] = f[i],
         RootHolds(node, docs, doc, o, p, said, f, C)
  PROVE  RootHolds(node, docs, doc, o2, p2, said, f2, D)
BY DEF RootHolds, First, Pending

-----------------------------------------------------------------------------
(* The invariant holds at first, and every event keeps it. *)

LEMMA PathIs ==
  ASSUME Outline
  PROVE  /\ Path \in Seq(Nat) /\ Len(Path) = Len(configStack) + 1 /\ Len(configStack) \in Nat
         /\ Path[Len(Path)] = curConfig
         /\ \A i \in 1 .. Len(configStack) : Path[i] = configStack[i]
BY AppendProperties, LenProperties DEF Outline, Path

LEMMA InitKeeps == Init => IInv
<1> SUFFICES ASSUME Init PROVE IInv
  OBVIOUS
<1> DEFINE root == KeyTaken(New("map", ROOT), ROOT)
           none == New("scalar", ROOT)
           f == [n \in Nat |-> <<"scalar", ROOT>>]
<1>1. /\ nodes = <<root, none>> /\ curConfig = 1 /\ configStack = <<>>
      /\ ~done /\ ~fail /\ ~asserted
      /\ document = "outside" /\ documents = 0 /\ open = <<>> /\ odd = {}
  BY DEF Init
<1>2. ROOT \in Nat
  BY DEF ROOT
<1>3. none \in Node /\ none.type = "scalar" /\ Form(none, f) = <<"scalar", ROOT>> /\ Children(none) = {}
  BY <1>2, NewNode DEF New, Form, Children
<1>4. /\ root \in Node /\ root.type = "map" /\ root.isValue /\ root.lastKey = ROOT
      /\ DOMAIN root.maps = {}
  <2>1. New("map", ROOT) \in Node
    BY <1>2, NewNode
  <2>2. /\ root = [New("map", ROOT) EXCEPT !.lastKey = ROOT, !.isValue = TRUE]
        /\ New("map", ROOT).type = "map" /\ DOMAIN New("map", ROOT).maps = {}
    BY DEF KeyTaken, New
  <2> HIDE DEF root
  <2> QED  BY <1>2, <2>1, <2>2 DEF Node
<1> HIDE DEF root, none
<1>5. nodes \in Seq(Node) /\ Len(nodes) = 2 /\ nodes[1] = root /\ nodes[2] = none
  BY <1>1, <1>3, <1>4
<1>6. Path \in Seq(Nat) /\ Len(Path) = 1 /\ Path[1] = 1
  BY <1>1 DEF Path
<1>7. IsSequence(<<>>) /\ Len(<<>>) = 0
  BY EmptySeq DEF IsSequence
<1>8. Levels(nodes, open, Path)
  BY <1>1, <1>4, <1>5, <1>6, <1>7 DEF Levels
<1>9. Closed(nodes, Path) = {2}
  BY <1>5, <1>6 DEF Closed
<1>10. Built(nodes, open, Path, f, {2})
  BY <1>1, <1>7 DEF Built
<1>11. Shows(nodes, {2}, f)
  <2>1. \A g : Form(none, g) = <<"scalar", ROOT>>
    BY <1>3 DEF Form, none, New
  <2>2. f[2] = <<"scalar", ROOT>>
    OBVIOUS
  <2> HIDE DEF f
  <2> QED  BY <1>3, <1>5, <2>1, <2>2 DEF Shows
<1>12. RootHolds(nodes[1], documents, document, open, Path, value, f, {2})
  BY <1>1, <1>4, <1>5 DEF RootHolds, First, Pending
<1> HIDE DEF f
<1>13. Structure(f)
  BY <1>8, <1>9, <1>10, <1>11, <1>12 DEF Structure
<1>14. Outline
  BY <1>1, EmptySeq DEF Outline
<1>15. AssertsForCause /\ ~asserted
  BY <1>1 DEF AssertsForCause
<1> QED  BY <1>13, <1>14, <1>15 DEF IInv

(* What is known before an event. *)
LEMMA Before ==
  ASSUME IInv, ~asserted
  PROVE  Outline /\ \E f : Structure(f)
BY DEF IInv

(* The tree is as it was. *)
LEMMA StructureSame ==
  ASSUME NEW f, Structure(f),
         UNCHANGED <<nodes, curConfig, configStack, document, documents, open, value>>
  PROVE  Structure(f)'
BY DEF Structure, Path

LEMMA DocumentStartKeeps ==
  ASSUME IInv, ~asserted, ~done, DocumentStart
  PROVE  IInv'
<1>1. /\ document = "outside" /\ document' = "inside" /\ documents' = documents + 1
      /\ UNCHANGED <<nodes, curConfig, configStack, done, fail, asserted, open, value, odd>>
  BY DEF DocumentStart, program
<1>2. Outline
  BY Before
<1>3. PICK f : Structure(f)
  BY Before
<1>4. open = <<>> /\ documents \in Nat
  BY <1>1, <1>2 DEF Outline
<1>5. Path' = Path
  BY <1>1 DEF Path
<1>6. RootHolds(nodes[1], documents + 1, "inside", open, Path, value, f, Closed(nodes, Path))
  <2>1. RootHolds(nodes[1], documents, "outside", open, Path, value, f, Closed(nodes, Path))
    BY <1>1, <1>3 DEF Structure
  <2>2. /\ First(documents + 1, "inside", open) => First(documents, "outside", open)
        /\ ~Pending(documents + 1, open) /\ ~Pending(documents, open)
        /\ ~First(documents + 1, "inside", open) => ~First(documents, "outside", open)
    BY <1>4 DEF First, Pending
  <2> QED  BY <2>1, <2>2 DEF RootHolds
<1>7. Structure(f)'
  BY <1>1, <1>3, <1>5, <1>6 DEF Structure
<1>8. Outline'
  BY <1>1, <1>2, <1>4 DEF Outline
<1>9. AssertsForCause' /\ ~asserted'
  BY <1>1 DEF AssertsForCause
<1> QED  BY <1>7, <1>8, <1>9 DEF IInv

LEMMA StreamEndKeeps ==
  ASSUME IInv, ~asserted, ~done, StreamEnd
  PROVE  IInv'
<1>1. /\ document = "outside"
      /\ UNCHANGED <<nodes, curConfig, configStack, asserted, document, documents, open, value, odd>>
  BY DEF StreamEnd, file
<1>2. Outline
  BY Before
<1>3. PICK f : Structure(f)
  BY Before
<1>4. Structure(f)'
  BY <1>1, <1>3, StructureSame
<1>5. Outline' /\ AssertsForCause' /\ ~asserted'
  BY <1>1, <1>2 DEF Outline, AssertsForCause
<1> QED  BY <1>4, <1>5 DEF IInv

LEMMA ErrorKeeps ==
  ASSUME IInv, ~asserted, ~done, Error
  PROVE  IInv'
<1>1. /\ fail' = TRUE
      /\ UNCHANGED <<nodes, curConfig, configStack, asserted, document, documents, open, value, odd>>
  BY DEF Error, file
<1>2. Outline
  BY Before
<1>3. PICK f : Structure(f)
  BY Before
<1>4. Structure(f)'
  BY <1>1, <1>3, StructureSame
<1>5. Outline' /\ AssertsForCause' /\ ~asserted'
  BY <1>1, <1>2 DEF Outline, AssertsForCause
<1> QED  BY <1>4, <1>5 DEF IInv

LEMMA AliasKeeps ==
  ASSUME ~done, Alias
  PROVE  IInv'
<1>1. asserted' /\ ~done' /\ "alias" \in odd'
  BY DEF Alias
<1> QED  BY <1>1 DEF IInv, AssertsForCause

LEMMA SameKeeps ==
  ASSUME IInv, UNCHANGED vars
  PROVE  IInv'
<1>1. UNCHANGED <<nodes, curConfig, configStack, done, fail, asserted, document, documents, open, value, odd>>
  BY DEF vars, program, file
<1>2. AssertsForCause' /\ (asserted' => ~done')
  BY <1>1 DEF IInv, AssertsForCause
<1>3. CASE asserted
  BY <1>1, <1>2, <1>3 DEF IInv
<1>4. CASE ~asserted
  <2>1. Outline
    BY <1>4, Before
  <2>2. PICK f : Structure(f)
    BY <1>4, Before
  <2>3. Structure(f)'
    BY <1>1, <2>2, StructureSame
  <2>4. Outline'
    BY <1>1, <2>1 DEF Outline
  <2> QED  BY <1>2, <2>3, <2>4 DEF IInv
<1> QED  BY <1>3, <1>4

LEMMA SaysParts ==
  ASSUME NEW v, NEW around, Says(v, around)
  PROVE  /\ open' = AllEntered(around, v)
         /\ document' = IF around = <<>> THEN "outside" ELSE document
         /\ value' = IF around = <<>> /\ documents = 1 THEN v ELSE value
BY DEF Says, AllEntered

LEMMA ScalarKeeps ==
  ASSUME IInv, ~asserted, ~done, NEW v \in Scalars, Scalar(v)
  PROVE  IInv'
<1> DEFINE new == New("scalar", v)
           q == Len(nodes) + 1
           w == <<"scalar", v>>
<1>1. /\ document = "inside"
      /\ nodes' = Append([nodes EXCEPT ![curConfig] = Added(nodes[curConfig], q, new)], new)
      /\ asserted' = ~MayAdd(nodes[curConfig], new)
      /\ Says(w, open)
      /\ UNCHANGED <<curConfig, configStack, done, fail, documents, odd>>
  BY DEF Scalar, Content, Add
<1>2. v \in Nat \ {ROOT} /\ new \in Node /\ MayAdd(nodes[curConfig], new)
  BY ScalarsAssumption, NewNode DEF MayAdd, New
<1>3. Outline
  BY Before
<1>4. PICK f : Structure(f)
  BY Before
<1> DEFINE f2 == Extended(f, q, w)
           cur == Path[Len(Path)]
<1>5. /\ Levels(nodes, open, Path) /\ Tree(nodes, open, Path, f)
      /\ RootHolds(nodes[1], documents, "inside", open, Path, value, f, Closed(nodes, Path))
  BY <1>1, <1>4 DEF Structure, Tree
<1>6. /\ Len(nodes) \in Nat /\ cur \in 1 .. Len(nodes) /\ nodes[cur] \in Node
      /\ (open = <<>> => cur = 1) /\ (open # <<>> => cur # 1)
      /\ nodes \in Seq(Node) /\ IsSequence(open)
  BY <1>5, PathParts DEF Levels
<1>7. Path' = Path /\ cur = curConfig /\ documents \in Nat \ {0}
  BY <1>1, <1>3, PathIs DEF Path, Outline
<1>8. /\ open' = AllEntered(open, w)
      /\ document' = IF open = <<>> THEN "outside" ELSE document
      /\ value' = IF open = <<>> /\ documents = 1 THEN w ELSE value
  BY <1>1, SaysParts
<1> HIDE DEF new, q, w, f2, cur
<1>9. Added(nodes[cur], q, new) \in Node
  <2>1. new.value \in Nat /\ q \in Nat
    BY <1>2, <1>6 DEF new, New, q
  <2>2. Levels(nodes, open, Path) /\ ~asserted
    BY <1>5
  <2> QED  BY <1>2, <1>6, <2>1, AddedNode
<1>10. Grown(nodes, cur, Added(nodes[cur], q, new), new, nodes')
  <2>1. nodes' = Append([nodes EXCEPT ![cur] = Added(nodes[cur], q, new)], new)
    BY <1>1, <1>7
  <2>2. Grown(nodes, cur, Added(nodes[cur], q, new), new,
              Append([nodes EXCEPT ![cur] = Added(nodes[cur], q, new)], new))
    BY <1>2, <1>6, <1>9, AddGrows
  <2> QED  BY <2>1, <2>2
<1>11. Tree(nodes', open', Path, f2)
  BY ONLY <1>2, <1>5, <1>8, <1>10, ScalarTree DEF new, q, w, f2, cur
<1>12. Closed(nodes', Path) = Closed(nodes, Path) \cup {q} /\ q \notin Closed(nodes, Path)
  BY <1>5, <1>10, ClosedGrow DEF Grown, q
<1>13. RootHolds(nodes'[1], documents, document', open', Path, value', f2, Closed(nodes', Path))
  <2>1. CASE open = <<>>
    <3>1. nodes'[1] = Added(nodes[1], q, new)
      BY <1>6, <1>10, <2>1 DEF Grown
    <3>2. open' = <<>> /\ document' = "outside" /\ value' = IF documents = 1 THEN w ELSE value
      BY <1>8, <2>1 DEF AllEntered
    <3>3. /\ Levels(nodes, <<>>, Path)
          /\ RootHolds(nodes[1], documents, "inside", <<>>, Path, value, f, Closed(nodes, Path))
      BY <1>5, <2>1
    <3>4. q \in Nat
      BY <1>6 DEF q
    <3>5. RootHolds(Added(nodes[1], q, new), documents, "outside", <<>>, Path,
                    IF documents = 1 THEN w ELSE value, f2, Closed(nodes, Path) \cup {q})
      BY ONLY <1>7, <1>12, <3>3, <3>4, ScalarRoot DEF f2
    <3> QED  BY <1>12, <3>1, <3>2, <3>5
  <2>2. CASE open # <<>>
    <3>1. nodes'[1] = nodes[1]
      <4>1. 1 \in 1 .. Len(nodes) /\ 1 # cur
        BY <1>6, <2>2
      <4> QED  BY <1>10, <4>1 DEF Grown
    <3>2. open' # <<>>
      <4>1. IsSequence(open)
        BY <1>6
      <4>2. AllEntered(open, w) = <<>> <=> open = <<>>
        BY ONLY <4>1, EnteredParts
      <4> QED  BY ONLY <4>2, <1>8, <2>2
    <3>3. document' = "inside" /\ value' = value
      BY <1>1, <1>8, <2>2
    <3>4. \A i \in Closed(nodes, Path) : f2[i] = f[i]
      BY <1>12 DEF Extended, f2, Closed
    <3>5. RootHolds(nodes[1], documents, "inside", open', Path, value, f2, Closed(nodes', Path))
      BY ONLY <1>5, <1>12, <2>2, <3>2, <3>4, InnerRoot
    <3> QED  BY <3>1, <3>3, <3>5
  <2> QED  BY <2>1, <2>2
<1>14. PICK g : g = f2
  OBVIOUS
<1>15. Structure(g)'
  <2>1. /\ Levels(nodes', open', Path)
        /\ Built(nodes', open', Path, g, Closed(nodes', Path))
        /\ Shows(nodes', Closed(nodes', Path), g)
    BY <1>11, <1>14 DEF Tree
  <2>2. RootHolds(nodes'[1], documents', document', open', Path, value', g, Closed(nodes', Path))
    BY <1>1, <1>13, <1>14
  <2> QED  BY ONLY <2>1, <2>2, <1>7 DEF Structure
<1>16. Outline'
  <2>1. document' = "outside" => open' = <<>>
    BY <1>1, <1>8 DEF AllEntered
  <2> QED  BY <1>1, <1>3, <1>7, <1>8, <2>1 DEF Outline
<1>17. AssertsForCause' /\ ~asserted'
  BY <1>1, <1>2, <1>7 DEF AssertsForCause, new
<1> QED  BY <1>15, <1>16, <1>17 DEF IInv

(* An event that Parse expects; an assertion that fails has a cause. *)
LEMMA StartKeeps ==
  ASSUME IInv, ~asserted, ~done, NEW type \in {"map", "seq"}, Start(type)
  PROVE  IInv'
<1> DEFINE new == New(type, ROOT)
           q == Len(nodes) + 1
           begun == [type |-> type, key |-> ROOT, items |-> <<>>]
           cur == Path[Len(Path)]
<1>1. /\ document = "inside"
      /\ nodes' = Append([nodes EXCEPT ![curConfig] = Added(nodes[curConfig], q, new)], new)
      /\ asserted' = ~MayAdd(nodes[curConfig], new)
      /\ configStack' = Append(configStack, curConfig) /\ curConfig' = q
      /\ open' = Append(open, begun)
      /\ UNCHANGED <<done, fail, document, documents, value>>
  BY DEF Start, Content, Add
<1>2. KeyDue => odd' # {}
  BY DEF Start
<1>3. open = <<>> /\ documents > 1 => odd' # {}
  BY DEF Start
<1>4. Outline
  BY Before
<1>5. PICK f : Structure(f)
  BY Before
<1>6. /\ Levels(nodes, open, Path) /\ Tree(nodes, open, Path, f)
      /\ Built(nodes, open, Path, f, Closed(nodes, Path))
      /\ RootHolds(nodes[1], documents, "inside", open, Path, value, f, Closed(nodes, Path))
  BY <1>1, <1>5 DEF Structure, Tree
<1>7. /\ Len(nodes) \in Nat /\ cur \in 1 .. Len(nodes) /\ nodes[cur] \in Node
      /\ (open = <<>> => cur = 1) /\ (open # <<>> => cur # 1)
      /\ (open = <<>> <=> Len(open) = 0) /\ Len(open) \in Nat
      /\ Len(Path) = Len(open) + 1
      /\ nodes \in Seq(Node) /\ IsSequence(open) /\ nodes[1].type = "map"
  BY <1>6, PathParts DEF Levels
<1>8. /\ Path \in Seq(Nat) /\ cur = curConfig /\ documents \in Nat \ {0}
      /\ Len(Path) = Len(configStack) + 1
  BY <1>1, <1>4, PathIs DEF Outline
<1>9. new.value = ROOT /\ new.type # "scalar" /\ ROOT \in Nat /\ new \in Node
  BY NewNode DEF New, ROOT
<1> HIDE DEF new, q, begun, cur
<1>10. CASE ~MayAdd(nodes[cur], new)
  <2>1. nodes[cur].type = "map" /\ ~nodes[cur].isValue
    BY <1>10 DEF MayAdd
  <2>2. CASE open = <<>>
    <3>1. documents # 1
      BY <1>6, <1>7, <2>1, <2>2 DEF RootHolds, First
    <3>2. documents > 1
      BY <1>8, <3>1
    <3>3. odd' # {} /\ asserted' /\ ~done'
      BY <1>1, <1>3, <1>8, <1>10, <2>2, <3>2
    <3> QED  BY <3>3 DEF IInv, AssertsForCause
  <2>3. CASE open # <<>>
    <3>1. Rests(nodes[cur], open[Len(open)], f, Closed(nodes, Path))
      BY <1>6, <1>7, <2>3 DEF Built, cur
    <3>2. open[Len(open)].type = "map" /\ open[Len(open)].key = ROOT
      BY <2>1, <3>1 DEF Rests
    <3>3. Last(open) = open[Len(open)]
      BY <1>7, <2>3, SequenceFront
    <3>4. KeyDue
      BY <2>3, <3>2, <3>3 DEF KeyDue
    <3>5. odd' # {} /\ asserted' /\ ~done'
      BY <1>1, <1>2, <1>8, <1>10, <3>4
    <3> QED  BY <3>5 DEF IInv, AssertsForCause
  <2> QED  BY <2>2, <2>3
<1>11. CASE MayAdd(nodes[cur], new)
  <2>1. Added(nodes[cur], q, new) \in Node
    <3>1. new.value \in Nat /\ q \in Nat
      BY <1>7, <1>9 DEF q
    <3> QED  BY <1>7, <3>1, AddedNode
  <2>2. Grown(nodes, cur, Added(nodes[cur], q, new), new, nodes')
    <3>1. nodes' = Append([nodes EXCEPT ![cur] = Added(nodes[cur], q, new)], new)
      BY <1>1, <1>8
    <3>2. Grown(nodes, cur, Added(nodes[cur], q, new), new,
                Append([nodes EXCEPT ![cur] = Added(nodes[cur], q, new)], new))
      BY <1>7, <1>9, <2>1, AddGrows
    <3> QED  BY <3>1, <3>2
  <2>3. Path' = Append(Path, q)
    BY <1>1 DEF Path
  <2>4. /\ Path' \in Seq(Nat) /\ Len(Path') = Len(Path) + 1 /\ Path'[Len(Path) + 1] = q
        /\ \A i \in 1 .. Len(Path) : Path'[i] = Path[i]
    <3>1. q \in Nat
      BY <1>7 DEF q
    <3> QED  BY <1>8, <2>3, <3>1, AppendProperties
  <2>5. Tree(nodes', open', Path', f)
    <3>1. /\ type \in {"map", "seq"}
          /\ MayAdd(nodes[Path[Len(Path)]], New(type, ROOT))
          /\ Grown(nodes, Path[Len(Path)], Added(nodes[Path[Len(Path)]], Len(nodes) + 1, New(type, ROOT)),
                   New(type, ROOT), nodes')
          /\ open' = Append(open, [type |-> type, key |-> ROOT, items |-> <<>>])
          /\ Path' = Append(Path, Len(nodes) + 1)
      BY <1>1, <1>11, <2>2, <2>3 DEF new, q, begun, cur
    <3>2. Starts(type, nodes, open, Path, nodes', open', Path')
      BY <3>1 DEF Starts
    <3> QED  BY ONLY <1>6, <3>2, StartTree
  <2>6. Closed(nodes', Path') = Closed(nodes, Path)
    <3>1. Len(nodes') = Len(nodes) + 1
      BY <2>2 DEF Grown
    <3> QED  BY ONLY <1>6, <2>4, <3>1, ClosedOpened DEF q
  <2>7. open' # <<>>
    BY <1>1, <1>7, SequenceAppend, EmptySeq
  <2>8. RootHolds(nodes'[1], documents, "inside", open', Path', value, f, Closed(nodes, Path))
    <3>1. CASE open = <<>>
      <4>1. nodes'[1] = Added(nodes[1], q, new)
        BY <1>7, <2>2, <3>1 DEF Grown
      <4>2. Path'[2] = q
        BY <1>7, <2>4, <3>1
      <4>3. /\ Levels(nodes, <<>>, Path)
            /\ RootHolds(nodes[1], documents, "inside", <<>>, Path, value, f, Closed(nodes, Path))
        BY <1>6, <3>1
      <4>4. RootHolds(Added(nodes[1], q, new), documents, "inside", open', Path', value, f, Closed(nodes, Path))
        BY ONLY <1>8, <2>7, <4>2, <4>3, StartRoot
      <4> QED  BY <4>1, <4>4
    <3>2. CASE open # <<>>
      <4>1. nodes'[1] = nodes[1]
        <5>1. 1 \in 1 .. Len(nodes) /\ 1 # cur
          BY <1>7, <3>2
        <5> QED  BY <2>2, <5>1 DEF Grown
      <4>2. Path'[2] = Path[2]
        <5>1. 2 \in 1 .. Len(Path)
          BY <1>7, <3>2
        <5> QED  BY <2>4, <5>1
      <4>3. RootHolds(nodes[1], documents, "inside", open', Path', value, f, Closed(nodes, Path))
        BY ONLY <1>6, <2>7, <3>2, <4>2, InnerRoot
      <4> QED  BY <4>1, <4>3
    <3> QED  BY <3>1, <3>2
  <2>9. Structure(f)'
    <3>1. /\ Levels(nodes', open', Path')
          /\ Built(nodes', open', Path', f, Closed(nodes', Path'))
          /\ Shows(nodes', Closed(nodes', Path'), f)
      BY <2>5 DEF Tree
    <3>2. RootHolds(nodes'[1], documents', document', open', Path', value', f, Closed(nodes', Path'))
      BY <1>1, <2>6, <2>8
    <3> QED  BY ONLY <3>1, <3>2 DEF Structure
  <2>10. Outline'
    <3>1. configStack' \in Seq(Nat) /\ curConfig' \in Nat
      BY <1>1, <1>4, <1>7, AppendProperties DEF Outline, q
    <3> QED  BY <1>1, <1>4, <3>1 DEF Outline
  <2>11. ~asserted'
    BY <1>1, <1>8, <1>11
  <2> QED  BY <2>9, <2>10, <2>11 DEF IInv, AssertsForCause
<1> QED  BY <1>10, <1>11

LEMMA EndKeeps ==
  ASSUME IInv, ~asserted, ~done, End
  PROVE  IInv'
<1> DEFINE v == <<Last(open).type, Last(open).items>>
           q == Path[Len(Path)]
<1>1. /\ open # <<>>
      /\ asserted' = (configStack = <<>>)
      /\ curConfig' = IF configStack = <<>> THEN curConfig ELSE Parent(configStack)
      /\ configStack' = IF configStack = <<>> THEN <<>> ELSE Front(configStack)
      /\ Says(v, Front(open))
      /\ UNCHANGED <<nodes, done, fail, documents, odd>>
  BY DEF End
<1>2. Outline
  BY Before
<1>3. PICK f : Structure(f)
  BY Before
<1>4. /\ Levels(nodes, open, Path) /\ Tree(nodes, open, Path, f)
      /\ RootHolds(nodes[1], documents, document, open, Path, value, f, Closed(nodes, Path))
  BY <1>3 DEF Structure, Tree
<1>5. /\ Len(open) \in Nat /\ (open = <<>> <=> Len(open) = 0) /\ Len(Path) = Len(open) + 1
      /\ IsSequence(open)
  BY <1>4, PathParts DEF Levels
<1>6. /\ Path \in Seq(Nat) /\ Len(Path) = Len(configStack) + 1 /\ Len(configStack) \in Nat
      /\ Path[Len(Path)] = curConfig
      /\ \A i \in 1 .. Len(configStack) : Path[i] = configStack[i]
      /\ configStack \in Seq(Nat)
  BY <1>2, PathIs DEF Outline
<1>7. /\ configStack # <<>> /\ Len(configStack) >= 1
      /\ curConfig' = Last(configStack) /\ configStack' = Front(configStack)
  <2>1. Len(configStack) # 0
    BY <1>1, <1>5, <1>6
  <2>2. configStack # <<>>
    BY <1>6, <2>1, EmptySeq
  <2> QED  BY <1>1, <1>6, <2>1, <2>2 DEF Parent
<1>8. documents \in Nat \ {0} /\ document = "inside"
  BY <1>1, <1>2 DEF Outline
<1>9. /\ open' = AllEntered(Front(open), v)
      /\ document' = IF Front(open) = <<>> THEN "outside" ELSE document
      /\ value' = IF Front(open) = <<>> /\ documents = 1 THEN v ELSE value
  BY <1>1, SaysParts
<1>10. /\ v = <<open[Len(open)].type, open[Len(open)].items>>
       /\ IsSequence(Front(open)) /\ Len(Front(open)) = Len(open) - 1
  <2>1. Last(open) = open[Len(open)] /\ IsSequence(Front(open)) /\ Len(Front(open)) = Len(open) - 1
    BY <1>1, <1>5, SequenceFront
  <2> QED  BY <2>1
<1> HIDE DEF v, q
<1>11. /\ configStack' \in Seq(Nat) /\ curConfig' \in Nat
       /\ Path' \in Seq(Nat) /\ Len(Path') = Len(Path) - 1
       /\ \A i \in 1 .. Len(Path) - 1 : Path'[i] = Path[i]
  <2> DEFINE s == Front(configStack)
             e == Last(configStack)
  <2>1. /\ SubSeq(configStack, 1, Len(configStack) - 1) \in Seq(Nat)
        /\ e = configStack[Len(configStack)] /\ e \in Nat
    <3>1. \A i \in 1 .. Len(configStack) - 1 : configStack[i] \in Nat
      BY <1>6, ElementOfSeq
    <3>2. 1 \in Int /\ Len(configStack) - 1 \in Int /\ Len(configStack) \in 1 .. Len(configStack)
      BY <1>6, <1>7
    <3>3. configStack[Len(configStack)] \in Nat
      BY <1>6, <3>2, ElementOfSeq
    <3> QED  BY <3>1, <3>2, <3>3, SubSeqProperties DEF Last
  <2>2. s \in Seq(Nat)
    BY <2>1 DEF Front
  <2>3. IsSequence(configStack)
    BY <1>6, SequenceOfOwn
  <2>4. /\ Len(s) = Len(configStack) - 1
        /\ \A i \in 1 .. Len(configStack) - 1 : s[i] = configStack[i]
    BY <1>7, <2>3, SequenceFront
  <2>5. Path' = Append(s, e)
    BY <1>7 DEF Path
  <2>6. configStack' \in Seq(Nat) /\ curConfig' \in Nat
    BY <1>7, <2>1, <2>2
  <2> HIDE DEF s, e
  <2>7. /\ Path' \in Seq(Nat) /\ Len(Path') = Len(s) + 1 /\ Path'[Len(s) + 1] = e
        /\ \A i \in 1 .. Len(s) : Path'[i] = s[i]
    BY <2>1, <2>2, <2>5, AppendProperties
  <2>8. Len(s) + 1 = Len(configStack) /\ Len(Path') = Len(Path) - 1 /\ Len(Path) - 1 = Len(configStack)
    BY <1>6, <1>7, <2>4, <2>7
  <2>9. ASSUME NEW i \in 1 .. Len(configStack)
        PROVE  Path'[i] = configStack[i]
    <3>1. i = Len(configStack) \/ i \in 1 .. Len(configStack) - 1
      BY <1>6
    <3> QED  BY <2>1, <2>4, <2>7, <2>8, <3>1
  <2> QED  BY <1>6, <2>6, <2>7, <2>8, <2>9
<1>12. PICK g : g = Extended(f, q, v)
  OBVIOUS
<1>13. Tree(nodes, open', Path', g)
  <2>1. Ends(open, Path, open', Path', v)
    BY <1>1, <1>9, <1>10, <1>11 DEF Ends
  <2>2. Tree(nodes, open', Path', Extended(f, Path[Len(Path)], v))
    BY ONLY <1>4, <2>1, EndTree
  <2> QED  BY <1>12, <2>2 DEF q
<1>14. Closed(nodes, Path') = Closed(nodes, Path) \cup {q} /\ q \notin Closed(nodes, Path)
  BY ONLY <1>4, <1>11, ClosedEnded DEF q
<1>15. g[q] = v /\ \A i \in Closed(nodes, Path) : g[i] = f[i]
  <2>1. q \in Nat
    BY <1>4, PathParts DEF q
  <2>2. \A i \in Closed(nodes, Path) : i \in Nat /\ i # q
    BY <1>14 DEF Closed
  <2> QED  BY <1>12, <2>1, <2>2 DEF Extended
<1>16. RootHolds(nodes[1], documents, document', open', Path', value', g, Closed(nodes, Path'))
  <2>1. CASE Front(open) = <<>>
    <3>1. Len(open) = 1 /\ q = Path[2]
      BY <1>5, <1>10, <2>1, EmptySeq DEF q
    <3>2. open' = <<>> /\ document' = "outside" /\ value' = IF documents = 1 THEN v ELSE value
      BY <1>9, <2>1 DEF AllEntered
    <3>3. g[Path[2]] = v
      BY <1>15, <3>1
    <3>4. RootHolds(nodes[1], documents, "outside", <<>>, Path',
                    IF documents = 1 THEN v ELSE value, g, Closed(nodes, Path) \cup {Path[2]})
      <4>1. \A i \in Closed(nodes, Path) : g[i] = f[i]
        BY <1>15
      <4>2. RootHolds(nodes[1], documents, document, open, Path, value, f, Closed(nodes, Path))
        BY <1>4
      <4>3. open # <<>>
        BY <1>1
      <4> QED  BY ONLY <1>8, <3>3, <4>1, <4>2, <4>3 DEF RootHolds, First, Pending
    <3> QED  BY <1>14, <3>1, <3>2, <3>4
  <2>2. CASE Front(open) # <<>>
    <3>1. AllEntered(Front(open), v) = <<>> <=> Front(open) = <<>>
      BY ONLY <1>10, EnteredParts
    <3>2. open' # <<>>
      BY ONLY <1>9, <2>2, <3>1
    <3>3. document' = document /\ value' = value
      BY <1>9, <2>2
    <3>4. Path'[2] = Path[2]
      <4>1. Len(open) # 1
        <5>1. Len(open) = 1 => Len(Front(open)) = 0
          BY <1>10
        <5>2. Len(Front(open)) # 0
          BY <1>10, <2>2, EmptySeq DEF IsSequence
        <5> QED  BY <5>1, <5>2
      <4>2. 2 \in 1 .. Len(Path) - 1
        <5>1. Len(open) # 0
          BY <1>1, <1>5
        <5>2. PICK n \in Nat : n = Len(open)
          BY <1>5
        <5>3. n >= 2 /\ 2 \in 1 .. n
          BY <4>1, <5>1, <5>2
        <5>4. Len(Path) - 1 = n
          BY <1>5, <5>2
        <5> QED  BY <5>3, <5>4
      <4> QED  BY <1>11, <4>2
    <3>5. Closed(nodes, Path) \subseteq Closed(nodes, Path')
      BY <1>14
    <3>6. RootHolds(nodes[1], documents, document, open', Path', value, g, Closed(nodes, Path'))
      BY ONLY <1>1, <1>4, <1>15, <3>2, <3>4, <3>5, InnerRoot
    <3> QED  BY <3>3, <3>6
  <2> QED  BY <2>1, <2>2
<1>17. Structure(g)'
  <2>1. /\ Levels(nodes', open', Path')
        /\ Built(nodes', open', Path', g, Closed(nodes', Path'))
        /\ Shows(nodes', Closed(nodes', Path'), g)
    BY <1>1, <1>13 DEF Tree
  <2>2. RootHolds(nodes'[1], documents', document', open', Path', value', g, Closed(nodes', Path'))
    BY <1>1, <1>16
  <2> QED  BY ONLY <2>1, <2>2 DEF Structure
<1>18. Outline'
  <2>1. document' = "outside" => open' = <<>>
    BY <1>8, <1>9 DEF AllEntered
  <2>2. document' \in {"outside", "inside"} /\ documents' # 0 /\ ~done'
    BY <1>1, <1>8, <1>9
  <2> QED  BY <1>1, <1>8, <1>11, <2>1, <2>2 DEF Outline
<1>19. ~asserted'
  BY <1>1, <1>7
<1> QED  BY <1>17, <1>18, <1>19 DEF IInv, AssertsForCause

LEMMA NextKeeps == IInv /\ [Next]_vars => IInv'
<1> SUFFICES ASSUME IInv, [Next]_vars PROVE IInv'
  OBVIOUS
<1>1. CASE UNCHANGED vars
  BY <1>1, SameKeeps
<1>2. CASE Next
  <2>1. ~done /\ ~asserted
    BY <1>2 DEF Next
  <2>2. CASE DocumentStart
    BY <2>1, <2>2, DocumentStartKeeps
  <2>3. ASSUME NEW v \in Scalars, Scalar(v) PROVE IInv'
    BY <2>1, <2>3, ScalarKeeps
  <2>4. ASSUME NEW type \in {"map", "seq"}, Start(type) PROVE IInv'
    BY <2>1, <2>4, StartKeeps
  <2>5. CASE End
    BY <2>1, <2>5, EndKeeps
  <2>6. CASE Alias
    BY <2>1, <2>6, AliasKeeps
  <2>7. CASE StreamEnd
    BY <2>1, <2>7, StreamEndKeeps
  <2>8. CASE Error
    BY <2>1, <2>8, ErrorKeeps
  <2> QED  BY <1>2, <2>2, <2>3, <2>4, <2>5, <2>6, <2>7, <2>8 DEF Next
<1> QED  BY <1>1, <1>2

LEMMA Invariant == Spec => []IInv
<1>1. Init => IInv
  BY InitKeeps
<1>2. IInv /\ [Next]_vars => IInv'
  BY NextKeeps
<1> QED  BY <1>1, <1>2, PTL DEF Spec

-----------------------------------------------------------------------------
(* At the end every node but the root is complete, so that what the nodes  *)
(* show is determined, and there is something that they show.              *)
LEMMA ShownIs ==
  ASSUME NEW f, Structure(f), open = <<>>
  PROVE  /\ \A n \in Closed(nodes, Path) : Shown[n] = f[n]
         /\ \A k \in DOMAIN nodes[1].maps : nodes[1].maps[k] \in Closed(nodes, Path)
<1> DEFINE C == Closed(nodes, Path)
           shows(g) == g = [n \in DOMAIN nodes |-> Form(nodes[n], g)]
           g0 == [n \in DOMAIN nodes |-> IF n = 1 THEN Form(nodes[1], f) ELSE f[n]]
<1>1. /\ Levels(nodes, open, Path) /\ Shows(nodes, C, f)
      /\ RootHolds(nodes[1], documents, document, open, Path, value, f, C)
  BY DEF Structure
<1>2. /\ nodes \in Seq(Node) /\ nodes[1].type = "map"
      /\ Path \in Seq(Nat) /\ Len(Path) = 1 /\ Path[1] = 1 /\ 1 \in 1 .. Len(nodes)
  <2>1. Levels(nodes, open, Path) /\ Len(open) = 0
    BY <1>1, PathParts
  <2>2. Len(Path) = 1 /\ 1 \in 1 .. Len(Path)
    BY <2>1 DEF Levels
  <2> QED  BY <2>1, <2>2 DEF Levels
<1>3. DOMAIN nodes = 1 .. Len(nodes) /\ \A n \in DOMAIN nodes : nodes[n] \in Node
  BY <1>2, LenProperties, ElementOfSeq
<1>4. C = DOMAIN nodes \ {1}
  BY <1>2, <1>3 DEF Closed
<1>5. \A k \in DOMAIN nodes[1].maps : nodes[1].maps[k] \in C
  BY <1>1 DEF RootHolds
<1>6. Children(nodes[1]) \subseteq C
  BY <1>2, <1>5 DEF Children
<1> HIDE DEF C
<1>7. \A n \in C : g0[n] = f[n]
  BY <1>4
<1>8. g0[1] = Form(nodes[1], f)
  BY <1>2, <1>3
<1>9. \A n \in DOMAIN nodes : Form(nodes[n], g0) = g0[n]
  <2> HIDE DEF g0
  <2> SUFFICES ASSUME NEW n \in DOMAIN nodes PROVE Form(nodes[n], g0) = g0[n]
    OBVIOUS
  <2>1. Children(nodes[n]) \subseteq C
    BY <1>1, <1>4, <1>6 DEF Shows
  <2>2. \A c \in Children(nodes[n]) : g0[c] = f[c]
    BY <1>7, <2>1
  <2>3. Form(nodes[n], g0) = Form(nodes[n], f)
    BY <1>3, <2>2, FormSame
  <2>4. n \in C => f[n] = Form(nodes[n], f)
    BY <1>1 DEF Shows
  <2> QED  BY <1>4, <1>7, <1>8, <2>3, <2>4
<1>10. g0 = [n \in DOMAIN nodes |-> g0[n]]
  OBVIOUS
<1>11. shows(g0)
  <2> HIDE DEF g0
  <2> QED  BY <1>9, <1>10
<1>12. Shown = CHOOSE g : shows(g)
  BY DEF Shown
<1>13. shows(Shown)
  <2> HIDE DEF g0, shows
  <2> QED  BY <1>11, <1>12
<1>14. \A n \in C : Shown[n] = Form(nodes[n], Shown)
  <2>1. Shown = [n \in DOMAIN nodes |-> Form(nodes[n], Shown)]
    BY <1>13
  <2> DEFINE s == Shown
  <2>2. s = [n \in DOMAIN nodes |-> Form(nodes[n], s)]
    BY <2>1
  <2> HIDE DEF s
  <2>3. \A n \in DOMAIN nodes : s[n] = Form(nodes[n], s)
    BY <2>2
  <2> QED  BY <1>4, <2>3 DEF s
<1>15. \A n \in C : Shown[n] = f[n]
  <2> DEFINE s == Shown
  <2>1. \A n \in C : s[n] = Form(nodes[n], s)
    BY <1>14
  <2> HIDE DEF s
  <2>2. \A n \in C : s[n] = f[n]
    BY <1>1, <2>1 DEF Shows
  <2> QED  BY <2>2 DEF s
<1> QED  BY <1>5, <1>15 DEF C

(* CoypuConfig::Parse returns a file without an error as its first         *)
(* document says it, whatever is nested, repeated or follows.              *)
THEOREM Written == Spec => []ReturnedAsWritten
<1>1. IInv => ReturnedAsWritten
  <2> SUFFICES ASSUME IInv, done, ~fail, documents > 0 PROVE Returned = value
    BY DEF ReturnedAsWritten
  <2>1. Outline /\ \E f : Structure(f)
    BY DEF IInv
  <2>2. PICK f : Structure(f)
    BY <2>1
  <2>3. document = "outside" /\ open = <<>> /\ documents # 0 /\ documents \in Nat
    BY <2>1 DEF Outline
  <2>4. RootHolds(nodes[1], documents, document, open, Path, value, f, Closed(nodes, Path))
    BY <2>2 DEF Structure
  <2>5. ~First(documents, document, open) /\ ~Pending(documents, open)
    BY <2>3 DEF First, Pending
  <2>6. nodes[1].maps[ROOT] \in Closed(nodes, Path) /\ f[nodes[1].maps[ROOT]] = value
    BY <2>4, <2>5 DEF RootHolds
  <2>7. \A n \in Closed(nodes, Path) : Shown[n] = f[n]
    BY <2>2, <2>3, ShownIs
  <2> QED  BY <2>6, <2>7 DEF Returned
<1> QED  BY <1>1, Invariant, PTL

(* The assertions of Add, of the end events and of the alias event fail    *)
(* only at an alias, a collection as a key, or a collection as a later     *)
(* document.                                                               *)
THEOREM ForCause == Spec => []AssertsForCause
<1>1. IInv => AssertsForCause
  BY DEF IInv
<1> QED  BY <1>1, Invariant, PTL
=============================================================================
