-------------------------- MODULE TomlParserProofs --------------------------
(***************************************************************************)
(* Proofs about the reader of configuration files: its tree holds together *)
(* and grows as TomlDocument promises, for any keys, any limit on headers  *)
(* and any file; and the characters it writes in UTF-8 are those it reads. *)
(***************************************************************************)
EXTENDS TomlParser, Utf8, SequenceTheorems, TLAPS

Steps == Keys \cup Nat
Paths == Seq(Steps)

\* Where a path leads to from the path before it.
Last(path) == path[Len(path)]

LEMMA Longer ==
    ASSUME NEW path \in Paths, NEW x \in Steps
    PROVE  /\ Append(path, x) \in Paths /\ Append(path, x) # <<>> /\ Append(path, x) # path
           /\ Document!Parent(Append(path, x)) = path /\ Last(Append(path, x)) = x
<1>1. /\ Append(path, x) \in Paths /\ Append(path, x) # <<>>
      /\ Len(Append(path, x)) = Len(path) + 1 /\ Append(path, x)[Len(path) + 1] = x
  BY AppendProperties DEF Paths
<1>2. Len(path) \in Nat
  BY LenProperties DEF Paths
<1>3. Append(path, x) # path
  BY <1>1, <1>2
<1>4. SubSeq(Append(path, x), 1, Len(path)) = path
  BY DEF Paths
<1>5. Len(Append(path, x)) - 1 = Len(path)
  BY <1>1, <1>2
<1>6. Document!Parent(Append(path, x)) = path
  BY <1>4, <1>5 DEF Document!Parent
<1>7. Last(Append(path, x)) = x
  BY <1>1 DEF Last
<1> QED  BY <1>1, <1>3, <1>6, <1>7

LEMMA Shorter ==
    ASSUME NEW path \in Paths, path # <<>>
    PROVE  /\ Document!Parent(path) \in Paths /\ Last(path) \in Steps
           /\ path = Append(Document!Parent(path), Last(path))
<1>1. Len(path) \in Nat /\ Len(path) # 0
  BY LenProperties, EmptySeq DEF Paths
<1>2. Document!Parent(path) \in Paths /\ Last(path) \in Steps
  BY <1>1, SubSeqProperties DEF Document!Parent, Last, Paths
<1>3. path = Append(Document!Parent(path), Last(path))
  BY <1>1 DEF Document!Parent, Last, Paths
<1> QED  BY <1>2, <1>3

LEMMA SameItem ==
    ASSUME NEW p \in Paths, NEW x \in Steps, NEW q \in Paths, NEW y \in Steps,
           Append(p, x) = Append(q, y)
    PROVE  p = q /\ x = y
<1>1. Document!Parent(Append(p, x)) = p /\ Last(Append(p, x)) = x
  BY Longer
<1>2. Document!Parent(Append(q, y)) = q /\ Last(Append(q, y)) = y
  BY Longer
<1> QED  BY <1>1, <1>2

-----------------------------------------------------------------------------
(* Trees *)

LEMMA NodeFields ==
    ASSUME NEW node \in Nodes
    PROVE  /\ node.is \in Kinds
           /\ node.is = "table" => node.implicit \in BOOLEAN /\ node.readonly \in BOOLEAN
           /\ node.is = "array" => node.kind \in Kinds \cup {"none", "mixed"} /\ node.nitem \in Nat
  BY DEF Nodes, Kinds, Value

LEMMA NewNodes ==
    /\ Value \in Nodes /\ Value.is = "value"
    /\ \A b \in BOOLEAN : /\ Table(b) \in Nodes /\ Table(b).is = "table"
                          /\ Table(b).implicit = b /\ Table(b).readonly = FALSE
    /\ \A kind \in Kinds \cup {"none", "mixed"} :
         /\ Array(kind) \in Nodes /\ Array(kind).is = "array"
         /\ Array(kind).kind = kind /\ Array(kind).nitem = 0
  BY DEF Nodes, Kinds, Value, Table, Array

LEMMA ChangedNodes ==
    ASSUME NEW node \in Nodes
    PROVE  /\ node.is = "table" =>
                /\ [node EXCEPT !.implicit = FALSE] \in Nodes
                /\ [node EXCEPT !.implicit = FALSE].is = "table"
                /\ [node EXCEPT !.implicit = FALSE].implicit = FALSE
                /\ [node EXCEPT !.implicit = FALSE].readonly = node.readonly
                /\ [node EXCEPT !.readonly = TRUE] \in Nodes
                /\ [node EXCEPT !.readonly = TRUE].is = "table"
                /\ [node EXCEPT !.readonly = TRUE].implicit = node.implicit
           /\ node.is = "array" => \A n \in Nat, kind \in Kinds \cup {"none", "mixed"} :
                /\ [node EXCEPT !.nitem = n, !.kind = kind] \in Nodes
                /\ [node EXCEPT !.nitem = n, !.kind = kind].is = "array"
                /\ [node EXCEPT !.nitem = n, !.kind = kind].nitem = n
                /\ [node EXCEPT !.nitem = n, !.kind = kind].kind = kind
<1>1. ASSUME node.is = "table"
      PROVE  node \in [is : {"table"}, implicit : BOOLEAN, readonly : BOOLEAN]
  BY <1>1 DEF Nodes, Value
<1>2. ASSUME node.is = "array"
      PROVE  node \in [is : {"array"}, kind : Kinds \cup {"none", "mixed"}, nitem : Nat]
  BY <1>2 DEF Nodes, Value
<1>3. [is : {"table"}, implicit : BOOLEAN, readonly : BOOLEAN] \subseteq Nodes
  BY DEF Nodes
<1>4. [is : {"array"}, kind : Kinds \cup {"none", "mixed"}, nitem : Nat] \subseteq Nodes
  BY DEF Nodes
<1>5. CASE node.is = "table"
  <2>1. [node EXCEPT !.implicit = FALSE] \in [is : {"table"}, implicit : BOOLEAN, readonly : BOOLEAN]
    BY <1>1, <1>5
  <2>2. [node EXCEPT !.readonly = TRUE] \in [is : {"table"}, implicit : BOOLEAN, readonly : BOOLEAN]
    BY <1>1, <1>5
  <2> QED  BY <2>1, <2>2, <1>1, <1>3, <1>5
<1>6. CASE node.is = "array"
  <2> SUFFICES ASSUME NEW n \in Nat, NEW kind \in Kinds \cup {"none", "mixed"}
               PROVE  /\ [node EXCEPT !.nitem = n, !.kind = kind] \in Nodes
                      /\ [node EXCEPT !.nitem = n, !.kind = kind].is = "array"
                      /\ [node EXCEPT !.nitem = n, !.kind = kind].nitem = n
                      /\ [node EXCEPT !.nitem = n, !.kind = kind].kind = kind
    BY <1>6
  <2>1. [node EXCEPT !.nitem = n, !.kind = kind]
           \in [is : {"array"}, kind : Kinds \cup {"none", "mixed"}, nitem : Nat]
    BY <1>2, <1>6
  <2> QED  BY <2>1, <1>2, <1>4, <1>6
<1> QED  BY <1>5, <1>6

\* Each node is in the table or the array that its path says, and an array
\* has its items, which are what its kind says.
Attached(t) ==
    \A path \in DOMAIN t : path # <<>> =>
        /\ Document!Parent(path) \in DOMAIN t
        /\ \/ t[Document!Parent(path)].is = "table" /\ Last(path) \in Keys
           \/ t[Document!Parent(path)].is = "array"
              /\ Last(path) \in 1 .. t[Document!Parent(path)].nitem

ItemsOf(t) ==
    \A arr \in DOMAIN t : t[arr].is = "array" => \A i \in 1 .. t[arr].nitem :
        /\ Append(arr, i) \in DOMAIN t
        /\ t[arr].kind # "mixed" => t[Append(arr, i)].is = t[arr].kind

Typed(t) == \A path \in DOMAIN t : path \in Paths /\ t[path] \in Nodes

Sound(t) == Typed(t) /\ Attached(t) /\ ItemsOf(t)

\* What is in t is in u, and the same; a table that is given stays given.
Grows(t, u) ==
    \A path \in DOMAIN t :
        /\ path \in DOMAIN u /\ u[path].is = t[path].is
        /\ t[path].is = "table" /\ ~t[path].implicit => ~u[path].implicit

\* A key is added to a table.
LEMMA AddKey ==
    ASSUME NEW t, Sound(t), NEW tab0 \in DOMAIN t, t[tab0].is = "table", NEW k \in Keys,
           Append(tab0, k) \notin DOMAIN t, NEW node \in Nodes,
           node.is = "array" => node.nitem = 0,
           NEW u, u = With(Append(tab0, k), node, t)
    PROVE  /\ Sound(u) /\ Grows(t, u)
           /\ DOMAIN u = DOMAIN t \cup {Append(tab0, k)} /\ u[Append(tab0, k)] = node
           /\ \A path \in DOMAIN t : u[path] = t[path]
<1> DEFINE new == Append(tab0, k)
<1>1. DOMAIN u = DOMAIN t \cup {new} /\ u[new] = node /\ \A path \in DOMAIN t : u[path] = t[path]
  BY DEF With
<1>2. tab0 \in Paths /\ k \in Steps
  BY DEF Sound, Typed, Steps
<1>3. new \in Paths /\ new # <<>> /\ Document!Parent(new) = tab0 /\ Last(new) = k
  BY <1>2, Longer
<1> HIDE DEF new
<1>4. Typed(u)
  BY <1>1, <1>3 DEF Sound, Typed
<1>5. Attached(u)
  <2> SUFFICES ASSUME NEW path \in DOMAIN u, path # <<>>
               PROVE  /\ Document!Parent(path) \in DOMAIN u
                      /\ \/ u[Document!Parent(path)].is = "table" /\ Last(path) \in Keys
                         \/ u[Document!Parent(path)].is = "array"
                            /\ Last(path) \in 1 .. u[Document!Parent(path)].nitem
    BY DEF Attached
  <2>1. CASE path = new
    BY <2>1, <1>1, <1>3
  <2>2. CASE path \in DOMAIN t
    <3>1. /\ Document!Parent(path) \in DOMAIN t
          /\ \/ t[Document!Parent(path)].is = "table" /\ Last(path) \in Keys
             \/ t[Document!Parent(path)].is = "array"
                /\ Last(path) \in 1 .. t[Document!Parent(path)].nitem
      BY <2>2 DEF Sound, Attached
    <3> QED  BY <3>1, <1>1
  <2> QED  BY <2>1, <2>2, <1>1
<1>6. ItemsOf(u)
  <2> SUFFICES ASSUME NEW arr \in DOMAIN u, u[arr].is = "array", NEW i \in 1 .. u[arr].nitem
               PROVE  /\ Append(arr, i) \in DOMAIN u
                      /\ u[arr].kind # "mixed" => u[Append(arr, i)].is = u[arr].kind
    BY DEF ItemsOf
  <2>1. arr # new
    BY <1>1
  <2>2. arr \in DOMAIN t /\ u[arr] = t[arr]
    BY <2>1, <1>1
  <2>3. Append(arr, i) \in DOMAIN t /\ (t[arr].kind # "mixed" => t[Append(arr, i)].is = t[arr].kind)
    BY <2>2 DEF Sound, ItemsOf
  <2> QED  BY <2>2, <2>3, <1>1
<1>7. Grows(t, u)
  BY <1>1 DEF Grows
<1> QED  BY <1>1, <1>4, <1>5, <1>6, <1>7 DEF Sound, new

\* A node is replaced by one that is as much the same as everything below
\* relies on.
LEMMA Replace ==
    ASSUME NEW t, Sound(t), NEW at \in DOMAIN t, t[at].is = "table", NEW node \in Nodes,
           node.is = "table", ~t[at].implicit => ~node.implicit,
           NEW u, DOMAIN u = DOMAIN t, u[at] = node,
           \A path \in DOMAIN t : path # at => u[path] = t[path]
    PROVE  Sound(u) /\ Grows(t, u)
<1>1. \A path \in DOMAIN t : u[path].is = t[path].is
  OBVIOUS
<1>2. \A path \in DOMAIN t : t[path].is = "array" => u[path] = t[path]
  OBVIOUS
<1>3. Typed(u)
  BY DEF Sound, Typed
<1>4. Attached(u)
  BY <1>1, <1>2 DEF Sound, Attached
<1>5. ItemsOf(u)
  BY <1>1, <1>2 DEF Sound, ItemsOf
<1>6. Grows(t, u)
  BY <1>1 DEF Grows
<1> QED  BY <1>3, <1>4, <1>5, <1>6 DEF Sound

\* An item is added to an array.
LEMMA MoreItems ==
    ASSUME NEW t, Sound(t), NEW arr \in DOMAIN t, t[arr].is = "array", NEW node \in Nodes,
           node.is = "array" => node.nitem = 0,
           NEW u, u = AddItem(arr, node, t)
    PROVE  /\ Sound(u) /\ Grows(t, u)
           /\ At(arr, u) \notin DOMAIN t /\ DOMAIN u = DOMAIN t \cup {At(arr, u)}
           /\ u[At(arr, u)] = node /\ At(arr, u) # arr
           /\ u[arr].nitem = t[arr].nitem + 1
           /\ Document!Parent(At(arr, u)) = arr
           /\ \A path \in DOMAIN t : path # arr => u[path] = t[path]
<1> DEFINE n == t[arr].nitem + 1
           kind == KindWith(t[arr].kind, node.is)
           longer == [t EXCEPT ![arr].nitem = @ + 1, ![arr].kind = KindWith(@, node.is)]
           new == Append(arr, n)
<1>1. /\ arr \in Paths /\ t[arr] \in Nodes /\ t[arr].nitem \in Nat
      /\ t[arr].kind \in Kinds \cup {"none", "mixed"} /\ n \in Nat /\ n \in Steps
      /\ node.is \in Kinds
  BY NodeFields DEF Sound, Typed, Steps
<1>2. kind \in Kinds \cup {"none", "mixed"}
  BY <1>1 DEF KindWith
<1>3. /\ DOMAIN longer = DOMAIN t
      /\ longer[arr] = [t[arr] EXCEPT !.nitem = n, !.kind = kind]
      /\ \A path \in DOMAIN t : path # arr => longer[path] = t[path]
  BY <1>1
<1>4. /\ longer[arr] \in Nodes /\ longer[arr].is = "array"
      /\ longer[arr].nitem = n /\ longer[arr].kind = kind
  <2>1. \A m \in Nat, k \in Kinds \cup {"none", "mixed"} :
            /\ [t[arr] EXCEPT !.nitem = m, !.kind = k] \in Nodes
            /\ [t[arr] EXCEPT !.nitem = m, !.kind = k].is = "array"
            /\ [t[arr] EXCEPT !.nitem = m, !.kind = k].nitem = m
            /\ [t[arr] EXCEPT !.nitem = m, !.kind = k].kind = k
    BY <1>1, ChangedNodes
  <2> HIDE DEF n, kind, longer
  <2>2. /\ [t[arr] EXCEPT !.nitem = n, !.kind = kind] \in Nodes
        /\ [t[arr] EXCEPT !.nitem = n, !.kind = kind].is = "array"
        /\ [t[arr] EXCEPT !.nitem = n, !.kind = kind].nitem = n
        /\ [t[arr] EXCEPT !.nitem = n, !.kind = kind].kind = kind
    BY <1>1, <1>2, <2>1, Zenon
  <2>3. longer[arr] = [t[arr] EXCEPT !.nitem = n, !.kind = kind]
    BY <1>3
  <2> QED  BY <2>2, <2>3, Zenon
<1>5. u = With(new, node, longer)
  BY <1>4 DEF AddItem, At
<1> HIDE DEF longer
<1>6. new \in Paths /\ new # <<>> /\ new # arr /\ Document!Parent(new) = arr /\ Last(new) = n
  BY <1>1, Longer
<1>7. new \notin DOMAIN t
  <2> SUFFICES ASSUME new \in DOMAIN t PROVE FALSE
    OBVIOUS
  <2>1. Last(new) \in 1 .. t[arr].nitem
    BY <1>6 DEF Sound, Attached
  <2> QED  BY <2>1, <1>1, <1>6
<1> HIDE DEF new, n, kind
<1>8. /\ DOMAIN u = DOMAIN t \cup {new} /\ u[new] = node /\ u[arr] = longer[arr]
      /\ \A path \in DOMAIN t : path # arr => u[path] = t[path]
  BY <1>3, <1>5, <1>6, <1>7 DEF With
<1>9. At(arr, u) = new
  BY <1>4, <1>8 DEF At, new
<1>10. \A path \in DOMAIN t : u[path].is = t[path].is
  BY <1>4, <1>8
<1>11. Typed(u)
  BY <1>4, <1>6, <1>8 DEF Sound, Typed
<1>12. Attached(u)
  <2> SUFFICES ASSUME NEW path \in DOMAIN u, path # <<>>
               PROVE  /\ Document!Parent(path) \in DOMAIN u
                      /\ \/ u[Document!Parent(path)].is = "table" /\ Last(path) \in Keys
                         \/ u[Document!Parent(path)].is = "array"
                            /\ Last(path) \in 1 .. u[Document!Parent(path)].nitem
    BY DEF Attached
  <2>1. CASE path = new
    <3>1. n \in 1 .. n
      BY <1>1 DEF n
    <3> QED  BY <2>1, <3>1, <1>4, <1>6, <1>8
  <2>2. CASE path \in DOMAIN t
    <3>1. /\ Document!Parent(path) \in DOMAIN t
          /\ \/ t[Document!Parent(path)].is = "table" /\ Last(path) \in Keys
             \/ t[Document!Parent(path)].is = "array"
                /\ Last(path) \in 1 .. t[Document!Parent(path)].nitem
      BY <2>2 DEF Sound, Attached
    <3>2. CASE Document!Parent(path) = arr
      <4>1. Last(path) \in 1 .. t[arr].nitem
        BY <3>1, <3>2
      <4>2. Last(path) \in 1 .. n
        BY <4>1, <1>1 DEF n
      <4> QED  BY <3>1, <3>2, <4>2, <1>4, <1>8
    <3>3. CASE Document!Parent(path) # arr
      BY <3>1, <3>3, <1>8
    <3> QED  BY <3>2, <3>3
  <2> QED  BY <2>1, <2>2, <1>8
<1>13. ItemsOf(u)
  <2> SUFFICES ASSUME NEW a \in DOMAIN u, u[a].is = "array", NEW i \in 1 .. u[a].nitem
               PROVE  /\ Append(a, i) \in DOMAIN u
                      /\ u[a].kind # "mixed" => u[Append(a, i)].is = u[a].kind
    BY DEF ItemsOf
  <2>1. a # new
    <3> SUFFICES ASSUME a = new PROVE FALSE
      OBVIOUS
    <3>1. i \in 1 .. 0
      BY <1>8
    <3> QED  BY <3>1
  <2>2. a \in DOMAIN t
    BY <2>1, <1>8
  <2>3. CASE a # arr
    <3>1. u[a] = t[a]
      BY <2>2, <2>3, <1>8
    <3>2. Append(a, i) \in DOMAIN t /\ (t[a].kind # "mixed" => t[Append(a, i)].is = t[a].kind)
      BY <2>2, <3>1 DEF Sound, ItemsOf
    <3> QED  BY <3>1, <3>2, <1>8, <1>10
  <2>4. CASE a = arr
    <3>1. i \in 1 .. n /\ u[arr].kind = kind
      BY <2>4, <1>4, <1>8
    <3>2. CASE i = n
      <4>1. Append(a, i) = new
        BY <2>4, <3>2 DEF new
      <4>2. kind # "mixed" => node.is = kind
        BY DEF kind, KindWith
      <4> QED  BY <4>1, <4>2, <2>4, <3>1, <1>8
    <3>3. CASE i # n
      <4>1. i \in 1 .. t[arr].nitem
        BY <3>1, <3>3, <1>1 DEF n
      <4>2. Append(arr, i) \in DOMAIN t /\ (t[arr].kind # "mixed" => t[Append(arr, i)].is = t[arr].kind)
        BY <4>1 DEF Sound, ItemsOf
      <4>3. t[Append(arr, i)].is \in Kinds
        BY <4>2, NodeFields DEF Sound, Typed
      <4>4. t[arr].kind # "none"
        BY <4>2, <4>3 DEF Kinds
      <4>5. kind # "mixed" => t[arr].kind = kind /\ t[arr].kind # "mixed"
        BY <4>4, <1>1 DEF kind, KindWith, Kinds
      <4> QED  BY <4>2, <4>5, <2>4, <3>1, <1>8, <1>10
    <3> QED  BY <3>2, <3>3
  <2> QED  BY <2>3, <2>4
<1>14. Grows(t, u)
  BY <1>8, <1>10 DEF Grows
<1>15. u[arr].nitem = t[arr].nitem + 1
  BY <1>4, <1>8 DEF n
<1> QED  BY <1>6, <1>7, <1>8, <1>9, <1>11, <1>12, <1>13, <1>14, <1>15 DEF Sound

LEMMA GrowsSame == \A t : Sound(t) => Grows(t, t)
  BY DEF Grows

LEMMA GrowsTwice ==
    ASSUME NEW t, NEW u, NEW v, Typed(t), Grows(t, u), Grows(u, v)
    PROVE  Grows(t, v)
  BY DEF Grows, Typed

-----------------------------------------------------------------------------
(* Lists of places in the tree *)

\* The calls of parse_array and parse_inline_table are about what is there.
Frames(t, frames) ==
    /\ frames \in Seq(DOMAIN t)
    /\ \A i \in 1 .. Len(frames) : t[frames[i]].is \in {"array", "table"}

\* The tables given are there, not as headers pass through, and once each.
Given(t, tables) ==
    /\ tables \in Seq(DOMAIN t)
    /\ \A i \in 1 .. Len(tables) : t[tables[i]].is = "table" /\ ~t[tables[i]].implicit
    /\ \A i, j \in 1 .. Len(tables) : tables[i] = tables[j] => i = j

LEMMA FramesGrow ==
    ASSUME NEW t, NEW u, Grows(t, u), NEW frames, Frames(t, frames)
    PROVE  Frames(u, frames)
<1>1. DOMAIN t \subseteq DOMAIN u
  BY DEF Grows
<1>2. frames \in Seq(DOMAIN u) /\ Len(frames) \in Nat
  BY <1>1, LenProperties DEF Frames
<1>3. \A i \in 1 .. Len(frames) : frames[i] \in DOMAIN t
  BY ElementOfSeq DEF Frames
<1> QED  BY <1>2, <1>3 DEF Frames, Grows

LEMMA FramesDeeper ==
    ASSUME NEW t, NEW frames, Frames(t, frames), NEW p \in DOMAIN t, t[p].is \in {"array", "table"}
    PROVE  /\ Frames(t, Append(frames, p)) /\ Append(frames, p) # <<>>
           /\ Append(frames, p)[Len(Append(frames, p))] = p
<1>1. /\ Append(frames, p) \in Seq(DOMAIN t) /\ Append(frames, p) # <<>>
      /\ Len(Append(frames, p)) = Len(frames) + 1 /\ Append(frames, p)[Len(frames) + 1] = p
      /\ \A i \in 1 .. Len(frames) : Append(frames, p)[i] = frames[i]
      /\ Len(frames) \in Nat
  BY AppendProperties, LenProperties DEF Frames
<1>2. \A i \in 1 .. Len(frames) + 1 : i \in 1 .. Len(frames) \/ i = Len(frames) + 1
  BY <1>1
<1>3. \A i \in 1 .. Len(frames) + 1 : t[Append(frames, p)[i]].is \in {"array", "table"}
  BY <1>1, <1>2 DEF Frames
<1> QED  BY <1>1, <1>3 DEF Frames

LEMMA FramesBack ==
    ASSUME NEW t, NEW frames, Frames(t, frames), frames # <<>>
    PROVE  /\ Frames(t, SubSeq(frames, 1, Len(frames) - 1))
           /\ frames[Len(frames)] \in DOMAIN t /\ t[frames[Len(frames)]].is \in {"array", "table"}
<1>1. Len(frames) \in Nat /\ Len(frames) # 0
  BY LenProperties, EmptySeq DEF Frames
<1>2. frames[Len(frames)] \in DOMAIN t /\ t[frames[Len(frames)]].is \in {"array", "table"}
  BY <1>1, ElementOfSeq DEF Frames
<1>3. /\ SubSeq(frames, 1, Len(frames) - 1) \in Seq(DOMAIN t)
      /\ Len(SubSeq(frames, 1, Len(frames) - 1)) = Len(frames) - 1
      /\ \A i \in 1 .. Len(frames) - 1 : SubSeq(frames, 1, Len(frames) - 1)[i] = frames[i]
  <2> DEFINE n == Len(frames) - 1
  <2>1. n \in Nat /\ n - 1 + 1 = n /\ \A i \in 1 .. n : 1 + i - 1 = i /\ 1 .. n \subseteq 1 .. Len(frames)
    BY <1>1
  <2>2. n <= Len(frames)
    BY <1>1
  <2> HIDE DEF n
  <2>3. /\ SubSeq(frames, 1, n) \in Seq(DOMAIN t) /\ Len(SubSeq(frames, 1, n)) = n
        /\ \A i \in 1 .. n : SubSeq(frames, 1, n)[i] = frames[i]
    BY <1>1, <2>1, <2>2, SubSeqProperties DEF Frames
  <2> QED  BY <2>3 DEF n
<1> QED  BY <1>1, <1>2, <1>3 DEF Frames

LEMMA GivenGrow ==
    ASSUME NEW t, NEW u, Grows(t, u), NEW tables, Given(t, tables)
    PROVE  Given(u, tables)
<1>1. DOMAIN t \subseteq DOMAIN u
  BY DEF Grows
<1>2. tables \in Seq(DOMAIN u) /\ Len(tables) \in Nat
  BY <1>1, LenProperties DEF Given
<1>3. \A i \in 1 .. Len(tables) : tables[i] \in DOMAIN t
  BY ElementOfSeq DEF Given
<1> QED  BY <1>2, <1>3 DEF Given, Grows

LEMMA GivenMore ==
    ASSUME NEW t, NEW u, Grows(t, u), NEW tables, Given(t, tables),
           NEW p \in DOMAIN u, u[p].is = "table", ~u[p].implicit,
           p \notin DOMAIN t \/ t[p].implicit
    PROVE  Given(u, Append(tables, p))
<1>1. Given(u, tables)
  BY GivenGrow
<1>2. /\ Append(tables, p) \in Seq(DOMAIN u)
      /\ Len(Append(tables, p)) = Len(tables) + 1 /\ Append(tables, p)[Len(tables) + 1] = p
      /\ \A i \in 1 .. Len(tables) : Append(tables, p)[i] = tables[i]
      /\ Len(tables) \in Nat
  BY <1>1, AppendProperties, LenProperties DEF Given
<1>3. \A i \in 1 .. Len(tables) + 1 : i \in 1 .. Len(tables) \/ i = Len(tables) + 1
  BY <1>2
<1>4. \A i \in 1 .. Len(tables) : tables[i] # p
  BY ElementOfSeq DEF Given
<1>5. \A i \in 1 .. Len(tables) + 1 :
          u[Append(tables, p)[i]].is = "table" /\ ~u[Append(tables, p)[i]].implicit
  BY <1>1, <1>2, <1>3 DEF Given
<1>6. \A i, j \in 1 .. Len(tables) + 1 : Append(tables, p)[i] = Append(tables, p)[j] => i = j
  BY <1>1, <1>2, <1>3, <1>4 DEF Given
<1> QED  BY <1>2, <1>5, <1>6 DEF Given

-----------------------------------------------------------------------------
(* The invariant *)

Scalars ==
    /\ tok \in Tokens /\ tokens \in Nat /\ llb \in BOOLEAN /\ key \in Strings
    /\ pc \in ParserAt \cup {"accepted", "refused"}
    /\ tpath \in Seq(Keys \cup {"STUCK"}) /\ Len(tpath) <= MaxPath

Pointers == pc \in ParserAt => IsTable(<<>>) /\ IsTable(curtab) /\ IsTable(tab)

\* What the parser knows where it is.  A string of no characters is in tpath
\* only until the next token is looked at, which is that string again.
Known ==
    /\ pc = "item" => InArray
    /\ pc = "entry" => stack # <<>> /\ IsTable(inner)
    /\ pc = "comma" => stack # <<>>
    /\ pc \in {"path", "walk"} => tpath \in Seq(Keys)
    /\ pc = "walk" => tpath # <<>>
    /\ pc = "pathNext" => tpath # <<>> /\ (tok = "STUCK" \/ tpath \in Seq(Keys))
    /\ pc \in {"keyed", "value"} => ~tree[tab].readonly

Inv == Scalars /\ Sound(tree) /\ Frames(tree, stack) /\ Given(tree, defined) /\ Pointers /\ Known

LEMMA NoKeys == Len(<<>>) = 0 /\ \A S : <<>> \in Seq(S)
  OBVIOUS

LEMMA InvInit == Init => Inv
<1> SUFFICES ASSUME Init PROVE Inv
  OBVIOUS
<1>1. /\ DOMAIN tree = {<<>>} /\ tree[<<>>] = Table(FALSE) /\ stack = <<>> /\ defined = <<>>
      /\ curtab = <<>> /\ tab = <<>> /\ pc = "top"
  BY DEF Init
<1>2. tree[<<>>] \in Nodes /\ tree[<<>>].is = "table"
  BY <1>1, NewNodes
<1>3. <<>> \in Paths
  BY DEF Paths
<1>4. Sound(tree)
  BY <1>1, <1>2, <1>3 DEF Sound, Typed, Attached, ItemsOf
<1>5. Frames(tree, stack) /\ Given(tree, defined)
  BY <1>1 DEF Frames, Given
<1>6. Scalars
  <2>1. tpath \in Seq(Keys \cup {"STUCK"}) /\ Len(tpath) <= MaxPath
    BY NoKeys, BoundsAssumption DEF Init
  <2> QED  BY <1>1, <2>1 DEF Init, Scalars, Tokens, Strings, Marks, ParserAt
<1>7. Pointers /\ Known
  BY <1>1, <1>2 DEF Pointers, Known, IsTable, Absent
<1> QED  BY <1>4, <1>5, <1>6, <1>7 DEF Inv

\* Nothing new is in a table that was written in braces.
Fresh(t, u) ==
    \A path \in DOMAIN u \ DOMAIN t :
        LET parent == Document!Parent(path)
        IN  ~(parent \in DOMAIN t /\ t[parent].is = "table" /\ t[parent].readonly)

Accept == pc' = "accepted" /\ Leave /\ UNCHANGED tree

Growth ==
    /\ pc \in ParserAt /\ pc' \in ParserAt
    /\ Sound(tree') /\ Grows(tree, tree') /\ (pc = "walk" \/ Fresh(tree, tree'))

Move == Refuse \/ Accept \/ Growth

LEMMA LeaveTypes == Leave => /\ tok' \in Tokens /\ tokens' \in Nat /\ llb' \in BOOLEAN
                             /\ key' \in Strings /\ tpath' = <<>>
                             /\ tpath' \in Seq(Keys \cup {"STUCK"}) /\ Len(tpath') <= MaxPath
<1> SUFFICES ASSUME Leave
             PROVE  /\ tok' \in Tokens /\ tokens' \in Nat /\ llb' \in BOOLEAN
                    /\ key' \in Strings /\ tpath' = <<>>
                    /\ tpath' \in Seq(Keys \cup {"STUCK"}) /\ Len(tpath') <= MaxPath
  OBVIOUS
<1>1. tpath' = <<>>
  BY DEF Leave
<1>2. tpath' \in Seq(Keys \cup {"STUCK"}) /\ Len(tpath') <= MaxPath
  BY <1>1, NoKeys, BoundsAssumption
<1>3. tok' \in Tokens /\ tokens' \in Nat /\ llb' \in BOOLEAN /\ key' \in Strings
  BY DEF Leave, Tokens, Strings, Marks
<1> QED  BY <1>1, <1>2, <1>3

LEMMA EmptyLists == \A t : Frames(t, <<>>) /\ Given(t, <<>>)
  BY DEF Frames, Given

LEMMA RefuseStep == Refuse => Inv' /\ Move
<1> SUFFICES ASSUME Refuse PROVE Inv' /\ Move
  OBVIOUS
<1>1. pc' = "refused" /\ tree' = <<>> /\ stack' = <<>> /\ defined' = <<>> /\ Leave
  BY DEF Refuse, Leave
<1>2. Sound(tree')
  BY <1>1 DEF Sound, Typed, Attached, ItemsOf
<1>3. Frames(tree', stack') /\ Given(tree', defined')
  BY <1>1, EmptyLists
<1>4. Scalars'
  BY <1>1, LeaveTypes DEF Scalars
<1>5. Pointers' /\ Known'
  BY <1>1 DEF Pointers, Known, ParserAt
<1> QED  BY <1>2, <1>3, <1>4, <1>5 DEF Inv, Move

LEMMA AcceptStep == Inv /\ Accept => Inv' /\ Move
<1> SUFFICES ASSUME Inv, Accept PROVE Inv' /\ Move
  OBVIOUS
<1>1. pc' = "accepted" /\ tree' = tree /\ stack' = <<>> /\ defined' = <<>> /\ Leave
  BY DEF Accept, Leave
<1>2. Frames(tree', stack') /\ Given(tree', defined')
  BY <1>1, EmptyLists
<1>3. Scalars'
  BY <1>1, LeaveTypes DEF Scalars
<1>4. Pointers' /\ Known'
  BY <1>1 DEF Pointers, Known, ParserAt
<1> QED  BY <1>1, <1>2, <1>3, <1>4 DEF Inv, Move

LEMMA Scanned ==
    ASSUME Scalars, NEW n \in {1, 2}, NEW d, Scan(n, d)
    PROVE  tok' \in Tokens /\ tokens' \in Nat /\ (tok = "STUCK" => tok' = "STUCK")
  BY DEF Scan, Scalars, Tokens, Marks

\* Steps that leave the tree, the stack and the lists of headers alone.
LEMMA Quiet ==
    ASSUME Inv, pc \in ParserAt, pc' \in ParserAt,
           UNCHANGED <<tree, stack, curtab, defined>>,
           tok' \in Tokens, tokens' \in Nat, llb' \in BOOLEAN, key' \in Strings,
           IsTable(tab'), tpath' \in Seq(Keys \cup {"STUCK"}), Len(tpath') <= MaxPath, Known'
    PROVE  Inv' /\ Move
<1>1. Scalars'
  BY DEF Scalars
<1>2. Sound(tree') /\ Frames(tree', stack') /\ Given(tree', defined')
  BY DEF Inv
<1>3. Pointers'
  BY DEF Inv, Pointers, IsTable, Absent
<1>4. Grows(tree, tree')
  BY GrowsSame DEF Inv
<1>5. Fresh(tree, tree')
  BY DEF Fresh
<1> QED  BY <1>1, <1>2, <1>3, <1>4, <1>5 DEF Inv, Move, Growth

\* Steps that end the parser of a value.
LEMMA Returned ==
    ASSUME Inv, pc \in ParserAt, Sound(tree'), Grows(tree, tree'), Fresh(tree, tree'),
           NEW frames, Frames(tree, frames), ReturnTo(frames),
           tok' \in Tokens, tokens' \in Nat, UNCHANGED <<curtab, tpath, llb, defined>>
    PROVE  Inv' /\ Move
<1>1. stack' = frames /\ tab' = <<>> /\ key' = "NOKEY" /\ pc' \in {"eol", "comma"}
      /\ (pc' = "comma" => stack' # <<>>)
  BY DEF ReturnTo
<1>2. pc' \in ParserAt
  BY <1>1 DEF ParserAt
<1>3. Scalars'
  BY <1>1, <1>2 DEF Inv, Scalars, Strings
<1>4. Frames(tree', stack') /\ Given(tree', defined')
  BY <1>1, FramesGrow, GivenGrow DEF Inv
<1>5. Pointers'
  BY <1>1 DEF Inv, Pointers, IsTable, Absent, Grows
<1>6. Known'
  BY <1>1 DEF Known
<1> QED  BY <1>2, <1>3, <1>4, <1>5, <1>6 DEF Inv, Move, Growth

\* Steps that begin one.
LEMMA Entered ==
    ASSUME Inv, pc \in ParserAt, Sound(tree'), Grows(tree, tree'), Fresh(tree, tree'),
           NEW p, p \in DOMAIN tree', tree'[p].is \in {"array", "table"}, Enter(p),
           UNCHANGED <<curtab, tpath, llb>>, Given(tree', defined')
    PROVE  Inv' /\ Move
<1>1. /\ stack' = Append(stack, p) /\ tab' = <<>> /\ key' = "NOKEY"
      /\ pc' = IF tree'[p].is = "array" THEN "item" ELSE "entry"
      /\ Scan(1, tree'[p].is = "table")
  BY DEF Enter
<1>2. pc' \in ParserAt
  BY <1>1 DEF ParserAt
<1>3. tok' \in Tokens /\ tokens' \in Nat
  BY <1>1 DEF Inv, Scalars, Scan, Tokens, Marks
<1>4. Scalars'
  BY <1>1, <1>2, <1>3 DEF Inv, Scalars, Strings
<1>5. Frames(tree', stack)
  BY FramesGrow DEF Inv
<1>6. Frames(tree', stack') /\ stack' # <<>> /\ stack'[Len(stack')] = p
  BY <1>1, <1>5, FramesDeeper
<1>7. Pointers'
  BY <1>1 DEF Inv, Pointers, IsTable, Absent, Grows
<1>8. Known'
  BY <1>1, <1>6 DEF Known, InArray, inner, IsTable, Absent
<1> QED  BY <1>2, <1>4, <1>6, <1>7, <1>8 DEF Inv, Move, Growth

-----------------------------------------------------------------------------
(* Steps that leave the tree alone *)

LEMMA TopStep == Inv /\ Top => Inv' /\ Move
<1> SUFFICES ASSUME Inv, Top PROVE Inv' /\ Move
  OBVIOUS
<1>1. pc = "top" /\ pc \in ParserAt /\ Scalars /\ IsTable(curtab)
  BY DEF Top, Inv, Pointers, ParserAt
<1>2. CASE pc' = "accepted" /\ Leave /\ UNCHANGED tree
  BY <1>2, AcceptStep DEF Accept
<1>3. CASE Scan(1, TRUE) /\ UNCHANGED <<pc, stack, tree, curtab, tab, key, tpath, llb, defined>>
  <2>1. tok' \in Tokens /\ tokens' \in Nat
    BY <1>1, <1>3, Scanned
  <2>2. Known'
    BY <1>1, <1>3 DEF Known
  <2>3. IsTable(tab')
    BY <1>1, <1>3 DEF Inv, Pointers
  <2> QED  BY <1>1, <1>3, <2>1, <2>2, <2>3, Quiet DEF Scalars
<1>4. CASE /\ pc' = "keyval" /\ tab' = curtab
           /\ UNCHANGED <<tok, tokens, stack, tree, curtab, key, tpath, llb, defined>>
  <2>1. Known' /\ pc' \in ParserAt
    BY <1>4 DEF Known, ParserAt
  <2>2. IsTable(tab')
    BY <1>1, <1>4
  <2> QED  BY <1>1, <1>4, <2>1, <2>2, Quiet DEF Scalars
<1>5. CASE Refuse
  BY <1>5, RefuseStep
<1> QED  BY <1>2, <1>3, <1>4, <1>5 DEF Top

LEMMA EndOfLineStep == Inv /\ EndOfLine => Inv' /\ Move
<1> SUFFICES ASSUME Inv, EndOfLine PROVE Inv' /\ Move
  OBVIOUS
<1>1. pc = "eol" /\ pc \in ParserAt /\ Scalars /\ IsTable(tab)
  BY DEF EndOfLine, Inv, Pointers, ParserAt
<1>2. CASE /\ Scan(1, TRUE) /\ pc' = "top"
           /\ UNCHANGED <<stack, tree, curtab, tab, key, tpath, llb, defined>>
  <2>1. tok' \in Tokens /\ tokens' \in Nat
    BY <1>1, <1>2, Scanned
  <2>2. Known' /\ pc' \in ParserAt
    BY <1>2 DEF Known, ParserAt
  <2>3. IsTable(tab')
    BY <1>1, <1>2
  <2> QED  BY <1>1, <1>2, <2>1, <2>2, <2>3, Quiet DEF Scalars
<1>3. CASE Refuse
  BY <1>3, RefuseStep
<1> QED  BY <1>2, <1>3 DEF EndOfLine

LEMMA KeyvalStep == Inv /\ Keyval => Inv' /\ Move
<1> SUFFICES ASSUME Inv, Keyval PROVE Inv' /\ Move
  OBVIOUS
<1>1. pc = "keyval" /\ pc \in ParserAt /\ Scalars /\ IsTable(tab)
  BY DEF Keyval, Inv, Pointers, ParserAt
<1>2. CASE /\ tok \in Strings /\ ~tree[tab].readonly
           /\ key' = tok /\ Scan(1, TRUE) /\ pc' = "keyed"
           /\ UNCHANGED <<stack, tree, curtab, tab, tpath, llb, defined>>
  <2>1. tok' \in Tokens /\ tokens' \in Nat
    BY <1>1, <1>2, Scanned
  <2>2. Known' /\ pc' \in ParserAt
    BY <1>2 DEF Known, ParserAt
  <2>3. IsTable(tab')
    BY <1>1, <1>2
  <2> QED  BY <1>1, <1>2, <2>1, <2>2, <2>3, Quiet DEF Scalars
<1>3. CASE Refuse
  BY <1>3, RefuseStep
<1> QED  BY <1>2, <1>3 DEF Keyval

LEMMA SkipNewlineStep == Inv /\ SkipNewline => Inv' /\ Move
<1> SUFFICES ASSUME Inv, SkipNewline PROVE Inv' /\ Move
  OBVIOUS
<1>1. pc \in {"item", "comma"} /\ pc \in ParserAt /\ Scalars /\ IsTable(tab) /\ InArray
  BY DEF SkipNewline, Inv, Pointers, ParserAt
<1>2. Scan(1, FALSE) /\ UNCHANGED <<pc, stack, tree, curtab, tab, key, tpath, llb, defined>>
  BY DEF SkipNewline
<1>3. tok' \in Tokens /\ tokens' \in Nat
  BY <1>1, <1>2, Scanned
<1>4. Known'
  BY <1>1, <1>2 DEF Known, InArray, inner
<1>5. IsTable(tab')
  BY <1>1, <1>2
<1> QED  BY <1>1, <1>2, <1>3, <1>4, <1>5, Quiet DEF Scalars

LEMMA HeaderStep == Inv /\ Header => Inv' /\ Move
<1> SUFFICES ASSUME Inv, Header PROVE Inv' /\ Move
  OBVIOUS
<1>1. pc = "top" /\ pc \in ParserAt /\ Scalars /\ IsTable(tab)
  BY DEF Header, Inv, Pointers, ParserAt
<1>2. /\ llb' \in BOOLEAN /\ pc' = "path" /\ tpath' = <<>>
      /\ UNCHANGED <<stack, tree, curtab, tab, key, defined>>
  BY DEF Header
<1>3. tok' \in Tokens /\ tokens' \in Nat
  <2>1. Scan(1, TRUE) \/ Scan(2, TRUE)
    BY DEF Header
  <2> QED  BY <1>1, <2>1, Scanned
<1>4. /\ tpath' \in Seq(Keys) /\ tpath' \in Seq(Keys \cup {"STUCK"}) /\ Len(tpath') <= MaxPath
  BY <1>2, NoKeys, BoundsAssumption
<1>5. Known' /\ pc' \in ParserAt
  BY <1>2, <1>4 DEF Known, ParserAt
<1>6. IsTable(tab')
  BY <1>1, <1>2
<1> QED  BY <1>1, <1>2, <1>3, <1>4, <1>5, <1>6, Quiet DEF Scalars

LEMMA PathKeyStep == Inv /\ PathKey => Inv' /\ Move
<1> SUFFICES ASSUME Inv, PathKey PROVE Inv' /\ Move
  OBVIOUS
<1>1. pc = "path" /\ pc \in ParserAt /\ Scalars /\ IsTable(tab) /\ tpath \in Seq(Keys)
  BY DEF PathKey, Inv, Pointers, Known, ParserAt
<1>2. CASE /\ tok \in Keys \cup {"STUCK"} /\ Len(tpath) < MaxPath
           /\ tpath' = Append(tpath, tok) /\ Scan(1, TRUE) /\ pc' = "pathNext"
           /\ UNCHANGED <<stack, tree, curtab, tab, key, llb, defined>>
  <2>1. tok' \in Tokens /\ tokens' \in Nat /\ (tok = "STUCK" => tok' = "STUCK")
    BY <1>1, <1>2, Scanned
  <2>2. tpath' \in Seq(Keys \cup {"STUCK"}) /\ tpath' # <<>> /\ Len(tpath') = Len(tpath) + 1
    <3>1. tpath \in Seq(Keys \cup {"STUCK"})
      BY <1>1 DEF Scalars
    <3> QED  BY <1>2, <3>1, AppendProperties
  <2>3. tok # "STUCK" => tpath' \in Seq(Keys)
    BY <1>1, <1>2, AppendProperties
  <2>4. Len(tpath') <= MaxPath
    <3>1. Len(tpath) \in Nat
      BY <1>1, LenProperties
    <3> QED  BY <1>2, <2>2, <3>1, BoundsAssumption
  <2>5. Known' /\ pc' \in ParserAt
    BY <1>2, <2>1, <2>2, <2>3 DEF Known, ParserAt
  <2>6. IsTable(tab')
    BY <1>1, <1>2
  <2> QED  BY <1>1, <1>2, <2>1, <2>2, <2>4, <2>5, <2>6, Quiet DEF Scalars
<1>3. CASE Refuse
  BY <1>3, RefuseStep
<1> QED  BY <1>2, <1>3 DEF PathKey

LEMMA PathNextStep == Inv /\ PathNext => Inv' /\ Move
<1> SUFFICES ASSUME Inv, PathNext PROVE Inv' /\ Move
  OBVIOUS
<1>1. /\ pc = "pathNext" /\ pc \in ParserAt /\ Scalars /\ IsTable(tab) /\ IsTable(<<>>)
      /\ tpath # <<>> /\ (tok = "STUCK" \/ tpath \in Seq(Keys))
  BY DEF PathNext, Inv, Pointers, Known, ParserAt
<1>2. CASE /\ tok = "DOT" /\ Scan(1, TRUE) /\ pc' = "path"
           /\ UNCHANGED <<stack, tree, curtab, tab, key, tpath, llb, defined>>
  <2>1. tok' \in Tokens /\ tokens' \in Nat
    BY <1>1, <1>2, Scanned
  <2>2. Known' /\ pc' \in ParserAt
    BY <1>1, <1>2 DEF Known, ParserAt
  <2>3. IsTable(tab')
    BY <1>1, <1>2
  <2> QED  BY <1>1, <1>2, <2>1, <2>2, <2>3, Quiet DEF Scalars
<1>3. CASE /\ tok = "RBRACKET" /\ pc' = "walk" /\ tab' = <<>>
           /\ UNCHANGED <<tok, tokens, stack, tree, curtab, key, tpath, llb, defined>>
  <2>1. Known' /\ pc' \in ParserAt
    BY <1>1, <1>3 DEF Known, ParserAt
  <2>2. IsTable(tab')
    BY <1>1, <1>3
  <2> QED  BY <1>1, <1>3, <2>1, <2>2, Quiet DEF Scalars
<1>4. CASE Refuse
  BY <1>4, RefuseStep
<1> QED  BY <1>2, <1>3, <1>4 DEF PathNext

LEMMA SelectedStep == Inv /\ Selected => Inv' /\ Move
<1> SUFFICES ASSUME Inv, Selected PROVE Inv' /\ Move
  OBVIOUS
<1>1. pc = "selected" /\ pc \in ParserAt /\ Scalars /\ IsTable(tab)
  BY DEF Selected, Inv, Pointers, ParserAt
<1>2. CASE /\ pc' = "top"
           /\ UNCHANGED <<tok, tokens, stack, tree, curtab, tab, key, tpath, llb, defined>>
  <2>1. Known' /\ pc' \in ParserAt
    BY <1>2 DEF Known, ParserAt
  <2>2. IsTable(tab')
    BY <1>1, <1>2
  <2> QED  BY <1>1, <1>2, <2>1, <2>2, Quiet DEF Scalars
<1>3. CASE Refuse
  BY <1>3, RefuseStep
<1> QED  BY <1>2, <1>3 DEF Selected

-----------------------------------------------------------------------------
(* Steps that change the tree *)

LEMMA NewKey ==
    ASSUME NEW t, Sound(t), NEW tab0 \in DOMAIN t, t[tab0].is = "table", NEW k \in Keys,
           Append(tab0, k) \notin DOMAIN t, NEW node \in Nodes,
           node.is = "array" => node.nitem = 0,
           NEW u, u = With(Append(tab0, k), node, t)
    PROVE  /\ Sound(u) /\ Grows(t, u)
           /\ Append(tab0, k) \in DOMAIN u /\ u[Append(tab0, k)] = node
           /\ ~t[tab0].readonly => Fresh(t, u)
<1>1. Sound(u) /\ Grows(t, u)
  BY AddKey
<1>3. DOMAIN u = DOMAIN t \cup {Append(tab0, k)} /\ u[Append(tab0, k)] = node
  BY DEF With
<1>2. Document!Parent(Append(tab0, k)) = tab0
  BY Longer DEF Sound, Typed, Steps
<1> QED  BY <1>1, <1>2, <1>3 DEF Fresh

LEMMA Defined ==
    ASSUME Sound(tree), NEW tab0 \in DOMAIN tree, tree[tab0].is = "table", NEW k \in Keys,
           NEW p, p = Append(tab0, k), CanDefine(p), tree' = Define(p)
    PROVE  /\ Sound(tree') /\ Grows(tree, tree')
           /\ p \in DOMAIN tree' /\ tree'[p].is = "table" /\ ~tree'[p].implicit
           /\ p \notin DOMAIN tree \/ tree[p].implicit
           /\ ~tree[tab0].readonly => Fresh(tree, tree')
<1>1. CASE Absent(p)
  <2>1. tree' = With(p, Table(FALSE), tree) /\ p \notin DOMAIN tree
    BY <1>1 DEF Define, Absent
  <2>2. /\ Table(FALSE) \in Nodes /\ Table(FALSE).is = "table" /\ ~Table(FALSE).implicit
    BY NewNodes
  <2>3. /\ Sound(tree') /\ Grows(tree, tree') /\ p \in DOMAIN tree' /\ tree'[p] = Table(FALSE)
        /\ ~tree[tab0].readonly => Fresh(tree, tree')
    <3> DEFINE node == Table(FALSE)
    <3>1. node \in Nodes /\ node.is = "table" /\ tree' = With(Append(tab0, k), node, tree)
      BY <2>1, <2>2
    <3>2. node.is = "array" => node.nitem = 0
      BY <3>1
    <3> HIDE DEF node
    <3>3. Append(tab0, k) \notin DOMAIN tree
      BY <2>1
    <3>4. Sound(tree') /\ Grows(tree, tree')
      BY <3>1, <3>2, <3>3, NewKey
    <3>5. p \in DOMAIN tree' /\ tree'[p] = node
      BY <3>1, <3>2, <3>3, NewKey
    <3>6. ~tree[tab0].readonly => Fresh(tree, tree')
      BY <3>1, <3>2, <3>3, NewKey
    <3> QED  BY <3>4, <3>5, <3>6 DEF node
  <2> QED  BY <2>1, <2>2, <2>3
<1>2. CASE ~Absent(p)
  <2>1. /\ p \in DOMAIN tree /\ tree[p].is = "table" /\ tree[p].implicit
        /\ tree' = [tree EXCEPT ![p].implicit = FALSE] /\ tree[p] \in Nodes
    BY <1>2 DEF Define, CanDefine, IsTable, Absent, Sound, Typed
  <2>2. /\ [tree[p] EXCEPT !.implicit = FALSE] \in Nodes
        /\ [tree[p] EXCEPT !.implicit = FALSE].is = "table"
        /\ [tree[p] EXCEPT !.implicit = FALSE].implicit = FALSE
    BY <2>1, ChangedNodes, Zenon
  <2>3. /\ DOMAIN tree' = DOMAIN tree /\ tree'[p] = [tree[p] EXCEPT !.implicit = FALSE]
        /\ \A path \in DOMAIN tree : path # p => tree'[path] = tree[path]
    BY <2>1
  <2>4. Sound(tree') /\ Grows(tree, tree')
    <3> DEFINE node == [tree[p] EXCEPT !.implicit = FALSE]
    <3>1. node \in Nodes /\ node.is = "table" /\ ~node.implicit /\ tree'[p] = node
      BY <2>2, <2>3
    <3> HIDE DEF node
    <3> QED  BY <2>1, <2>3, <3>1, Replace
  <2>5. Fresh(tree, tree')
    BY <2>3 DEF Fresh
  <2> QED  BY <2>1, <2>2, <2>3, <2>4, <2>5
<1> QED  BY <1>1, <1>2

LEMMA Closed ==
    ASSUME Sound(tree), NEW p \in DOMAIN tree, tree[p].is = "table",
           tree' = [tree EXCEPT ![p].readonly = TRUE]
    PROVE  Sound(tree') /\ Grows(tree, tree') /\ Fresh(tree, tree')
<1>1. tree[p] \in Nodes
  BY DEF Sound, Typed
<1>2. /\ [tree[p] EXCEPT !.readonly = TRUE] \in Nodes
      /\ [tree[p] EXCEPT !.readonly = TRUE].is = "table"
      /\ [tree[p] EXCEPT !.readonly = TRUE].implicit = tree[p].implicit
  BY <1>1, ChangedNodes, Zenon
<1>3. /\ DOMAIN tree' = DOMAIN tree /\ tree'[p] = [tree[p] EXCEPT !.readonly = TRUE]
      /\ \A path \in DOMAIN tree : path # p => tree'[path] = tree[path]
  OBVIOUS
<1>4. Sound(tree') /\ Grows(tree, tree')
  <2> DEFINE node == [tree[p] EXCEPT !.readonly = TRUE]
  <2>1. node \in Nodes /\ node.is = "table" /\ node.implicit = tree[p].implicit /\ tree'[p] = node
    BY <1>2, <1>3
  <2> HIDE DEF node
  <2> QED  BY <1>3, <2>1, Replace
<1>5. Fresh(tree, tree')
  BY <1>3 DEF Fresh
<1> QED  BY <1>4, <1>5

IsWithItem(u, t, arr, node) ==
    /\ arr \in DOMAIN t /\ t[arr].is = "array"
    /\ node \in Nodes /\ (node.is = "array" => node.nitem = 0)
    /\ u = AddItem(arr, node, t)

LEMMA NewItem ==
    ASSUME NEW t, Sound(t), NEW arr, NEW node, NEW u, IsWithItem(u, t, arr, node)
    PROVE  /\ Sound(u) /\ Grows(t, u) /\ Fresh(t, u)
           /\ At(arr, u) \in DOMAIN u /\ At(arr, u) \notin DOMAIN t /\ u[At(arr, u)] = node
<1>1. /\ Sound(u) /\ Grows(t, u)
      /\ At(arr, u) \notin DOMAIN t /\ DOMAIN u = DOMAIN t \cup {At(arr, u)}
      /\ u[At(arr, u)] = node /\ Document!Parent(At(arr, u)) = arr
  BY MoreItems DEF IsWithItem
<1> QED  BY <1>1 DEF Fresh, IsWithItem

LEMMA KeyedStep == Inv /\ Keyed => Inv' /\ Move
<1> SUFFICES ASSUME Inv, Keyed PROVE Inv' /\ Move
  OBVIOUS
<1>1. /\ pc = "keyed" /\ pc \in ParserAt /\ Scalars /\ IsTable(tab) /\ ~tree[tab].readonly
      /\ Sound(tree) /\ IsTable(curtab) /\ IsTable(<<>>)
  BY DEF Keyed, Inv, Pointers, Known, ParserAt
<1>2. CASE /\ tok = "EQUAL" /\ Scan(1, FALSE) /\ pc' = "value"
           /\ UNCHANGED <<stack, tree, curtab, tab, key, tpath, llb, defined>>
  <2>1. tok' \in Tokens /\ tokens' \in Nat
    BY <1>1, <1>2, Scanned
  <2>2. Known' /\ pc' \in ParserAt
    BY <1>1, <1>2 DEF Known, ParserAt
  <2>3. IsTable(tab')
    BY <1>1, <1>2
  <2> QED  BY <1>1, <1>2, <2>1, <2>2, <2>3, Quiet DEF Scalars
<1>3. CASE /\ tok = "DOT" /\ CanDescend
           /\ tree' = IF IsTable(place) THEN tree ELSE Define(place)
           /\ Scan(1, TRUE) /\ pc' = "keyval" /\ tab' = place
           /\ UNCHANGED <<stack, curtab, key, tpath, llb, defined>>
  <2>1. tok' \in Tokens /\ tokens' \in Nat
    BY <1>1, <1>3, Scanned
  <2>2. /\ Sound(tree') /\ Grows(tree, tree') /\ Fresh(tree, tree')
        /\ tab' \in DOMAIN tree' /\ tree'[tab'].is = "table"
    <3>1. CASE IsTable(place)
      <4>1. tree' = tree
        BY <1>3, <3>1
      <4>2. Grows(tree, tree') /\ Fresh(tree, tree')
        BY <1>1, <4>1, GrowsSame DEF Fresh
      <4> QED  BY <1>1, <1>3, <3>1, <4>1, <4>2 DEF IsTable, Absent
    <3>2. CASE ~IsTable(place)
      <4>1. tree' = Define(place) /\ Absent(place) /\ key \in Keys /\ CanDefine(place)
        BY <1>3, <3>2 DEF CanDescend, CanDefine
      <4>2. tab \in DOMAIN tree /\ tree[tab].is = "table" /\ place = Append(tab, key)
        BY <1>1 DEF IsTable, Absent, place
      <4>3. /\ Sound(tree') /\ Grows(tree, tree') /\ Fresh(tree, tree')
            /\ place \in DOMAIN tree' /\ tree'[place].is = "table"
        BY <1>1, <4>1, <4>2, Defined
      <4> QED  BY <1>3, <4>3
    <3> QED  BY <3>1, <3>2
  <2>3. Frames(tree', stack') /\ Given(tree', defined')
    BY <1>3, <2>2, FramesGrow, GivenGrow DEF Inv
  <2>4. Pointers'
    BY <1>1, <1>3, <2>2 DEF Pointers, IsTable, Absent, Grows
  <2>5. Known' /\ pc' \in ParserAt
    BY <1>3 DEF Known, ParserAt
  <2>6. Scalars'
    BY <1>1, <1>3, <2>1, <2>5 DEF Scalars
  <2> QED  BY <1>1, <2>2, <2>3, <2>4, <2>5, <2>6 DEF Inv, Move, Growth
<1>4. CASE Refuse
  BY <1>4, RefuseStep
<1> QED  BY <1>2, <1>3, <1>4 DEF Keyed

LEMMA KeyedValueStep == Inv /\ KeyedValue => Inv' /\ Move
<1> SUFFICES ASSUME Inv, KeyedValue PROVE Inv' /\ Move
  OBVIOUS
<1>1. /\ pc = "value" /\ pc \in ParserAt /\ Scalars
      /\ tab \in DOMAIN tree /\ tree[tab].is = "table" /\ ~tree[tab].readonly
      /\ Sound(tree) /\ Frames(tree, stack) /\ Given(tree, defined) /\ place = Append(tab, key)
  BY DEF KeyedValue, Inv, Pointers, Known, ParserAt, IsTable, Absent, place
<1>2. CASE /\ ValueAllowed /\ tok \in Strings
           /\ tree' = With(place, Value, tree)
           /\ Scan(1, TRUE) /\ ReturnTo(stack)
           /\ UNCHANGED <<curtab, tpath, llb, defined>>
  <2>1. tok' \in Tokens /\ tokens' \in Nat
    BY <1>1, <1>2, Scanned
  <2>2. key \in Keys
    BY <1>2 DEF ValueAllowed
  <2>3. CASE Absent(place)
    <3>1. Sound(tree') /\ Grows(tree, tree') /\ Fresh(tree, tree')
      BY <1>1, <1>2, <2>2, <2>3, NewNodes, NewKey DEF Absent
    <3> QED  BY <1>1, <1>2, <2>1, <3>1, Returned
  <2>4. tok # "LBRACE"
    BY <1>2, KeysAssumption DEF Strings, Marks
  <2> QED  BY <1>2, <2>3, <2>4 DEF ValueAllowed
<1>3. CASE /\ ValueAllowed /\ tok = "LBRACKET"
           /\ tree' = With(place, Array("none"), tree)
           /\ Enter(place)
           /\ UNCHANGED <<curtab, tpath, llb, defined>>
  <2>1. key \in Keys /\ place \notin DOMAIN tree
    BY <1>3 DEF ValueAllowed, Absent
  <2>2. Array("none") \in Nodes /\ Array("none").is = "array" /\ Array("none").nitem = 0
    BY NewNodes
  <2>3. /\ Sound(tree') /\ Grows(tree, tree') /\ Fresh(tree, tree')
        /\ place \in DOMAIN tree' /\ tree'[place].is = "array"
    BY <1>1, <1>3, <2>1, <2>2, NewKey
  <2>4. Given(tree', defined')
    BY <1>1, <1>3, <2>3, GivenGrow
  <2> QED  BY <1>1, <1>3, <2>3, <2>4, Entered
<1>4. CASE /\ ValueAllowed /\ tok = "LBRACE"
           /\ tree' = Define(place)
           /\ Enter(place)
           /\ defined' = Append(defined, place)
           /\ UNCHANGED <<curtab, tpath, llb>>
  <2>1. key \in Keys /\ CanDefine(place)
    BY <1>4 DEF ValueAllowed, CanDefine
  <2>2. /\ Sound(tree') /\ Grows(tree, tree') /\ Fresh(tree, tree')
        /\ place \in DOMAIN tree' /\ tree'[place].is = "table" /\ ~tree'[place].implicit
        /\ place \notin DOMAIN tree \/ tree[place].implicit
    BY <1>1, <1>4, <2>1, Defined
  <2>3. Given(tree', defined')
    BY <1>1, <1>4, <2>2, GivenMore
  <2> QED  BY <1>1, <1>4, <2>2, <2>3, Entered
<1>5. CASE Refuse
  BY <1>5, RefuseStep
<1> QED  BY <1>2, <1>3, <1>4, <1>5 DEF KeyedValue

LEMMA CloseArrayStep ==
    ASSUME Inv, pc \in ParserAt, stack # <<>>, CloseArray
    PROVE  Inv' /\ Move
<1>1. Frames(tree, outer)
  BY FramesBack DEF Inv, outer
<1>2. tok' \in Tokens /\ tokens' \in Nat
  BY Scanned DEF Inv, CloseArray
<1>3. Sound(tree') /\ Grows(tree, tree') /\ Fresh(tree, tree')
  BY GrowsSame DEF Inv, CloseArray, Fresh
<1> QED  BY <1>1, <1>2, <1>3, Returned DEF CloseArray

LEMMA CloseTableStep ==
    ASSUME Inv, pc \in ParserAt, stack # <<>>, IsTable(inner), CloseTable
    PROVE  Inv' /\ Move
<1>1. Frames(tree, outer)
  BY FramesBack DEF Inv, outer
<1>2. tok' \in Tokens /\ tokens' \in Nat
  BY Scanned DEF Inv, CloseTable
<1>3. Sound(tree') /\ Grows(tree, tree') /\ Fresh(tree, tree')
  BY Closed DEF Inv, CloseTable, IsTable, Absent
<1> QED  BY <1>1, <1>2, <1>3, Returned DEF CloseTable

LEMMA ItemStep == Inv /\ Item => Inv' /\ Move
<1> SUFFICES ASSUME Inv, Item PROVE Inv' /\ Move
  OBVIOUS
<1>1. /\ pc = "item" /\ pc \in ParserAt /\ Scalars /\ InArray /\ IsTable(tab) /\ IsTable(curtab)
      /\ Sound(tree) /\ Frames(tree, stack) /\ Given(tree, defined)
  BY DEF Item, Inv, Pointers, Known, ParserAt
<1>2. stack # <<>> /\ inner \in DOMAIN tree /\ tree[inner].is = "array"
  BY <1>1, FramesBack DEF InArray, inner
<1>3. CASE CloseArray
  BY <1>1, <1>2, <1>3, CloseArrayStep
<1>4. CASE /\ tok \in Strings
           /\ tree' = AddItem(inner, Value, tree)
           /\ Scan(1, FALSE)
           /\ pc' = "comma"
           /\ UNCHANGED <<stack, curtab, tab, key, tpath, llb, defined>>
  <2>1. tok' \in Tokens /\ tokens' \in Nat
    BY <1>1, <1>4, Scanned
  <2>2. Value \in Nodes /\ Value.is = "value"
    BY NewNodes
  <2>3. Sound(tree') /\ Grows(tree, tree') /\ Fresh(tree, tree')
    <3>1. IsWithItem(tree', tree, inner, Value)
      BY <1>2, <1>4, <2>2 DEF IsWithItem
    <3> QED  BY <1>1, <3>1, NewItem
  <2>4. Frames(tree', stack') /\ Given(tree', defined')
    BY <1>1, <1>4, <2>3, FramesGrow, GivenGrow
  <2>5. Known' /\ pc' \in ParserAt
    BY <1>2, <1>4 DEF Known, ParserAt
  <2>6. Pointers'
    BY <1>1, <1>4, <2>3 DEF Inv, Pointers, IsTable, Absent, Grows
  <2>7. Scalars'
    BY <1>1, <1>4, <2>1, <2>5 DEF Scalars
  <2> QED  BY <1>1, <2>3, <2>4, <2>5, <2>6, <2>7 DEF Inv, Move, Growth
<1>5. CASE /\ tok \in {"LBRACKET", "LBRACE"}
           /\ tree' = AddItem(inner, IF tok = "LBRACE" THEN Table(FALSE) ELSE Array("none"), tree)
           /\ Enter(At(inner, tree'))
           /\ defined' = IF tok = "LBRACE" THEN Append(defined, At(inner, tree')) ELSE defined
           /\ UNCHANGED <<curtab, tpath, llb>>
  <2> DEFINE node == IF tok = "LBRACE" THEN Table(FALSE) ELSE Array("none")
  <2>1. /\ node \in Nodes /\ node.is \in {"array", "table"}
        /\ node.is = "array" => node.nitem = 0
        /\ tok = "LBRACE" => node.is = "table" /\ ~node.implicit
    BY NewNodes
  <2>2. tree' = AddItem(inner, node, tree)
    BY <1>5
  <2> HIDE DEF node
  <2>3. PICK p : p = At(inner, tree')
    OBVIOUS
  <2>4. IsWithItem(tree', tree, inner, node)
    BY <1>2, <2>1, <2>2 DEF IsWithItem
  <2>5. Sound(tree') /\ Grows(tree, tree') /\ Fresh(tree, tree')
    BY <1>1, <2>4, NewItem
  <2>6. p \in DOMAIN tree' /\ p \notin DOMAIN tree /\ tree'[p] = node
    BY <1>1, <2>3, <2>4, NewItem
  <2>7. Given(tree', defined')
    <3>1. CASE tok = "LBRACE"
      BY <1>1, <1>5, <2>1, <2>3, <2>5, <2>6, <3>1, GivenMore
    <3>2. CASE tok # "LBRACE"
      BY <1>1, <1>5, <2>5, <3>2, GivenGrow
    <3> QED  BY <3>1, <3>2
  <2>8. Enter(p)
    BY <1>5, <2>3
  <2> QED  BY <1>1, <1>5, <2>1, <2>5, <2>6, <2>7, <2>8, Entered
<1>6. CASE Refuse
  BY <1>6, RefuseStep
<1> QED  BY <1>3, <1>4, <1>5, <1>6 DEF Item

LEMMA EntryStep == Inv /\ Entry => Inv' /\ Move
<1> SUFFICES ASSUME Inv, Entry PROVE Inv' /\ Move
  OBVIOUS
<1>1. pc = "entry" /\ pc \in ParserAt /\ Scalars /\ stack # <<>> /\ IsTable(inner)
  BY DEF Entry, Inv, Known, ParserAt
<1>2. CASE CloseTable
  BY <1>1, <1>2, CloseTableStep
<1>3. CASE /\ pc' = "keyval" /\ tab' = inner
           /\ UNCHANGED <<tok, tokens, stack, tree, curtab, key, tpath, llb, defined>>
  <2>1. Known' /\ pc' \in ParserAt
    BY <1>3 DEF Known, ParserAt
  <2>2. IsTable(tab')
    BY <1>1, <1>3
  <2> QED  BY <1>1, <1>3, <2>1, <2>2, Quiet DEF Scalars
<1>4. CASE Refuse
  BY <1>4, RefuseStep
<1> QED  BY <1>2, <1>3, <1>4 DEF Entry

LEMMA CommaStep == Inv /\ Comma => Inv' /\ Move
<1> SUFFICES ASSUME Inv, Comma PROVE Inv' /\ Move
  OBVIOUS
<1>1. /\ pc = "comma" /\ pc \in ParserAt /\ Scalars /\ stack # <<>> /\ IsTable(tab)
      /\ Frames(tree, stack)
  BY DEF Comma, Inv, Pointers, Known, ParserAt
<1>2. InArray \/ IsTable(inner)
  BY <1>1, FramesBack DEF InArray, inner, IsTable, Absent
<1>3. CASE /\ tok = "COMMA"
           /\ Scan(1, ~InArray)
           /\ pc' = IF InArray THEN "item" ELSE "entry"
           /\ UNCHANGED <<stack, tree, curtab, tab, key, tpath, llb, defined>>
  <2>1. tok' \in Tokens /\ tokens' \in Nat
    BY <1>1, <1>3, Scanned
  <2>2. pc' \in ParserAt
    BY <1>3 DEF ParserAt
  <2>3. Known'
    BY <1>1, <1>2, <1>3 DEF Known, InArray, inner, IsTable, Absent
  <2>4. IsTable(tab')
    BY <1>1, <1>3
  <2> QED  BY <1>1, <1>3, <2>1, <2>2, <2>3, <2>4, Quiet DEF Scalars
<1>4. CASE CloseArray
  BY <1>1, <1>4, CloseArrayStep
<1>5. CASE ~InArray /\ CloseTable
  BY <1>1, <1>2, <1>5, CloseTableStep
<1>6. CASE Refuse
  BY <1>6, RefuseStep
<1> QED  BY <1>3, <1>4, <1>5, <1>6 DEF Comma

\* The last item of an array of tables is a table.
LEMMA LastItem ==
    ASSUME NEW t, Sound(t), NEW arr \in DOMAIN t, t[arr].is = "array", t[arr].kind = "table",
           t[arr].nitem > 0
    PROVE  At(arr, t) \in DOMAIN t /\ t[At(arr, t)].is = "table"
<1>1. t[arr].nitem \in Nat
  BY NodeFields DEF Sound, Typed
<1>2. t[arr].nitem \in 1 .. t[arr].nitem
  BY <1>1
<1> QED  BY <1>2 DEF Sound, ItemsOf, At

LEMMA WalkStep == Inv /\ Walk => Inv' /\ Move
<1> SUFFICES ASSUME Inv, Walk PROVE Inv' /\ Move
  OBVIOUS
<1>1. /\ pc = "walk" /\ pc \in ParserAt /\ Scalars /\ Sound(tree)
      /\ tab \in DOMAIN tree /\ tree[tab].is = "table" /\ IsTable(curtab) /\ IsTable(<<>>)
      /\ tpath \in Seq(Keys) /\ Len(tpath) > 1
  BY DEF Walk, Inv, Pointers, Known, ParserAt, IsTable, Absent
<1>2. Len(tpath) \in Nat /\ tpath # <<>>
  BY <1>1, LenProperties, NoKeys
<1>3. tpath[1] \in Keys
  BY <1>1, <1>2, ElementOfSeq
<1>4. /\ Tail(tpath) \in Seq(Keys) /\ Tail(tpath) # <<>> /\ Len(Tail(tpath)) <= MaxPath
      /\ Tail(tpath) \in Seq(Keys \cup {"STUCK"})
  <2>1. Tail(tpath) \in Seq(Keys) /\ Len(Tail(tpath)) = Len(tpath) - 1
    BY <1>1, <1>2, HeadTailProperties
  <2>2. Tail(tpath) # <<>>
    <3>1. Len(Tail(tpath)) # 0
      BY <1>1, <1>2, <2>1
    <3> QED  BY <3>1, NoKeys, Zenon
  <2>3. Len(Tail(tpath)) <= MaxPath
    BY <1>1, <1>2, <2>1, BoundsAssumption DEF Scalars
  <2>4. Tail(tpath) \in Seq(Keys \cup {"STUCK"})
    BY <1>1, <1>2, HeadTailProperties DEF Scalars
  <2> QED  BY <2>1, <2>2, <2>3, <2>4
<1>5. CASE /\ Absent(next)
           /\ tree' = With(next, Table(TRUE), tree) /\ tab' = next
           /\ tpath' = Tail(tpath)
           /\ UNCHANGED <<tok, tokens, pc, stack, curtab, key, llb, defined>>
  <2>1. Table(TRUE) \in Nodes /\ Table(TRUE).is = "table"
    BY NewNodes
  <2>2. next \notin DOMAIN tree /\ next = Append(tab, tpath[1])
    BY <1>5 DEF Absent, next
  <2> DEFINE node == Table(TRUE)
  <2>3. /\ node \in Nodes /\ node.is = "table" /\ (node.is = "array" => node.nitem = 0)
        /\ tree' = With(Append(tab, tpath[1]), node, tree) /\ Append(tab, tpath[1]) \notin DOMAIN tree
    BY <1>5, <2>1, <2>2
  <2> HIDE DEF node
  <2>4. /\ Sound(tree') /\ Grows(tree, tree')
        /\ next \in DOMAIN tree' /\ tree'[next].is = "table"
    <3>1. Sound(tree') /\ Grows(tree, tree')
      BY <1>1, <1>3, <2>3, NewKey
    <3>2. next \in DOMAIN tree' /\ tree'[next] = node
      BY <1>1, <1>3, <2>2, <2>3, NewKey
    <3> QED  BY <2>3, <3>1, <3>2
  <2>5. Frames(tree', stack') /\ Given(tree', defined')
    BY <1>5, <2>4, FramesGrow, GivenGrow DEF Inv
  <2>6. Pointers'
    BY <1>1, <1>5, <2>4 DEF Pointers, IsTable, Absent, Grows
  <2>7. Known'
    BY <1>1, <1>4, <1>5 DEF Known
  <2>8. Scalars'
    BY <1>1, <1>4, <1>5 DEF Scalars
  <2>9. pc' \in ParserAt
    BY <1>1, <1>5
  <2> QED  BY <1>1, <2>4, <2>5, <2>6, <2>7, <2>8, <2>9 DEF Inv, Move, Growth
<1>6. CASE /\ IsTable(next) \/ HasItems(next)
           /\ tab' = IF IsTable(next) THEN next ELSE At(next, tree)
           /\ tpath' = Tail(tpath)
           /\ UNCHANGED <<tok, tokens, pc, stack, tree, curtab, key, llb, defined>>
  <2>1. IsTable(tab')
    <3>1. CASE IsTable(next)
      BY <1>6, <3>1
    <3>2. CASE ~IsTable(next)
      <4>1. /\ next \in DOMAIN tree /\ tree[next].is = "array" /\ tree[next].kind = "table"
            /\ tree[next].nitem > 0
        BY <1>6, <3>2 DEF HasItems, HasTables, Absent
      <4>2. At(next, tree) \in DOMAIN tree /\ tree[At(next, tree)].is = "table"
        BY <1>1, <4>1, LastItem
      <4>3. tab' = At(next, tree)
        BY <1>6, <3>2
      <4> QED  BY <4>2, <4>3 DEF IsTable, Absent
    <3> QED  BY <3>1, <3>2
  <2>2. Known'
    BY <1>1, <1>4, <1>6 DEF Known
  <2> QED  BY <1>1, <1>4, <1>6, <2>1, <2>2, Quiet DEF Scalars
<1>7. CASE Refuse
  BY <1>7, RefuseStep
<1> QED  BY <1>5, <1>6, <1>7 DEF Walk

IsWithTable(u, t, arr, base) ==
    Sound(base) /\ Grows(t, base) /\ arr \in DOMAIN base /\ base[arr].is = "array"
    /\ u = AddItem(arr, Table(FALSE), base)

LEMMA NewTable ==
    ASSUME NEW t, Sound(t), NEW base, NEW arr, NEW u, IsWithTable(u, t, arr, base)
    PROVE  /\ Sound(u) /\ Grows(t, u)
           /\ At(arr, u) \in DOMAIN u /\ u[At(arr, u)].is = "table" /\ ~u[At(arr, u)].implicit
           /\ At(arr, u) \notin DOMAIN t
<1> DEFINE node == Table(FALSE)
<1>1. Sound(base) /\ Grows(t, base)
  BY DEF IsWithTable
<1>2. node \in Nodes /\ node.is = "table" /\ ~node.implicit /\ IsWithItem(u, base, arr, node)
  BY NewNodes DEF IsWithTable, IsWithItem
<1> HIDE DEF node
<1>3. Sound(u) /\ Grows(base, u)
  BY <1>1, <1>2, NewItem
<1>4. At(arr, u) \in DOMAIN u /\ At(arr, u) \notin DOMAIN base /\ u[At(arr, u)] = node
  BY <1>1, <1>2, NewItem
<1>5. Grows(t, u)
  BY <1>1, <1>3, GrowsTwice DEF Sound
<1>6. At(arr, u) \notin DOMAIN t
  BY <1>1, <1>4 DEF Grows
<1> QED  BY <1>2, <1>3, <1>4, <1>5, <1>6

\* A header's table, whether it is opened or added to an array.
OpensTable ==
    tree' = IF ~llb THEN Define(next)
            ELSE AddItem(next, Table(FALSE),
                         IF Absent(next) THEN With(next, Array("table"), tree) ELSE tree)

LEMMA Opened ==
    ASSUME Inv, pc = "walk", Len(tpath) = 1, CanOpen, OpensTable,
           NEW p, p = IF llb THEN At(next, tree') ELSE next
    PROVE  /\ Sound(tree') /\ Grows(tree, tree')
           /\ p \in DOMAIN tree' /\ tree'[p].is = "table" /\ ~tree'[p].implicit
           /\ p \notin DOMAIN tree \/ tree[p].implicit
<1>1. /\ Sound(tree) /\ tab \in DOMAIN tree /\ tree[tab].is = "table" /\ tpath[1] \in Keys
      /\ next = Append(tab, tpath[1])
  <2>1. tpath \in Seq(Keys) /\ Sound(tree) /\ IsTable(tab)
    BY DEF Inv, Known, Pointers, ParserAt
  <2>2. tpath[1] \in Keys
    BY <2>1, ElementOfSeq
  <2> QED  BY <2>1, <2>2 DEF next, IsTable, Absent
<1>2. CASE ~llb
  <2>1. CanDefine(next) /\ tree' = Define(next) /\ p = next
    BY <1>2 DEF CanOpen, OpensTable
  <2> QED  BY <1>1, <2>1, Defined
<1>3. CASE llb
  <2> DEFINE base == IF Absent(next) THEN With(next, Array("table"), tree) ELSE tree
  <2>1. /\ Sound(base) /\ Grows(tree, base) /\ next \in DOMAIN base /\ base[next].is = "array"
    <3>1. CASE Absent(next)
      <4> DEFINE arr == Array("table")
      <4>1. base = With(Append(tab, tpath[1]), arr, tree) /\ Append(tab, tpath[1]) \notin DOMAIN tree
        BY <1>1, <3>1 DEF Absent
      <4>2. arr \in Nodes /\ arr.is = "array" /\ arr.nitem = 0
        BY NewNodes DEF Kinds
      <4> HIDE DEF base, arr
      <4>3. /\ Sound(base) /\ Grows(tree, base) /\ Append(tab, tpath[1]) \in DOMAIN base
            /\ base[Append(tab, tpath[1])] = arr
        BY <1>1, <4>1, <4>2, NewKey
      <4> QED  BY <1>1, <4>2, <4>3
    <3>2. CASE ~Absent(next)
      <4>1. base = tree /\ next \in DOMAIN tree /\ tree[next].is = "array"
        BY <1>3, <3>2 DEF CanOpen, HasTables, Absent
      <4> QED  BY <1>1, <4>1, GrowsSame
    <3> QED  BY <3>1, <3>2
  <2>2. tree' = AddItem(next, Table(FALSE), base) /\ p = At(next, tree')
    BY <1>3 DEF OpensTable
  <2> HIDE DEF base
  <2>3. IsWithTable(tree', tree, next, base)
    BY <2>1, <2>2 DEF IsWithTable
  <2>4. Sound(tree') /\ Grows(tree, tree')
    BY <1>1, <2>3, NewTable
  <2>5. /\ At(next, tree') \in DOMAIN tree' /\ tree'[At(next, tree')].is = "table"
        /\ ~tree'[At(next, tree')].implicit /\ At(next, tree') \notin DOMAIN tree
    BY <1>1, <2>3, NewTable
  <2> QED  BY <2>2, <2>4, <2>5
<1> QED  BY <1>2, <1>3

LEMMA OpenStep == Inv /\ Open => Inv' /\ Move
<1> SUFFICES ASSUME Inv, Open PROVE Inv' /\ Move
  OBVIOUS
<1>1. /\ pc = "walk" /\ pc \in ParserAt /\ Scalars /\ Len(tpath) = 1
      /\ Given(tree, defined) /\ IsTable(<<>>)
  BY DEF Open, Inv, Pointers, ParserAt
<1>2. CASE Refuse
  BY <1>2, RefuseStep
<1>3. CASE ~Refuse
  <2>1. /\ CanOpen
        /\ tree' = IF ~llb THEN Define(next)
                   ELSE AddItem(next, Table(FALSE),
                                IF Absent(next) THEN With(next, Array("table"), tree) ELSE tree)
        /\ curtab' = IF llb THEN At(next, tree') ELSE next
        /\ defined' = Append(defined, curtab')
        /\ Scan(1, TRUE) \/ Scan(2, TRUE)
        /\ pc' = "selected" /\ tab' = <<>> /\ tpath' = <<>> /\ llb' = FALSE
        /\ UNCHANGED <<stack, key>>
    BY <1>3 DEF Open
  <2>2. PICK p : p = curtab'
    OBVIOUS
  <2>3. p = IF llb THEN At(next, tree') ELSE next
    BY <2>1, <2>2
  <2>4. /\ Sound(tree') /\ Grows(tree, tree')
        /\ p \in DOMAIN tree' /\ tree'[p].is = "table" /\ ~tree'[p].implicit
        /\ p \notin DOMAIN tree \/ tree[p].implicit
    BY <1>1, <2>1, <2>3, Opened DEF OpensTable
  <2>5. Given(tree', defined')
    BY <1>1, <2>1, <2>2, <2>4, GivenMore
  <2>6. Frames(tree', stack')
    BY <2>1, <2>4, FramesGrow DEF Inv
  <2>7. tok' \in Tokens /\ tokens' \in Nat
    BY <1>1, <2>1, Scanned
  <2>8. pc' \in ParserAt /\ Known'
    BY <2>1 DEF Known, ParserAt
  <2>9. Scalars'
    <3>1. tpath' \in Seq(Keys \cup {"STUCK"}) /\ Len(tpath') <= MaxPath
      BY <2>1, NoKeys, BoundsAssumption
    <3> QED  BY <1>1, <2>1, <2>7, <2>8, <3>1 DEF Scalars
  <2>10. Pointers'
    BY <1>1, <2>1, <2>2, <2>4 DEF Pointers, IsTable, Absent, Grows
  <2> QED  BY <1>1, <2>4, <2>5, <2>6, <2>8, <2>9, <2>10 DEF Inv, Move, Growth
<1> QED  BY <1>2, <1>3

-----------------------------------------------------------------------------
(* What holds of every file *)

LEMMA NextMove == Inv /\ Next => Inv' /\ Move /\ pc \in ParserAt
<1>1. Inv /\ Next => Inv' /\ Move
  BY TopStep, EndOfLineStep, KeyvalStep, KeyedStep, KeyedValueStep, SkipNewlineStep, ItemStep,
     EntryStep, CommaStep, HeaderStep, PathKeyStep, PathNextStep, WalkStep, OpenStep, SelectedStep
     DEF Next
<1>2. Next => pc \in ParserAt
  BY DEF Next, Top, EndOfLine, Keyval, Keyed, KeyedValue, SkipNewline, Item, Entry, Comma,
         Header, PathKey, PathNext, Walk, Open, Selected, ParserAt
<1> QED  BY <1>1, <1>2

LEMMA InvStep == Inv /\ [Next]_vars => Inv'
<1>1. Inv /\ UNCHANGED vars => Inv'
  BY DEF vars, Inv, Scalars, Pointers, Known, IsTable, Absent, InArray, inner
<1> QED  BY <1>1, NextMove

\* The whole invariant: the tree is connected, the parsers' arguments are in
\* it and of the sort that their code takes for granted.
THEOREM Invariant == Spec => []Inv
  BY InvInit, InvStep, PTL DEF Spec

\* Every variable of the reader has its type, for any keys, any length of
\* paths and any file.
THEOREM TypeCorrect == Spec => []TypeOK
<1>1. Inv => TypeOK
  <2> SUFFICES ASSUME Inv PROVE TypeOK
    OBVIOUS
  <2>1. /\ tok \in Tokens /\ tokens \in Nat /\ llb \in BOOLEAN
        /\ pc \in ParserAt \cup {"accepted", "refused"}
        /\ key \in Strings /\ tpath \in Seq(Keys \cup {"STUCK"}) /\ Len(tpath) <= MaxPath
    BY DEF Inv, Scalars
  <2>2. \A path \in DOMAIN tree : path \in Seq(Keys \cup Nat) /\ tree[path] \in Nodes
    BY DEF Inv, Sound, Typed, Paths, Steps
  <2>3. stack \in Seq(DOMAIN tree) /\ defined \in Seq(DOMAIN tree)
    BY DEF Inv, Frames, Given
  <2>4. pc \in ParserAt => IsTable(curtab) /\ IsTable(tab)
    BY DEF Inv, Pointers
  <2> QED  BY <2>1, <2>2, <2>3, <2>4 DEF TypeOK
<1> QED  BY Invariant, <1>1, PTL

\* An array's kind, as parse_array and parse_select keep it, says what all of
\* its items are; so walk_tabpath finds a table at the end of an array of
\* tables.
THEOREM KindsAreRight == Spec => []KindsTellItems
<1>1. Inv => KindsTellItems
  <2> SUFFICES ASSUME Inv, NEW arr \in DOMAIN tree, tree[arr].is = "array",
                      NEW item \in {Append(arr, i) : i \in 1 .. tree[arr].nitem}
               PROVE  /\ item \in DOMAIN tree
                      /\ tree[arr].kind # "mixed" => tree[item].is = tree[arr].kind
    BY DEF KindsTellItems
  <2>1. PICK i \in 1 .. tree[arr].nitem : item = Append(arr, i)
    OBVIOUS
  <2> QED  BY <2>1 DEF Inv, Sound, ItemsOf
<1> QED  BY Invariant, <1>1, PTL

\* No table is given twice: after every step of parse_select and
\* parse_inline_table the tables that headers and braces gave are distinct.
THEOREM GivenOnce == Spec => []DefinedOnce
<1>1. Inv => DefinedOnce
  BY DEF Inv, Given, DefinedOnce
<1> QED  BY Invariant, <1>1, PTL

\* Lines of the form key = value add nothing to a table written in braces:
\* parse_keyval looks at readonly before it goes on.
THEOREM BracesKept == Spec => ReadonlyKeeps
<1> DEFINE Kept == \A path \in DOMAIN tree' \ DOMAIN tree :
                     path # <<>> /\ IsTable(Document!Parent(path)) /\ tree[Document!Parent(path)].readonly
                       => pc = "walk"
<1>1. Inv /\ [Next]_vars => [Kept]_vars
  <2> SUFFICES ASSUME Inv, Next PROVE Kept
    OBVIOUS
  <2>1. Move
    BY NextMove
  <2>2. CASE Refuse
    BY <2>2 DEF Refuse
  <2>3. CASE Accept
    BY <2>3 DEF Accept
  <2>4. CASE Growth
    BY <2>4 DEF Growth, Fresh, IsTable, Absent
  <2> QED  BY <2>1, <2>2, <2>3, <2>4 DEF Move
<1> QED  BY Invariant, <1>1, PTL DEF Spec, ReadonlyKeeps

-----------------------------------------------------------------------------
(* The reader keeps what TomlDocument promises *)

doc     == [path \in DOMAIN tree |-> tree[path].is]
verdict == IF pc \in ParserAt THEN "reading" ELSE pc

LEMMA DocumentStarts == Init => Document!DocumentInit
<1> SUFFICES ASSUME Init PROVE Document!DocumentInit
  OBVIOUS
<1>1. DOMAIN tree = {<<>>} /\ tree[<<>>].is = "table" /\ pc = "top"
  BY NewNodes DEF Init
<1>2. doc = [path \in {<<>>} |-> "table"]
  BY <1>1 DEF doc
<1>3. verdict = "reading"
  BY <1>1 DEF verdict, ParserAt
<1> QED  BY <1>2, <1>3 DEF doc, verdict, Document!DocumentInit

LEMMA DocumentMoves == Inv /\ [Next]_vars => [Document!DocumentNext]_(Document!docVars)
<1> SUFFICES ASSUME Inv, [Next]_vars
             PROVE  Document!DocumentNext \/ UNCHANGED Document!docVars
  OBVIOUS
<1>1. CASE UNCHANGED vars
  BY <1>1 DEF vars, Document!docVars
<1>2. CASE Next
  <2>1. Move /\ Inv' /\ pc \in ParserAt /\ verdict = "reading"
    BY <1>2, NextMove DEF verdict
  <2>2. CASE Refuse
    <3>1. DOMAIN doc' = {} /\ verdict' = "refused"
      BY <2>2 DEF Refuse, doc, verdict, ParserAt
    <3> QED  BY <2>1, <3>1 DEF Document!DocumentNext, Document!Refuse, doc, verdict
  <2>3. CASE Accept
    <3>1. doc' = doc /\ verdict' = "accepted"
      BY <2>3 DEF Accept, doc, verdict, ParserAt
    <3> QED  BY <2>1, <3>1 DEF Document!DocumentNext, Document!Accept, doc, verdict
  <2>4. CASE Growth
    <3>1. verdict' = "reading"
      BY <2>4 DEF Growth, verdict
    <3>2. \A path \in DOMAIN doc : path \in DOMAIN doc' /\ doc'[path] = doc[path]
      BY <2>4 DEF Growth, Grows, doc
    <3>3. \A path \in DOMAIN doc' \ DOMAIN doc :
            /\ Document!Parent(path) \in DOMAIN doc'
            /\ doc'[Document!Parent(path)] \in {"array", "table"}
      <4> SUFFICES ASSUME NEW path \in DOMAIN doc' \ DOMAIN doc
                   PROVE  /\ Document!Parent(path) \in DOMAIN doc'
                          /\ doc'[Document!Parent(path)] \in {"array", "table"}
        OBVIOUS
      <4>1. path \in DOMAIN tree' /\ path \notin DOMAIN tree
        BY DEF doc
      <4>2. <<>> \in DOMAIN tree
        BY <2>1 DEF Inv, Pointers, IsTable, Absent
      <4>3. path # <<>>
        BY <4>1, <4>2
      <4>4. /\ Document!Parent(path) \in DOMAIN tree'
            /\ tree'[Document!Parent(path)].is \in {"array", "table"}
        BY <2>4, <4>1, <4>3 DEF Growth, Sound, Attached
      <4> QED  BY <4>4 DEF doc
    <3> QED  BY <2>1, <3>1, <3>2, <3>3
             DEF Document!DocumentNext, Document!Store, Document!Stored, doc, verdict
  <2> QED  BY <2>1, <2>2, <2>3, <2>4 DEF Move
<1> QED  BY <1>1, <1>2

\* The reader implements TomlDocument: what is stored keeps its place and
\* its nature, and a file is accepted as a whole or leaves nothing behind.
THEOREM ReaderImplementsDocument == Spec => ImplementsDocument
  BY Invariant, DocumentStarts, DocumentMoves, PTL
     DEF Spec, ImplementsDocument, Document!DocumentSpec

-----------------------------------------------------------------------------
(* UTF-8 *)


\* The values of the tables.
LEMMA Tables ==
    /\ Prefix[1] = 0 /\ Prefix[2] = 192 /\ Prefix[3] = 224
    /\ Prefix[4] = 240 /\ Prefix[5] = 248 /\ Prefix[6] = 252
    /\ Limit[1] = 127 /\ Limit[2] = 2047 /\ Limit[3] = 65535
    /\ Limit[4] = 2097151 /\ Limit[5] = 67108863 /\ Limit[6] = 2147483647
    /\ Power[1] = 1 /\ Power[2] = 64 /\ Power[3] = 4096
    /\ Power[4] = 262144 /\ Power[5] = 16777216 /\ Power[6] = 1073741824
  BY SMT DEF Prefix, Limit, Power

\* What is left of a code without its last k digits to the base 64, and its
\* digit before those.
Rest(code, k)  == code \div Power[k + 1]
Digit(code, k) == Rest(code, k) % 64

LEMMA Rests ==
    ASSUME NEW code \in Nat
    PROVE  /\ Rest(code, 0) = code /\ Rest(code, 1) = code \div 64
           /\ Rest(code, 2) = code \div 4096 /\ Rest(code, 3) = code \div 262144
           /\ Rest(code, 4) = code \div 16777216 /\ Rest(code, 5) = code \div 1073741824
<1>1. code \div 1 = code
  BY SMT
<1> QED
  BY <1>1, Tables, SMT DEF Rest

LEMMA DigitsAreSmall ==
    ASSUME NEW code \in Nat, NEW k \in 0 .. 5
    PROVE  Rest(code, k) \in Nat /\ Digit(code, k) \in Nat /\ Digit(code, k) < 64
<1>1. /\ code \div 64 \in Nat /\ code \div 4096 \in Nat /\ code \div 262144 \in Nat
      /\ code \div 16777216 \in Nat /\ code \div 1073741824 \in Nat
  BY SMT
<1>2. Rest(code, k) \in Nat
  BY <1>1, Rests, SMT
<1> QED
  BY <1>2, SMT DEF Digit

LEMMA Digits ==
    ASSUME NEW code \in Nat
    PROVE  /\ code = 64 * Rest(code, 1) + Digit(code, 0)
           /\ Rest(code, 1) = 64 * Rest(code, 2) + Digit(code, 1)
           /\ Rest(code, 2) = 64 * Rest(code, 3) + Digit(code, 2)
           /\ Rest(code, 3) = 64 * Rest(code, 4) + Digit(code, 3)
           /\ Rest(code, 4) = 64 * Rest(code, 5) + Digit(code, 4)
<1>1. Rest(code, 0) = code
  BY Rests, SMT
<1>2. Rest(code, 1) = code \div 64
  BY Rests, SMT
<1>3. Rest(code, 2) = code \div 4096
  BY Rests, SMT
<1>4. Rest(code, 3) = code \div 262144
  BY Rests, SMT
<1>5. Rest(code, 4) = code \div 16777216
  BY Rests, SMT
<1>6. Rest(code, 5) = code \div 1073741824
  BY Rests, SMT
<1>7. code = 64 * Rest(code, 1) + Digit(code, 0)
  <2>1. code = 64 * (code \div 64) + (code % 64)
    BY SMT
  <2> QED
    BY <1>1, <1>2, <2>1, SMT DEF Digit
<1>8. Rest(code, 1) = 64 * Rest(code, 2) + Digit(code, 1)
  <2>1. code \div 64 = 64 * (code \div 4096) + ((code \div 64) % 64)
    BY SMT
  <2> QED
    BY <1>2, <1>3, <2>1, SMT DEF Digit
<1>9. Rest(code, 2) = 64 * Rest(code, 3) + Digit(code, 2)
  <2>1. code \div 4096 = 64 * (code \div 262144) + ((code \div 4096) % 64)
    BY SMT
  <2> QED
    BY <1>3, <1>4, <2>1, SMT DEF Digit
<1>10. Rest(code, 3) = 64 * Rest(code, 4) + Digit(code, 3)
  <2>1. code \div 262144 = 64 * (code \div 16777216) + ((code \div 262144) % 64)
    BY SMT
  <2> QED
    BY <1>4, <1>5, <2>1, SMT DEF Digit
<1>11. Rest(code, 4) = 64 * Rest(code, 5) + Digit(code, 4)
  <2>1. code \div 16777216 = 64 * (code \div 1073741824) + ((code \div 16777216) % 64)
    BY SMT
  <2> QED
    BY <1>5, <1>6, <2>1, SMT DEF Digit
<1> QED
  BY <1>7, <1>8, <1>9, <1>10, <1>11, SMT

LEMMA CodesAre ==
    ASSUME NEW code \in Codes
    PROVE  code \in Nat /\ code <= 2147483647
<1>1. Limit[6] = 2147483647
  BY SMT DEF Limit
<1>2. Limit[6] \in Nat
  BY <1>1, SMT
<1>3. code \in Nat /\ code <= Limit[6]
  BY <1>2, SMT DEF Codes
<1> QED
  BY <1>1, <1>3, SMT

LEMMA WidthOf ==
    ASSUME NEW code \in Nat
    PROVE  /\ code <= 127 => Width(code) = 1
           /\ 127 < code /\ code <= 2047 => Width(code) = 2
           /\ 2047 < code /\ code <= 65535 => Width(code) = 3
           /\ 65535 < code /\ code <= 2097151 => Width(code) = 4
           /\ 2097151 < code /\ code <= 67108863 => Width(code) = 5
           /\ 67108863 < code => Width(code) = 6
           /\ Width(code) \in 1 .. 6
  BY Tables, SMT DEF Width

LEMMA Bytes ==
    ASSUME NEW code \in Codes \ Forbidden, NEW n, n = Width(code), n \in 1 .. 6
    PROVE  /\ Len(Encode(code)) = n
           /\ Encode(code)[1] = Prefix[n] + Rest(code, n - 1)
           /\ \A i \in 2 .. n : Encode(code)[i] = 128 + Digit(code, n - i)
<1> DEFINE byte(i) == IF i = 1 THEN Prefix[n] + code \div Power[n]
                      ELSE 128 + ((code \div Power[n - i + 1]) % 64)
<1>1. Encode(code) = [i \in 1 .. n |-> byte(i)]
  BY SMT DEF Encode
<1> HIDE DEF byte
<1>2. Len(Encode(code)) = n /\ \A i \in 1 .. n : Encode(code)[i] = byte(i)
  BY <1>1, SMT
<1>3. n - 1 + 1 = n /\ \A i \in 2 .. n : n - i + 1 = (n - i) + 1 /\ i # 1
  BY SMT
<1> QED
  BY <1>2, <1>3, SMT DEF byte, Rest, Digit

\* What marks a byte that continues a character, and what is left without it.
LEMMA Continues ==
    ASSUME NEW x \in Nat, x < 64
    PROVE  (128 + x) \div 64 = 2 /\ (128 + x) % 64 = x
  BY SMT

\* What the leading digits of a code of n bytes amount to.
LEMMA Leading ==
    ASSUME NEW code \in Codes, NEW n, n = Width(code)
    PROVE  /\ n \in 1 .. 6
           /\ Announced(Prefix[n] + Rest(code, n - 1)) = n
<1>1. code \in Nat /\ code <= 2147483647
  BY CodesAre, SMT
<1>2. n \in 1 .. 6
  BY <1>1, WidthOf, SMT
<1>3. CASE code <= 127
  BY <1>1, Rests, <1>3, WidthOf, Tables, SMT DEF Announced
<1>4. CASE 127 < code /\ code <= 2047
  BY <1>1, Rests, <1>4, WidthOf, Tables, SMT DEF Announced
<1>5. CASE 2047 < code /\ code <= 65535
  BY <1>1, Rests, <1>5, WidthOf, Tables, SMT DEF Announced
<1>6. CASE 65535 < code /\ code <= 2097151
  BY <1>1, Rests, <1>6, WidthOf, Tables, SMT DEF Announced
<1>7. CASE 2097151 < code /\ code <= 67108863
  BY <1>1, Rests, <1>7, WidthOf, Tables, SMT DEF Announced
<1>8. CASE 67108863 < code
  BY <1>1, Rests, <1>8, WidthOf, Tables, SMT DEF Announced
<1> QED
  BY <1>1, <1>2, <1>3, <1>4, <1>5, <1>6, <1>7, <1>8, SMT

\* toml_utf8_to_ucs gives back the code that toml_ucs_to_utf8 wrote, whatever
\* its width, unless it is one of those that must not be written.
THEOREM RoundTrip ==
    ASSUME NEW code \in Codes \ Forbidden
    PROVE  Decode(Encode(code)) = code
<1> DEFINE n == Width(code)
           d == [i \in 2 .. n |-> Digit(code, n - i)]
<1>1. code \in Nat
  BY CodesAre, SMT
<1>2. n \in 1 .. 6 /\ Announced(Prefix[n] + Rest(code, n - 1)) = n
  BY Leading, SMT
<1> HIDE DEF n
<1>3. /\ Len(Encode(code)) = n /\ Encode(code)[1] = Prefix[n] + Rest(code, n - 1)
      /\ \A i \in 2 .. n : Encode(code)[i] = 128 + Digit(code, n - i)
  BY <1>2, Bytes, SMT DEF n
<1>4. ASSUME NEW i \in 2 .. n
      PROVE  d[i] = Digit(code, n - i) /\ d[i] \in Nat /\ d[i] < 64
  <2>1. n - i \in 0 .. 5
    BY <1>2, SMT
  <2>2. Digit(code, n - i) \in Nat /\ Digit(code, n - i) < 64
    BY <1>1, <2>1, DigitsAreSmall, Zenon
  <2> QED
    BY <2>2, SMT
<1> HIDE DEF d
<1> DEFINE s == Encode(code)
<1> HIDE DEF s
<1>5. /\ s[1] = Prefix[n] + Rest(code, n - 1)
      /\ Decode(s) = (s[1] - Prefix[n]) * Power[n] + Term(s, n, 2) + Term(s, n, 3)
                       + Term(s, n, 4) + Term(s, n, 5) + Term(s, n, 6)
      /\ \A i \in 2 .. n : Term(s, n, i) = d[i] * Power[n - i + 1]
      /\ \A i \in 2 .. 6 : i > n => Term(s, n, i) = 0
  <2>1. Len(s) = n /\ Announced(s[1]) = n /\ s[1] = Prefix[n] + Rest(code, n - 1)
    BY <1>2, <1>3, SMT DEF s
  <2>2. \A i \in 2 .. n : d[i] \in Nat /\ d[i] < 64 /\ s[i] = 128 + d[i]
    BY <1>3, <1>4, SMT DEF s
  <2>3. /\ Decode(s) = (s[1] - Prefix[n]) * Power[n] + Term(s, n, 2) + Term(s, n, 3)
                         + Term(s, n, 4) + Term(s, n, 5) + Term(s, n, 6)
        /\ \A i \in 2 .. n : Term(s, n, i) = d[i] * Power[n - i + 1]
        /\ \A i \in 2 .. 6 : i > n => Term(s, n, i) = 0
    <3>1. ASSUME NEW i \in 2 .. n
          PROVE  s[i] \div 64 = 2 /\ s[i] % 64 = d[i]
      BY <2>2, Continues, SMT
    <3> QED
      BY <1>2, <2>1, <3>1, SMT DEF Decode, Term
  <2> QED
    BY <2>1, <2>3, Zenon
<1>6. ASSUME NEW k \in 0 .. 5
      PROVE  Rest(code, k) \in Nat /\ Digit(code, k) \in Nat
  <2>1. Rest(code, k) \in Nat /\ Digit(code, k) \in Nat
    BY <1>1, DigitsAreSmall, Zenon
  <2> QED
    BY <2>1, SMT
<1>7. Decode(s) = code
  <2>1. CASE n = 1
    <3>1. s[1] - Prefix[n] = Rest(code, 0) /\ Rest(code, 0) \in Nat
      BY <1>1, <1>5, <2>1, DigitsAreSmall, Tables, SMT
    <3>2. /\ Term(s, n, 2) = 0
          /\ Term(s, n, 3) = 0
          /\ Term(s, n, 4) = 0
          /\ Term(s, n, 5) = 0
          /\ Term(s, n, 6) = 0
      BY <1>4, <1>5, <2>1, Tables, SMT
    <3>3. Power[n] = 1
      BY <2>1, Tables, SMT
    <3>4. Decode(s) = code
      BY <1>1, <1>5, <1>6, <3>1, <3>2, <3>3, Rests, SMT
    <3> QED
      BY <1>1, <1>6, <3>4, Digits, SMT
  <2>2. CASE n = 2
    <3>1. s[1] - Prefix[n] = Rest(code, 1) /\ Rest(code, 1) \in Nat
      BY <1>1, <1>5, <2>2, DigitsAreSmall, Tables, SMT
    <3>2. /\ Term(s, n, 2) = Digit(code, 0) * 1
          /\ Term(s, n, 3) = 0
          /\ Term(s, n, 4) = 0
          /\ Term(s, n, 5) = 0
          /\ Term(s, n, 6) = 0
      BY <1>4, <1>5, <2>2, Tables, SMT
    <3>3. Power[n] = 64
      BY <2>2, Tables, SMT
    <3>4. Decode(s) = Rest(code, 1) * 64 + Digit(code, 0) * 1
      BY <1>1, <1>5, <1>6, <3>1, <3>2, <3>3, Rests, SMT
    <3> QED
      BY <1>1, <1>6, <3>4, Digits, SMT
  <2>3. CASE n = 3
    <3>1. s[1] - Prefix[n] = Rest(code, 2) /\ Rest(code, 2) \in Nat
      BY <1>1, <1>5, <2>3, DigitsAreSmall, Tables, SMT
    <3>2. /\ Term(s, n, 2) = Digit(code, 1) * 64
          /\ Term(s, n, 3) = Digit(code, 0) * 1
          /\ Term(s, n, 4) = 0
          /\ Term(s, n, 5) = 0
          /\ Term(s, n, 6) = 0
      BY <1>4, <1>5, <2>3, Tables, SMT
    <3>3. Power[n] = 4096
      BY <2>3, Tables, SMT
    <3>4. Decode(s) = Rest(code, 2) * 4096 + Digit(code, 1) * 64 + Digit(code, 0) * 1
      BY <1>1, <1>5, <1>6, <3>1, <3>2, <3>3, Rests, SMT
    <3> QED
      BY <1>1, <1>6, <3>4, Digits, SMT
  <2>4. CASE n = 4
    <3>1. s[1] - Prefix[n] = Rest(code, 3) /\ Rest(code, 3) \in Nat
      BY <1>1, <1>5, <2>4, DigitsAreSmall, Tables, SMT
    <3>2. /\ Term(s, n, 2) = Digit(code, 2) * 4096
          /\ Term(s, n, 3) = Digit(code, 1) * 64
          /\ Term(s, n, 4) = Digit(code, 0) * 1
          /\ Term(s, n, 5) = 0
          /\ Term(s, n, 6) = 0
      BY <1>4, <1>5, <2>4, Tables, SMT
    <3>3. Power[n] = 262144
      BY <2>4, Tables, SMT
    <3>4. Decode(s) = Rest(code, 3) * 262144 + Digit(code, 2) * 4096 + Digit(code, 1) * 64 + Digit(code, 0) * 1
      BY <1>1, <1>5, <1>6, <3>1, <3>2, <3>3, Rests, SMT
    <3> QED
      BY <1>1, <1>6, <3>4, Digits, SMT
  <2>5. CASE n = 5
    <3>1. s[1] - Prefix[n] = Rest(code, 4) /\ Rest(code, 4) \in Nat
      BY <1>1, <1>5, <2>5, DigitsAreSmall, Tables, SMT
    <3>2. /\ Term(s, n, 2) = Digit(code, 3) * 262144
          /\ Term(s, n, 3) = Digit(code, 2) * 4096
          /\ Term(s, n, 4) = Digit(code, 1) * 64
          /\ Term(s, n, 5) = Digit(code, 0) * 1
          /\ Term(s, n, 6) = 0
      BY <1>4, <1>5, <2>5, Tables, SMT
    <3>3. Power[n] = 16777216
      BY <2>5, Tables, SMT
    <3>4. Decode(s) = Rest(code, 4) * 16777216 + Digit(code, 3) * 262144 + Digit(code, 2) * 4096 + Digit(code, 1) * 64 + Digit(code, 0) * 1
      BY <1>1, <1>5, <1>6, <3>1, <3>2, <3>3, Rests, SMT
    <3> QED
      BY <1>1, <1>6, <3>4, Digits, SMT
  <2>6. CASE n = 6
    <3>1. s[1] - Prefix[n] = Rest(code, 5) /\ Rest(code, 5) \in Nat
      BY <1>1, <1>5, <2>6, DigitsAreSmall, Tables, SMT
    <3>2. /\ Term(s, n, 2) = Digit(code, 4) * 16777216
          /\ Term(s, n, 3) = Digit(code, 3) * 262144
          /\ Term(s, n, 4) = Digit(code, 2) * 4096
          /\ Term(s, n, 5) = Digit(code, 1) * 64
          /\ Term(s, n, 6) = Digit(code, 0) * 1
      BY <1>4, <1>5, <2>6, Tables, SMT
    <3>3. Power[n] = 1073741824
      BY <2>6, Tables, SMT
    <3>4. Decode(s) = Rest(code, 5) * 1073741824 + Digit(code, 4) * 16777216 + Digit(code, 3) * 262144 + Digit(code, 2) * 4096 + Digit(code, 1) * 64 + Digit(code, 0) * 1
      BY <1>1, <1>5, <1>6, <3>1, <3>2, <3>3, Rests, SMT
    <3> QED
      BY <1>1, <1>6, <3>4, Digits, SMT
  <2> QED
    BY <1>2, <2>1, <2>2, <2>3, <2>4, <2>5, <2>6, SMT
<1> QED
  BY <1>7, SMT DEF s
=============================================================================
