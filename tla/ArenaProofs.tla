---------------------------- MODULE ArenaProofs ----------------------------
(***************************************************************************)
(* Proofs about the arena, for every set of names, every bound and every   *)
(* hash: the mixing function is an arbitrary operator, so nothing here     *)
(* depends on how often hashes collide.                                    *)
(***************************************************************************)
EXTENDS Arena, LeastProofs, SequenceTheorems

Text == Names \cup Heads \cup Numerals

(* A node whose children are references of the arena and whose attributes  *)
(* are sorted by key, each key once.                                       *)
GoodNode(n) ==
  /\ n.tag \in Tags
  /\ n.text \in Seq(Text)
  /\ n.args \in Seq(Refs)
  /\ n.attrs \in Seq(Keys \X Refs)
  /\ \A i, j \in 1 .. Len(n.attrs) : i < j => n.attrs[i][1] < n.attrs[j][1]

(* What every node says agrees with its hash and with the tree it stands   *)
(* for; only then is a miss in the bucket a proof that the tree is new.    *)
NodesInv ==
  \A r \in Refs : /\ GoodNode(nodes[r])
                  /\ nodes[r].hash = HashOf(nodes[r])
                  /\ tree[r] = TreeOf(nodes[r])

IInv == TypeOK /\ NodesInv /\ IndexExact /\ HashConsed /\ AnswersTheRequest

SameNode(a, b) ==
  /\ a.tag = b.tag /\ a.text = b.text
  /\ a.args = b.args /\ a.attrs = b.attrs

-----------------------------------------------------------------------------

(* While references and trees correspond one to one, two nodes that stand  *)
(* for the same tree are the same word for word.                           *)
LEMMA OneNodePerTree ==
  ASSUME HashConsed, ArenaAssumption, NEW a, NEW b, GoodNode(a), GoodNode(b),
         TreeOf(a) = TreeOf(b)
  PROVE  SameNode(a, b)
<1>1. a.tag = b.tag /\ a.text = b.text
  BY DEF TreeOf
<1>2. a.args = b.args
  <2> DEFINE f(n) == [i \in DOMAIN n.args |-> tree[n.args[i]]]
  <2>1. f(a) = f(b)  BY DEF TreeOf
  <2>2. DOMAIN a.args = DOMAIN b.args  BY <2>1
  <2>3. a.args \in Seq(Refs) /\ b.args \in Seq(Refs)  BY DEF GoodNode
  <2>4. ASSUME NEW i \in DOMAIN a.args PROVE a.args[i] = b.args[i]
    <3>1. f(a)[i] = tree[a.args[i]]  OBVIOUS
    <3>2. f(b)[i] = tree[b.args[i]]  BY <2>2
    <3>3. a.args[i] \in Refs /\ b.args[i] \in Refs  BY <2>2, <2>3
    <3> QED BY <3>1, <3>2, <3>3, <2>1 DEF HashConsed
  <2> QED BY <2>2, <2>3, <2>4
<1>3. a.attrs = b.attrs
  <2> DEFINE u == [i \in DOMAIN a.attrs |->
                     <<a.attrs[i][1], tree[a.attrs[i][2]]>>]
             v == [i \in DOMAIN b.attrs |->
                     <<b.attrs[i][1], tree[b.attrs[i][2]]>>]
             m == Len(a.attrs)
             n == Len(b.attrs)
  <2>1. /\ a.attrs \in Seq(Keys \X Refs) /\ b.attrs \in Seq(Keys \X Refs)
        /\ m \in Nat /\ n \in Nat
        /\ DOMAIN a.attrs = 1 .. m /\ DOMAIN b.attrs = 1 .. n
    BY DEF GoodNode
  <2>2. \A i \in 1 .. m : u[i] = <<a.attrs[i][1], tree[a.attrs[i][2]]>>
    BY <2>1
  <2>3. \A i \in 1 .. n : v[i] = <<b.attrs[i][1], tree[b.attrs[i][2]]>>
    BY <2>1
  <2>4. KeySorted(u, m)
    <3>1. \A i \in 1 .. m : u[i][1] = a.attrs[i][1]
      BY <2>2
    <3>2. \A i \in 1 .. m : a.attrs[i][1] \in Nat
      <4> TAKE i \in 1 .. m
      <4>1. a.attrs[i] \in Keys \X Refs  BY <2>1, ElementOfSeq
      <4> QED BY <4>1, ArenaAssumption DEF ArenaAssumption
    <3>3. \A i, j \in 1 .. m : i < j => a.attrs[i][1] < a.attrs[j][1]
      BY DEF GoodNode
    <3> HIDE DEF u, m
    <3> QED BY <3>1, <3>2, <3>3 DEF KeySorted
  <2>5. KeySorted(v, n)
    <3>1. \A i \in 1 .. n : v[i][1] = b.attrs[i][1]
      BY <2>3
    <3>2. \A i \in 1 .. n : b.attrs[i][1] \in Nat
      <4> TAKE i \in 1 .. n
      <4>1. b.attrs[i] \in Keys \X Refs  BY <2>1, ElementOfSeq
      <4> QED BY <4>1, ArenaAssumption DEF ArenaAssumption
    <3>3. \A i, j \in 1 .. n : i < j => b.attrs[i][1] < b.attrs[j][1]
      BY DEF GoodNode
    <3> HIDE DEF v, n
    <3> QED BY <3>1, <3>2, <3>3 DEF KeySorted
  <2>6. {u[i] : i \in 1 .. m} = {v[j] : j \in 1 .. n}
    <3>1. {u[i] : i \in 1 .. m}
            = {<<a.attrs[i][1], tree[a.attrs[i][2]]>> : i \in 1 .. m}
      BY <2>2
    <3>2. {v[i] : i \in 1 .. n}
            = {<<b.attrs[i][1], tree[b.attrs[i][2]]>> : i \in 1 .. n}
      BY <2>3
    <3>3. TreeOf(a).attrs = TreeOf(b).attrs  OBVIOUS
    <3> QED BY <3>1, <3>2, <3>3, <2>1 DEF TreeOf
  <2>7. m = n /\ Agree(u, v, m)
    <3> HIDE DEF u, v, m, n
    <3> QED BY <2>1, <2>4, <2>5, <2>6, SortedUnique
  <2>8. ASSUME NEW i \in 1 .. m PROVE a.attrs[i] = b.attrs[i]
    <3>1. u[i] = v[i]  BY <2>7 DEF Agree
    <3>2. a.attrs[i] \in Keys \X Refs /\ b.attrs[i] \in Keys \X Refs
      BY <2>1, <2>7
    <3>3. a.attrs[i][1] = b.attrs[i][1]
      BY <3>1, <2>2, <2>3, <2>7
    <3>4. tree[a.attrs[i][2]] = tree[b.attrs[i][2]]
      BY <3>1, <2>2, <2>3, <2>7
    <3>5. a.attrs[i][2] = b.attrs[i][2]
      BY <3>2, <3>4 DEF HashConsed
    <3>6. /\ a.attrs[i] = <<a.attrs[i][1], a.attrs[i][2]>>
          /\ b.attrs[i] = <<b.attrs[i][1], b.attrs[i][2]>>
      BY <3>2
    <3> QED BY <3>3, <3>5, <3>6
  <2> QED BY <2>1, <2>7, <2>8, SeqEqual
<1> QED BY <1>1, <1>2, <1>3 DEF SameNode

(* The hash, the tree and the bucket search look at the words alone.       *)
LEMMA SameNodeSameHash ==
  ASSUME NEW a, NEW b, SameNode(a, b)
  PROVE  HashOf(a) = HashOf(b)
BY DEF SameNode, HashOf

(* A miss in the bucket means the arena has no node for the tree.          *)
LEMMA MissIsNew ==
  ASSUME IInv, ArenaAssumption, NEW n, GoodNode(n), Candidates(n) = {},
         NEW r \in Refs
  PROVE  tree[r] # TreeOf(n)
<1> SUFFICES ASSUME tree[r] = TreeOf(n) PROVE FALSE
  OBVIOUS
<1>1. GoodNode(nodes[r]) /\ TreeOf(nodes[r]) = TreeOf(n)
  BY DEF IInv, NodesInv
<1>2. SameNode(nodes[r], n)
  BY <1>1, OneNodePerTree DEF IInv
<1>3. nodes[r].hash = HashOf(n)
  BY <1>2, SameNodeSameHash DEF IInv, NodesInv
<1>4. PICK i \in 1 .. Len(Bucket(HashOf(n))) : Bucket(HashOf(n))[i] = r
  BY <1>3 DEF IInv, IndexExact
<1>5. SameTree(nodes[r], n)
  BY <1>2 DEF SameNode, SameTree
<1>6. i \in Candidates(n)
  BY <1>3, <1>4, <1>5 DEF Candidates
<1> QED BY <1>6

(* A hit stands for the requested tree.                                    *)
LEMMA HitIsRight ==
  ASSUME IInv, NEW n, GoodNode(n), NEW i \in Candidates(n)
  PROVE  /\ Bucket(HashOf(n))[i] \in Refs
         /\ tree[Bucket(HashOf(n))[i]] = TreeOf(n)
<1> DEFINE b == Bucket(HashOf(n))
           c == nodes[b[i]]
<1>1. i \in 1 .. Len(b) /\ SameTree(c, n)
  BY DEF Candidates
<1>2. b \in Seq(Refs)
  BY DEF IInv, TypeOK, Bucket
<1>3. b[i] \in Refs
  BY <1>1, <1>2
<1>4. GoodNode(c) /\ tree[b[i]] = TreeOf(c)
  BY <1>3 DEF IInv, NodesInv
<1> HIDE DEF b, c
<1>5. [k \in DOMAIN c.args |-> tree[c.args[k]]]
        = [k \in DOMAIN n.args |-> tree[n.args[k]]]
  BY <1>1, <1>4 DEF SameTree, GoodNode
<1>6. {<<c.attrs[k][1], tree[c.attrs[k][2]]>> : k \in DOMAIN c.attrs}
        = {<<n.attrs[k][1], tree[n.attrs[k][2]]>> : k \in DOMAIN n.attrs}
  <2>1. DOMAIN c.attrs = 1 .. Len(n.attrs) /\ DOMAIN n.attrs = 1 .. Len(n.attrs)
    BY <1>1, <1>4 DEF SameTree, GoodNode
  <2>2. \A k \in 1 .. Len(n.attrs) :
          <<c.attrs[k][1], tree[c.attrs[k][2]]>>
            = <<n.attrs[k][1], tree[n.attrs[k][2]]>>
    BY <1>1 DEF SameTree
  <2> QED BY <2>1, <2>2
<1>7. TreeOf(c) = TreeOf(n)
  BY <1>1, <1>5, <1>6 DEF TreeOf, SameTree
<1> QED BY <1>3, <1>4, <1>7 DEF b

-----------------------------------------------------------------------------

(* The hash and the tree of a node depend on the arena through its         *)
(* children alone.                                                         *)
HashIn(ns, n) ==
  Mix([tag |-> n.tag, text |-> n.text,
       args |-> [i \in DOMAIN n.args |-> ns[n.args[i]].hash],
       attrs |-> [i \in DOMAIN n.attrs |->
                    <<n.attrs[i][1], ns[n.attrs[i][2]].hash>>]])

TreeIn(ts, n) ==
  [tag |-> n.tag, text |-> n.text,
   args |-> [i \in DOMAIN n.args |-> ts[n.args[i]]],
   attrs |-> {<<n.attrs[i][1], ts[n.attrs[i][2]]>> : i \in DOMAIN n.attrs}]

SameOn(R, f, g) == \A r \in R : f[r] = g[r]

LEMMA ChildrenDecide ==
  ASSUME NEW R, NEW n, n.args \in Seq(R), n.attrs \in Seq(Keys \X R),
         NEW ns, NEW ms, SameOn(R, ns, ms)
  PROVE  HashIn(ns, n) = HashIn(ms, n) /\ TreeIn(ns, n) = TreeIn(ms, n)
<1>1. \A i \in DOMAIN n.args : ns[n.args[i]] = ms[n.args[i]]
  <2> TAKE i \in DOMAIN n.args
  <2>1. n.args[i] \in R  BY ElementOfSeq
  <2> QED BY <2>1 DEF SameOn
<1>2. \A i \in DOMAIN n.attrs : ns[n.attrs[i][2]] = ms[n.attrs[i][2]]
  <2> TAKE i \in DOMAIN n.attrs
  <2>1. n.attrs[i] \in Keys \X R  BY ElementOfSeq
  <2> QED BY <2>1 DEF SameOn
<1>3. HashIn(ns, n) = HashIn(ms, n)
  BY <1>1, <1>2 DEF HashIn
<1>4. TreeIn(ns, n) = TreeIn(ms, n)
  <2>1. {<<n.attrs[i][1], ns[n.attrs[i][2]]>> : i \in DOMAIN n.attrs}
          = {<<n.attrs[i][1], ms[n.attrs[i][2]]>> : i \in DOMAIN n.attrs}
    BY <1>2
  <2>2. [i \in DOMAIN n.args |-> ns[n.args[i]]]
          = [i \in DOMAIN n.args |-> ms[n.args[i]]]
    BY <1>1
  <2> QED BY <2>1, <2>2 DEF TreeIn
<1> QED BY <1>3, <1>4

(* Appending a new node keeps every part of the invariant.                 *)
LEMMA PushKeepsIInv ==
  ASSUME IInv, ArenaAssumption, NEW n, GoodNode(n), Candidates(n) = {},
         Push(n)
  PROVE  IInv'
<1> DEFINE ref == Len(nodes) + 1
           h == HashOf(n)
           new == [tag |-> n.tag, text |-> n.text, args |-> n.args,
                   attrs |-> n.attrs, hash |-> h]
           NodeSet(H) == [tag : Tags, text : Seq(Text), args : Seq(Nat),
                          attrs : Seq(Keys \X Nat), hash : H]
<1>1. /\ nodes \in Seq(NodeSet(Hashes)) /\ Len(nodes) \in Nat
      /\ nodes' = Append(nodes, new)
  BY DEF IInv, TypeOK, Push, Text
<1>2. /\ Len(nodes') = ref /\ Refs' = 1 .. ref
      /\ \A r \in Refs : nodes'[r] = nodes[r] /\ r \in Refs' /\ r # ref
      /\ nodes'[ref] = new
      /\ \A r \in Refs' : r \in Refs \/ r = ref
      /\ ref \in Refs'
  BY <1>1 DEF Refs
<1>3. /\ DOMAIN tree' = Refs'
      /\ \A r \in Refs : tree'[r] = tree[r]
      /\ tree'[ref] = TreeOf(n)
  BY <1>2 DEF Push
<1>4. Bucket(h) \in Seq(Refs)
  BY DEF IInv, TypeOK, Bucket
<1>5. /\ Hashes' = Hashes \cup {h}
      /\ index'[h] = Append(Bucket(h), ref)
      /\ \A g \in Hashes : g # h => index'[g] = index[g]
  BY DEF Push, Remember, Hashes
<1>6. last' = Answer(TreeOf(n), ref)
  BY DEF Push
<1>7. n.args \in Seq(Refs) /\ n.attrs \in Seq(Keys \X Refs)
  BY DEF GoodNode
<1>8. \A r \in Refs : /\ nodes[r].args \in Seq(Refs)
                      /\ nodes[r].attrs \in Seq(Keys \X Refs)
  BY DEF IInv, NodesInv, GoodNode
<1>9. \A r \in Refs : nodes[r].hash \in Hashes
  <2> TAKE r \in Refs
  <2>1. nodes[r] \in NodeSet(Hashes)
    <3> HIDE DEF NodeSet
    <3> QED BY <1>1, ElementOfSeq DEF Refs
  <2> QED BY <2>1
<1>10. Seq(Refs) \subseteq Seq(Refs') /\ Seq(Keys \X Refs) \subseteq Seq(Keys \X Refs')
  <2>1. Refs \subseteq Refs' /\ Keys \X Refs \subseteq Keys \X Refs'  BY <1>2
  <2> QED BY <2>1, SeqMonotonic
<1>11. TypeOK'
  <2>1. nodes' \in Seq(NodeSet(Hashes'))
    <3>1. NodeSet(Hashes) \subseteq NodeSet(Hashes')  BY <1>5
    <3>2. nodes \in Seq(NodeSet(Hashes'))
      <4> HIDE DEF NodeSet
      <4> QED BY <1>1, <3>1, SeqMonotonic
    <3>3. n.args \in Seq(Nat) /\ n.attrs \in Seq(Keys \X Nat)
      <4>1. Refs \subseteq Nat /\ Keys \X Refs \subseteq Keys \X Nat
        BY DEF Refs
      <4> QED BY <4>1, <1>7, SeqMonotonic
    <3>4. new \in NodeSet(Hashes')  BY <3>3, <1>5 DEF GoodNode
    <3> HIDE DEF NodeSet, new
    <3> QED BY <1>1, <3>2, <3>4, AppendProperties
  <2>2. ASSUME NEW r \in Refs'
        PROVE  /\ \A i \in 1 .. Len(nodes'[r].args) :
                    nodes'[r].args[i] \in 1 .. r - 1
               /\ \A i \in 1 .. Len(nodes'[r].attrs) :
                    nodes'[r].attrs[i][2] \in 1 .. r - 1
    <3>1. CASE r \in Refs
      BY <3>1, <1>2 DEF IInv, TypeOK
    <3>2. CASE r = ref
      <4>1. nodes'[r].args = n.args /\ nodes'[r].attrs = n.attrs /\ Refs = 1 .. r - 1
        BY <3>2, <1>2, <1>1 DEF Refs
      <4>2. \A i \in 1 .. Len(n.args) : n.args[i] \in Refs
        BY <1>7, ElementOfSeq
      <4>3. \A i \in 1 .. Len(n.attrs) : n.attrs[i] \in Keys \X Refs
        BY <1>7, ElementOfSeq
      <4> QED BY <4>1, <4>2, <4>3
    <3> QED BY <3>1, <3>2, <1>2
  <2>3. ASSUME NEW g \in Hashes' PROVE index'[g] \in Seq(Refs')
    <3>1. CASE g = h
      <4>1. Bucket(h) \in Seq(Refs')  BY <1>4, <1>10
      <4> QED BY <3>1, <4>1, <1>5, <1>2, AppendProperties
    <3>2. CASE g # h
      BY <3>2, <1>5, <1>10 DEF IInv, TypeOK
    <3> QED BY <3>1, <3>2
  <2> HIDE DEF ref, h, new
  <2> QED BY <2>1, <2>2, <2>3, <1>3, <1>6 DEF TypeOK, Answer, Text
<1>12. NodesInv'
  <2>1. \A r \in Refs : HashOf(nodes[r]) = HashIn(nodes, nodes[r])
                        /\ TreeOf(nodes[r]) = TreeIn(tree, nodes[r])
    BY DEF HashOf, HashIn, TreeOf, TreeIn
  <2>2. HashOf(n) = HashIn(nodes, n) /\ TreeOf(n) = TreeIn(tree, n)
    BY DEF HashOf, HashIn, TreeOf, TreeIn
  <2>3. \A r \in Refs' : HashOf(nodes[r])' = HashIn(nodes', nodes'[r])
                         /\ TreeOf(nodes[r])' = TreeIn(tree', nodes'[r])
    BY DEF HashOf, HashIn, TreeOf, TreeIn
  <2>4. HashIn(nodes', new) = HashIn(nodes', n) /\ TreeIn(tree', new) = TreeIn(tree', n)
    BY DEF HashIn, TreeIn
  <2>5. SameOn(Refs, nodes', nodes) /\ SameOn(Refs, tree', tree)
    BY <1>2, <1>3 DEF SameOn
  <2>6. ASSUME NEW r \in Refs
        PROVE  HashIn(nodes', nodes[r]) = HashIn(nodes, nodes[r])
               /\ TreeIn(tree', nodes[r]) = TreeIn(tree, nodes[r])
    BY <2>5, <1>8, ChildrenDecide
  <2>7. HashIn(nodes', n) = HashIn(nodes, n) /\ TreeIn(tree', n) = TreeIn(tree, n)
    BY <2>5, <1>7, ChildrenDecide
  <2>8. ASSUME NEW r \in Refs'
        PROVE  nodes'[r].hash = HashIn(nodes', nodes'[r])
               /\ tree'[r] = TreeIn(tree', nodes'[r])
    <3>1. CASE r \in Refs
      BY <3>1, <1>2, <1>3, <2>1, <2>6 DEF IInv, NodesInv
    <3>2. CASE r = ref
      BY <3>2, <1>2, <1>3, <2>2, <2>4, <2>7
    <3> QED BY <3>1, <3>2, <1>2
  <2>9. ASSUME NEW r \in Refs'
        PROVE  GoodNode(nodes[r])'
    <3>1. CASE r \in Refs
      <4>1. GoodNode(nodes[r]) /\ nodes'[r] = nodes[r]
        BY <3>1, <1>2 DEF IInv, NodesInv
      <4> QED BY <4>1, <1>10 DEF GoodNode
    <3>2. CASE r = ref
      <4>1. /\ nodes'[r].tag = n.tag /\ nodes'[r].text = n.text
            /\ nodes'[r].args = n.args /\ nodes'[r].attrs = n.attrs
        BY <3>2, <1>2
      <4> QED BY <4>1, <1>10 DEF GoodNode
    <3> QED BY <3>1, <3>2, <1>2
  <2> QED BY <2>3, <2>8, <2>9 DEF NodesInv
<1>13. IndexExact'
  <2> DEFINE b == Bucket(h)
  <2>1. /\ Append(b, ref) \in Seq(Refs') /\ Len(Append(b, ref)) = Len(b) + 1
        /\ \A i \in 1 .. Len(b) : Append(b, ref)[i] = b[i]
        /\ Append(b, ref)[Len(b) + 1] = ref
        /\ Len(b) \in Nat
    <3>1. b \in Seq(Refs')  BY <1>4, <1>10
    <3> HIDE DEF b, ref
    <3> QED BY <3>1, <1>2, AppendProperties, LenProperties
  <2>2. \A g \in Hashes' : Bucket(g)' = index'[g]
    BY DEF Bucket, Hashes
  <2>3. ASSUME NEW r \in Refs'
        PROVE  \E i \in 1 .. Len(index'[nodes'[r].hash]) :
                 index'[nodes'[r].hash][i] = r
    <3>1. CASE r = ref
      <4>1. nodes'[r].hash = h  BY <3>1, <1>2
      <4>2. Len(b) + 1 \in 1 .. Len(b) + 1  BY <2>1
      <4> HIDE DEF b, h
      <4> QED BY <3>1, <4>1, <4>2, <2>1, <1>5 DEF b
    <3>2. CASE r \in Refs /\ nodes[r].hash = h
      <4>1. PICK i \in 1 .. Len(b) : b[i] = r
        BY <3>2 DEF IInv, IndexExact
      <4>2. i \in 1 .. Len(b) + 1  BY <4>1, <2>1
      <4>3. nodes'[r].hash = h  BY <3>2, <1>2
      <4> HIDE DEF b, h
      <4> QED BY <4>1, <4>2, <4>3, <2>1, <1>5 DEF b
    <3>3. CASE r \in Refs /\ nodes[r].hash # h
      <4>1. nodes'[r].hash = nodes[r].hash /\ nodes[r].hash \in Hashes
        BY <3>3, <1>2, <1>9
      <4>2. index'[nodes'[r].hash] = Bucket(nodes[r].hash)
        BY <3>3, <4>1, <1>5 DEF Bucket
      <4> QED BY <3>3, <4>2, <4>1 DEF IInv, IndexExact
    <3> QED BY <3>1, <3>2, <3>3, <1>2
  <2>4. ASSUME NEW g \in Hashes', NEW i \in 1 .. Len(index'[g]),
               NEW j \in 1 .. Len(index'[g])
        PROVE  nodes'[index'[g][i]].hash = g
               /\ (index'[g][i] = index'[g][j] => i = j)
    <3>1. CASE g # h
      <4>1. g \in Hashes /\ index'[g] = index[g] /\ index[g] \in Seq(Refs)
        BY <3>1, <1>5 DEF IInv, TypeOK
      <4>2. index[g][i] \in Refs  BY <4>1, ElementOfSeq
      <4>3. nodes[index[g][i]].hash = g
            /\ (index[g][i] = index[g][j] => i = j)
        BY <4>1 DEF IInv, IndexExact
      <4> QED BY <4>1, <4>2, <4>3, <1>2
    <3>2. CASE g = h
      <4>1. \A k \in 1 .. Len(b) : b[k] \in Refs  BY <1>4, ElementOfSeq
      <4>2. \A k \in 1 .. Len(b) : nodes'[b[k]].hash = h /\ b[k] # ref
        BY <4>1, <1>2 DEF IInv, IndexExact, Bucket
      <4>3. \A k, l \in 1 .. Len(b) : b[k] = b[l] => k = l
        BY DEF IInv, IndexExact, Bucket
      <4>4. nodes'[ref].hash = h  BY <1>2
      <4>5. /\ index'[g] = Append(b, ref)
            /\ i \in 1 .. Len(b) + 1 /\ j \in 1 .. Len(b) + 1
        <5> HIDE DEF b, ref, h
        <5> QED BY <3>2, <2>1, <1>5 DEF b
      <4>6. /\ i \in 1 .. Len(b) \/ i = Len(b) + 1
            /\ j \in 1 .. Len(b) \/ j = Len(b) + 1
        <5> HIDE DEF b
        <5> QED BY <4>5, <2>1
      <4> HIDE DEF b, ref, h
      <4> QED BY <3>2, <4>2, <4>3, <4>4, <4>5, <4>6, <2>1
    <3> QED BY <3>1, <3>2
  <2>5. \A r \in Refs' : nodes'[r].hash \in Hashes'
    BY <1>2, <1>5, <1>9
  <2> QED BY <2>2, <2>3, <2>4, <2>5 DEF IndexExact, Hashes, Bucket
<1>14. HashConsed'
  <2>1. \A r \in Refs : tree[r] # TreeOf(n)
    BY MissIsNew
  <2>2. ASSUME NEW r \in Refs', NEW s \in Refs', tree'[r] = tree'[s]
        PROVE  r = s
    <3> HIDE DEF ref
    <3> QED BY <2>1, <2>2, <1>2, <1>3 DEF IInv, HashConsed
  <2> QED BY <2>2 DEF HashConsed
<1>15. AnswersTheRequest'
  BY <1>2, <1>3, <1>6 DEF AnswersTheRequest, Answer
<1> QED BY <1>11, <1>12, <1>13, <1>14, <1>15 DEF IInv

-----------------------------------------------------------------------------

(* A call that leaves the nodes alone keeps the invariant if its answer is *)
(* right.                                                                  *)
LEMMA SameNodesKeepIInv ==
  ASSUME IInv, UNCHANGED <<nodes, index, tree>>,
         last'.ok \in BOOLEAN,
         "got" \in DOMAIN last' =>
           last'.got \in Refs /\ tree[last'.got] = last'.want
  PROVE  IInv'
<1>1. TypeOK'
  BY DEF IInv, TypeOK, Refs, Hashes
<1>2. NodesInv'
  <2> SUFFICES ASSUME NEW r \in Refs
               PROVE  /\ GoodNode(nodes[r])' /\ (nodes[r].hash = HashOf(nodes[r]))'
                      /\ (tree[r] = TreeOf(nodes[r]))'
    BY DEF NodesInv, Refs
  <2>1. GoodNode(nodes[r])'
    BY DEF IInv, NodesInv, Refs, GoodNode
  <2>2. (nodes[r].hash = HashOf(nodes[r]))'
    BY DEF IInv, NodesInv, HashOf
  <2>3. (tree[r] = TreeOf(nodes[r]))'
    BY DEF IInv, NodesInv, TreeOf
  <2> QED BY <2>1, <2>2, <2>3
<1>3. IndexExact'
  BY DEF IInv, IndexExact, Refs, Hashes, Bucket
<1>4. HashConsed'
  BY DEF IInv, HashConsed, Refs
<1>5. AnswersTheRequest'
  BY DEF AnswersTheRequest, Refs
<1> QED BY <1>1, <1>2, <1>3, <1>4, <1>5 DEF IInv

LEMMA RejectKeepsIInv ==
  ASSUME IInv, Reject
  PROVE  IInv'
BY SameNodesKeepIInv DEF Reject, Refused

LEMMA InternKeepsIInv ==
  ASSUME IInv, ArenaAssumption, NEW n, GoodNode(n), Intern(n)
  PROVE  IInv'
<1>1. CASE Candidates(n) = {} /\ Push(n)
  BY <1>1, PushKeepsIInv
<1>2. CASE /\ UNCHANGED <<nodes, index, tree>>
           /\ \E i \in Candidates(n) :
                last' = Answer(TreeOf(n), Bucket(HashOf(n))[i])
  <2>1. PICK i \in Candidates(n) :
          last' = Answer(TreeOf(n), Bucket(HashOf(n))[i])
    BY <1>2
  <2>2. /\ Bucket(HashOf(n))[i] \in Refs
        /\ tree[Bucket(HashOf(n))[i]] = TreeOf(n)
    BY HitIsRight
  <2>3. /\ last'.ok = TRUE /\ last'.got = Bucket(HashOf(n))[i]
        /\ last'.want = TreeOf(n)
    BY <2>1 DEF Answer
  <2> QED BY <1>2, <2>2, <2>3, SameNodesKeepIInv
<1> QED BY <1>1, <1>2 DEF Intern

(* The readers hand the arena well-formed nodes.                           *)
LEMMA UpToIsSeq ==
  ASSUME NEW k \in Nat, NEW S, NEW s \in UpTo(k, S)
  PROVE  s \in Seq(S)
<1>1. PICK m \in 0 .. k : s \in [1 .. m -> S]
  BY DEF UpTo
<1>2. m \in Nat /\ s = [i \in 1 .. m |-> s[i]] /\ \A i \in 1 .. m : s[i] \in S
  BY <1>1
<1> QED BY <1>2

LEMMA AtomIsGood ==
  ASSUME NEW tag \in AtomTags, NEW name \in Names
  PROVE  GoodNode(Node(tag, <<name>>, << >>, << >>))
BY DEF GoodNode, Node, AtomTags, Tags, Text

LEMMA RationalIsGood ==
  ASSUME NEW num \in Numerals, NEW den \in Numerals
  PROVE  GoodNode(Node("Rat", <<num, den>>, << >>, << >>))
BY DEF GoodNode, Node, Tags, Text

LEMMA CompoundIsGood ==
  ASSUME ArenaAssumption, NEW head \in Heads, NEW args \in Seq(Refs),
         NEW attrs \in Seq(Keys \X Refs), NEW sorted \in Sorted(attrs),
         ~ HasDuplicate(sorted)
  PROVE  GoodNode(Node("Compound", <<head>>, args, sorted))
<1> DEFINE n == Len(attrs)
<1>1. PICK p \in [1 .. n -> 1 .. n] :
        /\ \A i, j \in 1 .. n : i < j => attrs[p[i]][1] <= attrs[p[j]][1]
        /\ sorted = [i \in 1 .. n |-> attrs[p[i]]]
  BY DEF Sorted
<1>2. \A i \in 1 .. n : sorted[i] = attrs[p[i]] /\ attrs[p[i]] \in Keys \X Refs
  BY <1>1, ElementOfSeq
<1>3. n \in Nat
  BY LenProperties
<1>4. sorted \in Seq(Keys \X Refs) /\ Len(sorted) = n
  <2>1. sorted \in [1 .. n -> Keys \X Refs]  BY <1>1, <1>2
  <2> HIDE DEF n
  <2> QED BY <2>1, <1>3
<1>5. \A i \in 1 .. n : sorted[i][1] \in Nat
  BY <1>2 DEF ArenaAssumption
<1>6. \A i, j \in 1 .. n : i < j => sorted[i][1] <= sorted[j][1]
  BY <1>1, <1>2
<1>7. \A i \in 2 .. n : sorted[i - 1][1] # sorted[i][1]
  BY <1>4 DEF HasDuplicate
<1>8. \A i, j \in 1 .. n : i < j => sorted[i][1] < sorted[j][1]
  <2> HIDE DEF n
  <2> SUFFICES ASSUME NEW i \in 1 .. n, NEW j \in 1 .. n, i < j
               PROVE  sorted[i][1] < sorted[j][1]
    OBVIOUS
  <2>1. j - 1 \in 1 .. n /\ j \in 2 .. n /\ (i < j - 1 \/ i = j - 1)
    BY <1>3
  <2>2. sorted[i][1] <= sorted[j - 1][1]
    BY <2>1, <1>5, <1>6
  <2>3. sorted[j - 1][1] <= sorted[j][1] /\ sorted[j - 1][1] # sorted[j][1]
    <3>1. j - 1 < j /\ (j - 1) \in 1 .. n /\ j \in 1 .. n  BY <2>1, <1>3
    <3>2. sorted[j - 1][1] <= sorted[j][1]  BY <3>1, <1>6
    <3>3. sorted[j - 1][1] # sorted[j][1]  BY <2>1, <1>7
    <3> QED BY <3>2, <3>3
  <2> QED BY <2>1, <2>2, <2>3, <1>5
<1> QED BY <1>4, <1>8 DEF GoodNode, Node, Tags, Text

(* Every step is a refusal or the interning of a well-formed node.         *)
LEMMA NextIsIntern ==
  ASSUME IInv, ArenaAssumption, Next
  PROVE  Reject \/ \E n : GoodNode(n) /\ Intern(n)
<1>1. ASSUME NEW tag \in AtomTags, NEW name \in Names, Atom(tag, name)
      PROVE  \E n : GoodNode(n) /\ Intern(n)
  BY <1>1, AtomIsGood DEF Atom
<1>2. ASSUME NEW num \in Numerals, NEW den \in Numerals, Rational(num, den)
      PROVE  Reject \/ \E n : GoodNode(n) /\ Intern(n)
  BY <1>2, RationalIsGood DEF Rational
<1>3. ASSUME NEW head \in Heads, NEW args \in UpTo(MaxArgs, Refs),
             NEW attrs \in UpTo(MaxAttrs, Keys \X Refs),
             Compound(head, args, attrs)
      PROVE  Reject \/ \E n : GoodNode(n) /\ Intern(n)
  <2>1. args \in Seq(Refs) /\ attrs \in Seq(Keys \X Refs)
    BY UpToIsSeq DEF ArenaAssumption
  <2>2. PICK sorted \in Sorted(attrs) :
          IF HasDuplicate(sorted)
          THEN Reject
          ELSE Intern(Node("Compound", <<head>>, args, sorted))
    BY <1>3 DEF Compound
  <2>3. CASE HasDuplicate(sorted)
    BY <2>2, <2>3
  <2>4. CASE ~ HasDuplicate(sorted)
    BY <2>1, <2>2, <2>4, CompoundIsGood
  <2> QED BY <2>3, <2>4
<1> QED BY <1>1, <1>2, <1>3 DEF Next

LEMMA InitIInv == Init => IInv
<1> SUFFICES ASSUME Init PROVE IInv
  OBVIOUS
<1>1. Refs = {} /\ Hashes = {} /\ DOMAIN tree = {}
  BY DEF Init, Refs, Hashes
<1> QED BY <1>1 DEF Init, IInv, TypeOK, NodesInv, IndexExact, HashConsed,
                    AnswersTheRequest, NoCall, Refs

LEMMA StepIInv == IInv /\ [Next]_vars => IInv'
<1> SUFFICES ASSUME IInv, [Next]_vars PROVE IInv'
  OBVIOUS
<1>1. CASE Next
  BY <1>1, NextIsIntern, RejectKeepsIInv, InternKeepsIInv, ArenaAssumption
<1>2. CASE UNCHANGED vars
  BY <1>2, SameNodesKeepIInv DEF vars, IInv, TypeOK, AnswersTheRequest
<1> QED BY <1>1, <1>2

(* Whatever is asked of the arena, and in whatever order, its nodes, index *)
(* and answers satisfy the inductive invariant (Arena::intern).            *)
THEOREM ArenaInvariant == Spec => []IInv
BY InitIInv, StepIInv, PTL DEF Spec

(* Type correctness of the arena.                                          *)
THEOREM ArenaTypeOK == Spec => []TypeOK
<1>1. IInv => TypeOK  BY DEF IInv
<1> QED BY <1>1, ArenaInvariant, PTL

(* The index finds every node, in the bucket of its hash and once there.   *)
THEOREM ArenaIndexExact == Spec => []IndexExact
<1>1. IInv => IndexExact  BY DEF IInv
<1> QED BY <1>1, ArenaInvariant, PTL

(* Structural equality is pointer equality, for every hash.                *)
THEOREM ArenaHashConsed == Spec => []HashConsed
<1>1. IInv => HashConsed  BY DEF IInv
<1> QED BY <1>1, ArenaInvariant, PTL

(* The reference a call returns stands for the tree that was asked for.    *)
THEOREM ArenaAnswers == Spec => []AnswersTheRequest
<1>1. IInv => AnswersTheRequest  BY DEF IInv
<1> QED BY <1>1, ArenaInvariant, PTL

-----------------------------------------------------------------------------

(* The table of the interner gives every tree the reference it has.        *)
LEMMA TableIsTheArena ==
  ASSUME HashConsed, NEW r \in Refs
  PROVE  tree[r] \in DOMAIN Table /\ Table[tree[r]] = r
<1>1. tree[r] \in {tree[s] : s \in Refs}
  OBVIOUS
<1>2. \A s \in Refs : tree[s] = tree[r] => s = r
  BY DEF HashConsed
<1>3. (CHOOSE s \in Refs : tree[s] = tree[r]) = r
  BY <1>2
<1> QED BY <1>1, <1>3 DEF Table

(* A hit in the bucket is a Find of the interner.                          *)
LEMMA HitIsFind ==
  ASSUME IInv, NEW n, GoodNode(n), UNCHANGED <<nodes, index, tree>>,
         NEW i \in Candidates(n),
         last' = Answer(TreeOf(n), Bucket(HashOf(n))[i])
  PROVE  ABS!Find
<1> DEFINE r == Bucket(HashOf(n))[i]
<1>1. r \in Refs /\ tree[r] = TreeOf(n)
  BY HitIsRight
<1>2. tree[r] \in DOMAIN Table /\ Table[tree[r]] = r
  BY <1>1, TableIsTheArena DEF IInv
<1>3. Table' = Table
  BY DEF Table, Refs
<1> HIDE DEF r
<1>4. last' = Answer(tree[r], Table[tree[r]])
  BY <1>1, <1>2 DEF r
<1> QED BY <1>2, <1>3, <1>4 DEF ABS!Find, ABS!Answer, Answer

(* A new node is a Make of the interner.                                   *)
LEMMA PushIsMake ==
  ASSUME IInv, IInv', ArenaAssumption, NEW n, GoodNode(n),
         Candidates(n) = {}, Push(n)
  PROVE  ABS!Make
<1> DEFINE ref == Len(nodes) + 1
           t == TreeOf(n)
<1>1. nodes \in Seq([tag : Tags, text : Seq(Text), args : Seq(Nat),
                     attrs : Seq(Keys \X Nat), hash : Hashes])
  BY DEF IInv, TypeOK, Text
<1>2. /\ Refs' = Refs \cup {ref} /\ ref \notin Refs
      /\ \A r \in Refs : tree'[r] = tree[r]
      /\ tree'[ref] = t
  BY <1>1 DEF Push, Refs
<1>3. \A r \in Refs : tree[r] # t
  BY MissIsNew
<1>4. \A r \in Refs : tree[r] \in DOMAIN Table /\ Table[tree[r]] = r
  BY TableIsTheArena DEF IInv
<1>5. \A r \in Refs' : tree'[r] \in DOMAIN Table' /\ Table'[tree'[r]] = r
  <2> TAKE r \in Refs'
  <2>1. \A s \in Refs' : tree'[s] = tree'[r] => s = r
    BY DEF IInv, HashConsed
  <2>2. (CHOOSE s \in Refs' : tree'[s] = tree'[r]) = r
    BY <2>1
  <2> QED BY <2>2 DEF Table
<1>6. DOMAIN Table = {tree[r] : r \in Refs}
      /\ DOMAIN Table' = {tree'[r] : r \in Refs'}
  BY DEF Table
<1> HIDE DEF t, ref
<1>7. DOMAIN Table' = DOMAIN Table \cup {t} /\ t \notin DOMAIN Table
  BY <1>2, <1>3, <1>6
<1>8. Table'[t] = ref
  BY <1>2, <1>5
<1>9. \A u \in DOMAIN Table : Table'[u] = Table[u] /\ Table[u] # Table'[t]
  <2> TAKE u \in DOMAIN Table
  <2>1. PICK r \in Refs : u = tree[r]  BY <1>6
  <2>2. Table[u] = r /\ Table'[u] = r
    BY <2>1, <1>2, <1>4, <1>5
  <2> QED BY <2>2, <1>2, <1>8
<1>10. last' = Answer(t, ref)
  BY DEF Push, t, ref
<1> QED BY <1>7, <1>8, <1>9, <1>10 DEF ABS!Make, ABS!Answer, Answer

(* The arena implements the interner.                                      *)
THEOREM ArenaImplementsInterner == Spec => InternerSpec
<1>1. Init => ABS!Init
  BY DEF Init, ABS!Init, Table, Refs, NoCall, ABS!NoCall
<1>2. ASSUME IInv, IInv', [Next]_vars
      PROVE  [ABS!Next]_(ABS!vars)
  <2>1. CASE Reject
    <3>1. Table' = Table  BY <2>1 DEF Reject, Table, Refs
    <3> QED BY <2>1, <3>1
            DEF Reject, Refused, ABS!Next, ABS!Refuse, ABS!Refused
  <2>2. ASSUME NEW n, GoodNode(n), Intern(n)
        PROVE  ABS!Next
    <3>1. CASE Candidates(n) = {} /\ Push(n)
      BY <1>2, <2>2, <3>1, PushIsMake, ArenaAssumption DEF ABS!Next
    <3>2. CASE /\ UNCHANGED <<nodes, index, tree>>
               /\ \E i \in Candidates(n) :
                    last' = Answer(TreeOf(n), Bucket(HashOf(n))[i])
      BY <1>2, <2>2, <3>2, HitIsFind DEF ABS!Next
    <3> QED BY <2>2, <3>1, <3>2 DEF Intern
  <2>3. CASE UNCHANGED vars
    BY <2>3 DEF vars, Table, Refs, ABS!vars
  <2> QED BY <1>2, <2>1, <2>2, <2>3, NextIsIntern, ArenaAssumption
<1> QED BY <1>1, <1>2, ArenaInvariant, PTL DEF Spec, InternerSpec, ABS!Spec

=============================================================================
