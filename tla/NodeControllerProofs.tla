------------------------ MODULE NodeControllerProofs ------------------------
(***************************************************************************)
(* Proofs about the node controller, for every set of volumes and taints.  *)
(* What its loop over the taints computes is proved by induction: the      *)
(* least position at which a claim about the loop fails cannot be.         *)
(***************************************************************************)
EXTENDS NodeController, TLAPS, SequenceTheorems, WellFoundedInduction

----------------------------------------------------------------------------
(* Induction                                                               *)

\* A set of natural numbers that is not empty has a least element.
LEMMA LeastNatural ==
  ASSUME NEW T, T \subseteq Nat, T # {}
  PROVE  \E n \in T : \A m \in T : n <= m
<1> DEFINE R == {ss \in Nat \X Nat : ss[1] < ss[2]}
<1>1. IsWellFoundedOn(R, Nat)
  BY NatLessThanWellFounded, Zenon DEF OpToRel
<1>2. \A n, m \in Nat : m < n => <<m, n>> \in R
  OBVIOUS
<1> HIDE DEF R
<1>3. PICK n \in T : \A m \in T : ~ (<<m, n>> \in R)
  BY <1>1, WFMin, Zenon
<1>4. \A m \in T : ~ (m < n)
  BY <1>2, <1>3
<1> QED
  BY <1>4

----------------------------------------------------------------------------
(* The loop of removeTaint                                                 *)

\* What the loop has collected after position i, given what it had before.
Collect(taints, f, i) ==
  IF i = 0 THEN <<>>
  ELSE IF IsOther(taints[i]) THEN Append(f[i - 1], taints[i])
  ELSE f[i - 1]

\* f is what the loop has collected after each of the first n positions.
Collects(taints, f, n) == f = [i \in 0..n |-> Collect(taints, f, i)]

\* The loop collects something: its recursive definition has a solution.
LEMMA CollectsExists ==
  ASSUME NEW taints, NEW n \in Nat
  PROVE  \E f : Collects(taints, f, n)
<1> DEFINE T == {k \in Nat : ~ \E f : Collects(taints, f, k)}
<1> SUFFICES ASSUME T # {} PROVE FALSE
  OBVIOUS
<1>1. PICK k \in T : \A m \in T : k <= m
  BY LeastNatural
<1>2. CASE k = 0
  <2> DEFINE g == [i \in 0..0 |-> <<>>]
  <2>1. Collects(taints, g, 0)
    BY DEF Collects, Collect
  <2> QED
    BY <1>2, <2>1
<1>3. CASE k # 0
  <2>1. k - 1 \in Nat /\ k - 1 \notin T
    BY <1>1, <1>3
  <2>2. PICK f : Collects(taints, f, k - 1)
    BY <2>1
  <2> DEFINE g == [i \in 0..k |-> Collect(taints, f, i)]
  <2>3. \A i \in 0..(k - 1) : f[i] = Collect(taints, f, i)
    BY <2>1, <2>2 DEF Collects
  <2>4. \A i \in 0..(k - 1) : g[i] = f[i]
    BY <2>3
  <2>5. \A i \in 0..k : Collect(taints, g, i) = Collect(taints, f, i)
    <3> TAKE i \in 0..k
    <3>1. i # 0 => g[i - 1] = f[i - 1]
      BY <2>4
    <3> QED
      BY <3>1 DEF Collect
  <2>6. Collects(taints, g, k)
    BY <2>5 DEF Collects
  <2> QED
    BY <2>6
<1> QED
  BY <1>2, <1>3

\* Others is what the loop has collected after the last position.
LEMMA OthersCollects ==
  ASSUME NEW taints, Len(taints) \in Nat
  PROVE  \E f : Collects(taints, f, Len(taints)) /\ Others(taints) = f[Len(taints)]
<1> DEFINE f == CHOOSE g : Collects(taints, g, Len(taints))
<1>1. Collects(taints, f, Len(taints))
  BY CollectsExists
<1>2. Others(taints) = f[Len(taints)]
  BY DEF Others, Collects, Collect
<1> QED
  BY <1>1, <1>2

\* Two lists that agree up to a point are collected alike up to it.
LEMMA CollectsAgree ==
  ASSUME NEW s, NEW t, NEW f, NEW g, NEW m \in Nat, NEW n \in Nat,
         Collects(s, f, m), Collects(t, g, n),
         NEW k \in Nat, k <= m, k <= n, \A i \in 1..k : s[i] = t[i]
  PROVE  f[k] = g[k]
<1> DEFINE T == {i \in 0..k : f[i] # g[i]}
<1> SUFFICES ASSUME T # {} PROVE FALSE
  OBVIOUS
<1>0. T \subseteq Nat
  OBVIOUS
<1>1. PICK i \in T : \A j \in T : i <= j
  <2> HIDE DEF T
  <2> QED BY <1>0, LeastNatural
<1>2. f[i] = Collect(s, f, i) /\ g[i] = Collect(t, g, i)
  <2>1. i \in 0..m /\ i \in 0..n
    OBVIOUS
  <2>2. \A j \in 0..m : f[j] = Collect(s, f, j)
    BY DEF Collects
  <2>3. \A j \in 0..n : g[j] = Collect(t, g, j)
    BY DEF Collects
  <2> QED
    BY <2>1, <2>2, <2>3
<1>3. i # 0 => f[i - 1] = g[i - 1] /\ s[i] = t[i]
  BY <1>1
<1> QED
  BY <1>2, <1>3 DEF Collect

\* The loop over no taints.
LEMMA OthersEmpty == Others(<<>>) = <<>>
<1>1. PICK f : Collects(<<>>, f, 0) /\ Others(<<>>) = f[0]
  BY OthersCollects
<1> QED
  BY <1>1 DEF Collects, Collect

\* A taint at the end is collected last, if its key is another one.
LEMMA OthersAppend ==
  ASSUME NEW S, NEW s \in Seq(S), NEW t \in S
  PROVE  Others(Append(s, t)) = IF IsOther(t) THEN Append(Others(s), t) ELSE Others(s)
<1> DEFINE st == Append(s, t)
           n == Len(s)
<1>1. /\ n \in Nat
      /\ Len(st) = n + 1 /\ st[n + 1] = t
      /\ \A i \in 1..n : st[i] = s[i]
  OBVIOUS
<1> HIDE DEF st, n
<1>2. PICK f : Collects(s, f, n) /\ Others(s) = f[n]
  BY <1>1, OthersCollects DEF n
<1>3. PICK g : Collects(st, g, n + 1) /\ Others(st) = g[n + 1]
  BY <1>1, OthersCollects
<1>4. f[n] = g[n]
  BY <1>1, <1>2, <1>3, CollectsAgree
<1>5. g[n + 1] = Collect(st, g, n + 1)
  BY <1>1, <1>3 DEF Collects
<1>6. g[n + 1] = IF IsOther(t) THEN Append(g[n], t) ELSE g[n]
  BY <1>1, <1>5 DEF Collect
<1> QED
  BY <1>2, <1>3, <1>4, <1>6 DEF st
----------------------------------------------------------------------------
(* Lists of taints                                                         *)

\* Append adds its element to the members of a list.
LEMMA AppendMembers ==
  ASSUME NEW S, NEW s \in Seq(S), NEW t \in S
  PROVE  Append(s, t) \in Seq(S) /\ ToSet(Append(s, t)) = ToSet(s) \cup {t}
<1> DEFINE st == Append(s, t)
           n == Len(s)
<1>1. /\ n \in Nat
      /\ DOMAIN s = 1..n
      /\ DOMAIN st = 1..(n + 1) /\ st[n + 1] = t
      /\ \A i \in 1..n : st[i] = s[i]
  OBVIOUS
<1>2. st \in Seq(S)
  OBVIOUS
<1> HIDE DEF st, n
<1>3. \A x : x \in ToSet(st) => x \in ToSet(s) \cup {t}
  BY <1>1 DEF ToSet
<1>4. \A x : x \in ToSet(s) => x \in ToSet(st)
  BY <1>1 DEF ToSet
<1>5. t \in ToSet(st)
  BY <1>1 DEF ToSet
<1>6. ToSet(st) = ToSet(s) \cup {t}
  BY <1>3, <1>4, <1>5
<1> QED
  BY <1>2, <1>6 DEF st

\* RemoveAt takes away at most the element at its position.
LEMMA RemoveAtMembers ==
  ASSUME NEW S, NEW s \in Seq(S), NEW i \in 1..Len(s)
  PROVE  RemoveAt(s, i) \in Seq(S) /\ ToSet(s) \ {s[i]} \subseteq ToSet(RemoveAt(s, i))
<1> DEFINE n == Len(s)
           a == SubSeq(s, 1, i - 1)
           b == SubSeq(s, i + 1, n)
<1>0. n \in Nat /\ i \in 1..n /\ DOMAIN s = 1..n /\ \A j \in 1..n : s[j] \in S
  OBVIOUS
<1> HIDE DEF n
<1>1. a \in Seq(S) /\ Len(a) = i - 1 /\ \A j \in 1..(i - 1) : a[j] = s[j]
  BY <1>0, SubSeqProperties
<1>2. /\ b \in Seq(S) /\ Len(b) = n - i
      /\ \A j \in 1..(n - i) : b[j] = s[i + j]
  <2>1. /\ b \in Seq(S) /\ Len(b) = IF i + 1 <= n THEN n - (i + 1) + 1 ELSE 0
        /\ \A j \in 1..(n - (i + 1) + 1) : b[j] = s[i + 1 + j - 1]
    BY <1>0, SubSeqProperties
  <2> HIDE DEF b
  <2>2. Len(b) = n - i /\ n - (i + 1) + 1 = n - i
    <3>1. n - (i + 1) + 1 = n - i
      BY <1>0
    <3>2. i + 1 <= n \/ n = i
      BY <1>0
    <3> QED
      BY <1>0, <2>1, <3>1, <3>2
  <2>3. ASSUME NEW j \in 1..(n - i)
        PROVE  b[j] = s[i + j]
    <3>1. j \in 1..(n - (i + 1) + 1) /\ i + 1 + j - 1 = i + j
      BY <1>0, <2>2
    <3> QED
      BY <2>1, <3>1
  <2> QED
    BY <2>1, <2>2, <2>3
<1>3. RemoveAt(s, i) = a \o b
  BY DEF RemoveAt, n
<1> HIDE DEF a, b
<1>4. /\ a \o b \in Seq(S) /\ Len(a \o b) = n - 1
      /\ \A j \in 1..(n - 1) : (a \o b)[j] = IF j < i THEN s[j] ELSE s[j + 1]
  <2>1. /\ a \o b \in Seq(S) /\ Len(a \o b) = Len(a) + Len(b)
        /\ \A j \in 1..(Len(a) + Len(b)) :
             (a \o b)[j] = IF j <= Len(a) THEN a[j] ELSE b[j - Len(a)]
    BY <1>1, <1>2, ConcatProperties
  <2>2. Len(a) + Len(b) = n - 1
    BY <1>0, <1>1, <1>2
  <2>3. \A j \in 1..(n - 1) : (a \o b)[j] = IF j < i THEN s[j] ELSE s[j + 1]
    <3> TAKE j \in 1..(n - 1)
    <3>1. CASE j < i
      BY <1>0, <1>1, <2>1, <2>2, <3>1
    <3>2. CASE ~(j < i)
      <4>1. j - (i - 1) \in 1..(n - i) /\ i + (j - (i - 1)) = j + 1 /\ ~(j <= i - 1)
        BY <1>0, <3>2
      <4>2. b[j - (i - 1)] = s[j + 1]
        BY <1>2, <4>1
      <4>3. (a \o b)[j] = b[j - (i - 1)]
        BY <1>0, <1>1, <2>1, <2>2, <4>1
      <4> QED
        BY <3>2, <4>2, <4>3
    <3> QED
      BY <3>1, <3>2
  <2> QED
    BY <2>1, <2>2, <2>3
<1>5. ASSUME NEW j \in 1..n, s[j] # s[i]
      PROVE  s[j] \in ToSet(a \o b)
  <2>0. DOMAIN (a \o b) = 1..(n - 1)
    BY <1>4
  <2>1. CASE j < i
    <3>1. j \in 1..(n - 1) /\ (a \o b)[j] = s[j]
      BY <1>0, <1>4, <2>1
    <3> QED
      BY <2>0, <3>1 DEF ToSet
  <2>2. CASE ~(j < i)
    <3>1. j - 1 \in 1..(n - 1) /\ ~(j - 1 < i) /\ (j - 1) + 1 = j
      BY <1>0, <1>5, <2>2
    <3>2. (a \o b)[j - 1] = s[j]
      BY <1>4, <3>1
    <3> QED
      BY <2>0, <3>1, <3>2 DEF ToSet
  <2> QED
    BY <2>1, <2>2
<1>6. \A x \in ToSet(s) : x # s[i] => x \in ToSet(a \o b)
  <2> TAKE x \in ToSet(s)
  <2>1. PICK j \in 1..n : x = s[j]
    BY <1>0 DEF ToSet
  <2> QED
    BY <1>5, <2>1
<1> QED
  BY <1>3, <1>4, <1>6

\* removeTaint keeps the taints with other keys and no others, and a second
\* call changes nothing.
LEMMA OthersKept ==
  ASSUME NEW S, NEW s \in Seq(S)
  PROVE  /\ Others(s) \in Seq(S)
         /\ Others(Others(s)) = Others(s)
         /\ ToSet(Others(s)) = ToSet(s) \ OutOfService
<1> DEFINE n == Len(s)
           Seen(i) == {s[j] : j \in 1..i}
           Good(x, i) == /\ x \in Seq(S)
                         /\ Others(x) = x
                         /\ ToSet(x) = Seen(i) \ OutOfService
<1>1. n \in Nat /\ DOMAIN s = 1..n /\ \A i \in 1..n : s[i] \in S
  OBVIOUS
<1>2. PICK f : Collects(s, f, n) /\ Others(s) = f[n]
  BY <1>1, OthersCollects
<1> DEFINE T == {i \in 0..n : ~Good(f[i], i)}
<1> HIDE DEF n
<1>3. ASSUME T # {} PROVE FALSE
  <2>1. PICK i \in T : \A j \in T : i <= j
    <3>1. T \subseteq Nat
      BY <1>1
    <3> HIDE DEF T
    <3> QED
      BY <1>3, <3>1, LeastNatural
  <2>2. f[i] = Collect(s, f, i)
    BY <1>1, <1>2 DEF Collects
  <2>3. CASE i = 0
    <3>1. f[i] = <<>>
      BY <2>2, <2>3 DEF Collect
    <3>2. <<>> \in Seq(S) /\ ToSet(<<>>) = {} /\ Seen(0) = {}
      BY DEF ToSet
    <3> QED
      BY <2>3, <3>1, <3>2, OthersEmpty
  <2>4. CASE i # 0
    <3>1. i \in 1..n /\ i - 1 \in 0..n /\ i - 1 \notin T
      <4> HIDE DEF Good
      <4> QED
        BY <1>1, <2>1, <2>4
    <3>2. Good(f[i - 1], i - 1)
      BY <3>1
    <3>3. Seen(i) = Seen(i - 1) \cup {s[i]}
      BY <3>1
    <3> HIDE DEF Seen
    <3>4. CASE IsOther(s[i])
      <4>1. f[i] = Append(f[i - 1], s[i]) /\ s[i] \in S
        BY <1>1, <2>2, <2>4, <3>1, <3>4 DEF Collect
      <4>2. Others(f[i]) = Append(Others(f[i - 1]), s[i])
        BY <3>2, <3>4, <4>1, OthersAppend
      <4>3. f[i] \in Seq(S) /\ ToSet(f[i]) = ToSet(f[i - 1]) \cup {s[i]}
        BY <3>2, <4>1, AppendMembers
      <4>4. ToSet(f[i]) = Seen(i) \ OutOfService
        BY <3>2, <3>3, <3>4, <4>3 DEF IsOther
      <4> QED
        BY <3>2, <4>1, <4>2, <4>3, <4>4
    <3>5. CASE ~IsOther(s[i])
      <4>1. f[i] = f[i - 1]
        BY <2>2, <2>4, <3>5 DEF Collect
      <4>2. Seen(i) \ OutOfService = Seen(i - 1) \ OutOfService
        BY <3>3, <3>5 DEF IsOther
      <4> QED
        BY <3>2, <4>1, <4>2
    <3> QED
      BY <3>4, <3>5
  <2> QED
    BY <2>3, <2>4
<1>4. Good(f[n], n)
  <2> HIDE DEF Good
  <2> QED
    BY <1>1, <1>3
<1>5. ToSet(s) = Seen(n)
  BY <1>1 DEF ToSet
<1> QED
  BY <1>2, <1>4, <1>5

----------------------------------------------------------------------------
(* The invariant                                                           *)

\* The taints a node may have.
Taints == OtherTaints \cup OutOfService

\* The types of the Boolean variables.
Flags ==
  /\ declarative \in BOOLEAN
  /\ synced \in BOOLEAN /\ queued \in BOOLEAN
  /\ current \in BOOLEAN /\ vmCurrent \in BOOLEAN

\* The types of the objects, the copies of them and the handler's state.
Fields ==
  /\ node \in Nodes /\ cache \in Nodes /\ mine \in Nodes
  /\ vm \in {"healthy", "unhealthy", "missing"}
  /\ plugged \subseteq Vols /\ names \subseteq Vols
  /\ pc \in {"idle", "health", "removeTaint", "addTaint", "refetch", "remove"}

\* The node, or a copy of it, has the taint that counts.
Tainted(n) == NoExecute \in ToSet(n.taints)

\* A copy that is said to be the latest version is the node.
Fresh ==
  /\ synced => cache = node
  /\ current => mine = node /\ cache = node

\* An old copy of a lost node that shows the taint is right about it: the
\* taint is removed only on a copy that is ready and is the latest.
StaysTainted(n) == n.ready = "notTrue" /\ Tainted(n) => Tainted(node)

\* The copies of the node, and what the handler has seen of them.
TaintInv ==
  /\ StaysTainted(cache)
  /\ pc # "idle" => StaysTainted(mine)
  /\ pc \in {"refetch", "remove"} => Tainted(node)
  /\ pc = "removeTaint" => mine.ready = "True"

\* The inductive invariant.
NodeInv == TypeOK /\ Fresh /\ TaintInv

\* A node is put together from its fields.
LEMMA NodeType ==
  ASSUME NEW r \in Conditions, NEW t \in Seq(Taints), NEW d \in BOOLEAN
  PROVE  /\ Node(r, t, d) \in Nodes
         /\ Node(r, t, d).ready = r /\ Node(r, t, d).taints = t /\ Node(r, t, d).deleting = d
BY DEF Node, Nodes, Taints

\* The fields of a node have their types.
LEMMA NodeFields ==
  ASSUME NEW n \in Nodes
  PROVE  n.ready \in Conditions /\ n.taints \in Seq(Taints) /\ n.deleting \in BOOLEAN
BY DEF Nodes, Taints

\* What getNodeTaint and taintWithNoExecute find is among the taints.
LEMMA SeesTaint ==
  ASSUME NEW s \in Seq(Taints), TaHasNoExecute(s)
  PROVE  NoExecute \in ToSet(s)
<1>1. PICK i \in 1..Len(s) : s[i] = NoExecute
  BY DEF TaHasNoExecute
<1>2. DOMAIN s = 1..Len(s)
  OBVIOUS
<1> QED
  BY <1>1, <1>2 DEF ToSet

\* Every step keeps the flags Boolean.
LEMMA FlagsStep == Flags /\ [Next]_vars => Flags'
<1> SUFFICES ASSUME Flags, [Next]_vars PROVE Flags'
  OBVIOUS
<1> USE DEF Flags
<1>1. CASE HandlerStep
  BY <1>1, Zenon DEF HandlerStep, OnNodesChange, HandleNodeAndVMHealth, RemoveTaint, AddTaint,
       RefetchVM, RemoveByPatch, RemoveBySubresource, Update, Return, ReturnError, object, informer
<1>2. CASE Error \/ Watch \/ Resync
  BY <1>2, Zenon DEF Error, Watch, Resync, ReturnError, object, handler
<1>3. CASE Disturbance
  BY <1>3, Zenon DEF Disturbance, SetReady, AddOtherTaint, RemoveOtherTaint, DeleteNode, SetVM,
       PlugVolume, Restart, WriteNode, object, informer
<1>4. CASE UNCHANGED vars
  BY <1>4, Zenon DEF vars, informer, handler
<1> QED
  BY <1>1, <1>2, <1>3, <1>4 DEF Next

\* The invariant holds initially.
LEMMA NodeInit == Init => NodeInv
<1> SUFFICES ASSUME Init PROVE NodeInv
  OBVIOUS
<1>1. <<>> \in Seq(Taints)
  OBVIOUS
<1>2. PICK r \in {"True", "missing"} : node = Node(r, <<>>, FALSE)
  BY DEF Init
<1>3. node \in Nodes /\ node.ready # "notTrue"
  BY <1>1, <1>2, NodeType DEF Conditions
<1>4. Flags
  BY Zenon DEF Init, Flags
<1>5. Fields
  BY <1>3 DEF Init, Fields
<1>6. Fresh /\ TaintInv
  BY <1>3 DEF Init, Fresh, TaintInv, StaysTainted
<1> QED
  BY <1>4, <1>5, <1>6 DEF NodeInv, TypeOK, Flags, Fields

\* It survives a write of the node by others that leaves the taint.
LEMMA NodeWritten ==
  ASSUME Fields, Fresh, TaintInv,
         NEW r \in Conditions, NEW t \in Seq(Taints), NEW d \in BOOLEAN,
         WriteNode(r, t, d), Tainted(node) => NoExecute \in ToSet(t)
  PROVE  Fields' /\ Fresh' /\ TaintInv'
<1>1. node' \in Nodes /\ node'.taints = t
  BY NodeType DEF WriteNode
<1>2. Fields'
  BY <1>1 DEF Fields, WriteNode
<1>3. Fresh'
  BY DEF Fresh, WriteNode
<1>4. TaintInv'
  BY <1>1 DEF TaintInv, StaysTainted, Tainted, WriteNode
<1> QED
  BY <1>2, <1>3, <1>4

\* It survives whatever others write to the node.
LEMMA WritersKeep ==
  ASSUME Fields, Fresh, TaintInv,
         SetReady \/ AddOtherTaint \/ RemoveOtherTaint \/ DeleteNode
  PROVE  Fields' /\ Fresh' /\ TaintInv'
<1>1. /\ node.ready \in Conditions /\ node.taints \in Seq(Taints)
      /\ node.deleting \in BOOLEAN
  BY NodeFields DEF Fields
<1>2. CASE SetReady
  <2>1. PICK r \in Conditions : WriteNode(r, node.taints, node.deleting)
    BY <1>2 DEF SetReady, Conditions
  <2> QED
    BY <1>1, <2>1, NodeWritten DEF Tainted
<1>3. CASE AddOtherTaint
  <2>1. PICK t \in Taints : WriteNode(node.ready, Append(node.taints, t), node.deleting)
    BY <1>3, NodeControllerAssumption DEF AddOtherTaint, Taints
  <2>2. /\ Append(node.taints, t) \in Seq(Taints)
        /\ ToSet(Append(node.taints, t)) = ToSet(node.taints) \cup {t}
    BY <1>1, AppendMembers
  <2> QED
    BY <1>1, <2>1, <2>2, NodeWritten DEF Tainted
<1>4. CASE RemoveOtherTaint
  <2>1. PICK i \in 1..Len(node.taints) :
          /\ node.taints[i] \in OtherTaints
          /\ WriteNode(node.ready, RemoveAt(node.taints, i), node.deleting)
    BY <1>4 DEF RemoveOtherTaint
  <2>2. /\ RemoveAt(node.taints, i) \in Seq(Taints)
        /\ ToSet(node.taints) \ {node.taints[i]} \subseteq ToSet(RemoveAt(node.taints, i))
    BY <1>1, RemoveAtMembers
  <2>3. node.taints[i] # NoExecute
    BY <2>1, NodeControllerAssumption DEF OutOfService
  <2> QED
    BY <1>1, <2>1, <2>2, <2>3, NodeWritten DEF Tainted
<1>5. CASE DeleteNode
  BY <1>1, <1>5, NodeWritten DEF DeleteNode, Tainted
<1> QED
  BY <1>2, <1>3, <1>4, <1>5

\* It survives addTaint and removeTaint, which leave the taints of others: the
\* API server takes the update only from the latest copy.
LEMMA UpdatesKeep ==
  ASSUME Fields, Fresh, TaintInv, RemoveTaint \/ AddTaint
  PROVE  /\ Fields' /\ Fresh' /\ TaintInv'
         /\ Others(node'.taints) = Others(node.taints)
<1>1. current /\ mine = node /\ cache = node
  BY DEF RemoveTaint, AddTaint, Update, Fresh
<1>2. /\ mine.ready \in Conditions /\ mine.taints \in Seq(Taints)
      /\ mine.deleting \in BOOLEAN
  BY NodeFields DEF Fields
<1>3. PICK t \in Seq(Taints) :
        /\ node' = Node(mine.ready, t, mine.deleting)
        /\ Others(t) = Others(mine.taints)
        /\ mine.ready = "True" \/ (Tainted(node) => NoExecute \in ToSet(t))
  <2>1. CASE RemoveTaint
    <3>1. /\ Others(mine.taints) \in Seq(Taints)
          /\ Others(Others(mine.taints)) = Others(mine.taints)
      BY <1>2, OthersKept
    <3>2. /\ mine.ready = "True"
          /\ node' = Node(mine.ready, Others(mine.taints), mine.deleting)
      BY <2>1 DEF RemoveTaint, Update, TaintInv
    <3> QED
      BY <3>1, <3>2
  <2>2. CASE AddTaint
    <3>1. NoExecute \in Taints /\ ~IsOther(NoExecute)
      BY DEF Taints, OutOfService, IsOther
    <3>2. /\ Append(mine.taints, NoExecute) \in Seq(Taints)
          /\ NoExecute \in ToSet(Append(mine.taints, NoExecute))
      BY <1>2, <3>1, AppendMembers
    <3>3. Others(Append(mine.taints, NoExecute)) = Others(mine.taints)
      BY <1>2, <3>1, OthersAppend
    <3>4. node' = Node(mine.ready, Append(mine.taints, NoExecute), mine.deleting)
      BY <2>2 DEF AddTaint, Update
    <3> QED
      BY <3>2, <3>3, <3>4
  <2> QED
    BY <2>1, <2>2
<1>4. node' \in Nodes /\ node'.taints = t /\ node'.ready = mine.ready
  BY <1>2, <1>3, NodeType
<1>5. /\ pc' = "idle" /\ names' = {} /\ cache' = cache /\ mine' = mine
      /\ vm' = vm /\ plugged' = plugged
  BY DEF RemoveTaint, AddTaint, Update, Return
<1>6. ~synced' /\ ~current'
  BY Zenon DEF RemoveTaint, AddTaint, Update
<1>7. Fields'
  BY <1>4, <1>5 DEF Fields
<1>8. Fresh'
  BY <1>6 DEF Fresh
<1>9. TaintInv'
  BY <1>1, <1>3, <1>4, <1>5 DEF TaintInv, StaysTainted, Tainted
<1> QED
  BY <1>1, <1>3, <1>4, <1>7, <1>8, <1>9

\* It survives the steps of the handler that do not write the node.
LEMMA HandlerKeeps ==
  ASSUME Fields, Fresh, TaintInv,
         \/ OnNodesChange \/ HandleNodeAndVMHealth
         \/ RefetchVM \/ RemoveByPatch \/ RemoveBySubresource \/ Error
  PROVE  Fields' /\ Fresh' /\ TaintInv' /\ node' = node
<1>1. CASE OnNodesChange
  <2>1. Fields' /\ node' = node
    BY <1>1 DEF OnNodesChange, Fields, object
  <2>2. Fresh'
    <3>1. cache' = cache /\ mine' = cache /\ (synced' <=> synced) /\ (current' <=> synced)
      BY <1>1, Zenon DEF OnNodesChange
    <3> QED
      BY <2>1, <3>1 DEF Fresh
  <2>3. TaintInv'
    BY <1>1, <2>1 DEF OnNodesChange, TaintInv, StaysTainted, Tainted, object
  <2> QED
    BY <2>1, <2>2, <2>3
<1>2. CASE HandleNodeAndVMHealth
  <2>1. Fields' /\ node' = node
    BY <1>2 DEF HandleNodeAndVMHealth, Return, ReturnError, Fields, object
  <2>2. Fresh'
    BY <1>2 DEF HandleNodeAndVMHealth, Fresh, object
  <2>3. mine.ready \in Conditions /\ mine.taints \in Seq(Taints)
    BY NodeFields DEF Fields
  <2>4. TaHasNoExecute(mine.taints) => Tainted(mine)
    BY <2>3, SeesTaint DEF Tainted
  <2>5. \/ pc' \in {"idle", "addTaint"}
        \/ pc' = "removeTaint" /\ mine.ready = "True"
        \/ pc' = "refetch" /\ mine.ready = "notTrue" /\ Tainted(mine)
    BY <1>2, <2>3, <2>4 DEF HandleNodeAndVMHealth, Return, ReturnError, Conditions
  <2>6. pc = "health" /\ cache' = cache /\ mine' = mine
    BY <1>2 DEF HandleNodeAndVMHealth
  <2>7. TaintInv'
    BY <2>1, <2>5, <2>6 DEF TaintInv, StaysTainted, Tainted
  <2> QED
    BY <2>1, <2>2, <2>7
<1>3. CASE RefetchVM
  BY <1>3 DEF RefetchVM, Return, Fields, Fresh, TaintInv, StaysTainted, Tainted, object
<1>4. CASE RemoveByPatch
  BY <1>4 DEF RemoveByPatch, Return, Fields, Fresh, TaintInv, StaysTainted, Tainted
<1>5. CASE RemoveBySubresource
  BY <1>5 DEF RemoveBySubresource, Return, Fields, Fresh, TaintInv, StaysTainted, Tainted
<1>6. CASE Error
  BY <1>6 DEF Error, ReturnError, Fields, Fresh, TaintInv, StaysTainted, Tainted, object
<1> QED
  BY <1>1, <1>2, <1>3, <1>4, <1>5, <1>6

\* It survives what happens to the VM, the informer and the driver.
LEMMA SurroundingsKeep ==
  ASSUME Fields, Fresh, TaintInv,
         SetVM \/ PlugVolume \/ Watch \/ Resync \/ Restart \/ UNCHANGED vars
  PROVE  Fields' /\ Fresh' /\ TaintInv' /\ node' = node
<1> USE DEF Fields, Fresh, TaintInv, StaysTainted, Tainted
<1>1. CASE SetVM
  BY <1>1 DEF SetVM, informer
<1>2. CASE PlugVolume
  BY <1>2 DEF PlugVolume, informer
<1>3. CASE Watch
  BY <1>3 DEF Watch, object, handler
<1>4. CASE Resync
  BY <1>4 DEF Resync, object, handler
<1>5. CASE Restart
  BY <1>5 DEF Restart, object
<1>6. CASE UNCHANGED vars
  BY <1>6 DEF vars, object, informer, handler
<1> QED
  BY <1>1, <1>2, <1>3, <1>4, <1>5, <1>6

\* Every step keeps the invariant, and every step of the handler the taints of
\* others.
LEMMA NodeStep == NodeInv /\ [Next]_vars => NodeInv' /\ KeepsOtherTaints
<1> SUFFICES ASSUME NodeInv, [Next]_vars
             PROVE  NodeInv' /\ KeepsOtherTaints
  OBVIOUS
<1>0. Flags /\ Fields /\ Fresh /\ TaintInv
  BY DEF NodeInv, TypeOK, Flags, Fields
<1>1. Flags'
  BY <1>0, FlagsStep
<1>2. Fields' /\ Fresh' /\ TaintInv' /\ KeepsOtherTaints
  <2>1. CASE RemoveTaint \/ AddTaint
    BY <1>0, <2>1, UpdatesKeep DEF KeepsOtherTaints
  <2>2. CASE \/ OnNodesChange \/ HandleNodeAndVMHealth
             \/ RefetchVM \/ RemoveByPatch \/ RemoveBySubresource \/ Error
    BY <1>0, <2>2, HandlerKeeps DEF KeepsOtherTaints
  <2>3. CASE SetReady \/ AddOtherTaint \/ RemoveOtherTaint \/ DeleteNode
    <3>1. pc' = pc
      BY <2>3 DEF SetReady, AddOtherTaint, RemoveOtherTaint, DeleteNode, WriteNode
    <3> QED
      BY <1>0, <2>3, <3>1, WritersKeep DEF KeepsOtherTaints
  <2>4. CASE SetVM \/ PlugVolume \/ Watch \/ Resync \/ Restart \/ UNCHANGED vars
    BY <1>0, <2>4, SurroundingsKeep DEF KeepsOtherTaints
  <2> QED
    BY <2>1, <2>2, <2>3, <2>4 DEF Next, HandlerStep, Disturbance
<1> QED
  BY <1>1, <1>2 DEF NodeInv, TypeOK, Flags, Fields

\* The invariant holds in every behaviour.
LEMMA NodeInvariant == Spec => []NodeInv
<1>1. NodeInv /\ [Next]_vars => NodeInv'
  BY NodeStep
<1> QED
  BY <1>1, NodeInit, PTL DEF Spec

\* The controller's variables have their types.
THEOREM NodeTypes == Spec => []TypeOK
<1>1. NodeInv => TypeOK
  BY DEF NodeInv
<1> QED
  BY <1>1, NodeInvariant, PTL

\* removeAllHotplugVolumes works only on a node that is out of service, for
\* every set of volumes and taints.
THEOREM OutOfServiceFirst == Spec => []TaintedBeforeRemoval
<1>1. NodeInv => TaintedBeforeRemoval
  BY DEF NodeInv, TaintInv, TaintedBeforeRemoval, Tainted
<1> QED
  BY <1>1, NodeInvariant, PTL

\* addTaint and removeTaint leave the taints of others as they are, in their
\* order, although they write a list that was read from a cache.
THEOREM OthersTaintsSafe == Spec => OtherTaintsKept
<1>1. NodeInv /\ [Next]_vars => [KeepsOtherTaints]_vars
  BY NodeStep
<1> QED
  BY <1>1, NodeInvariant, PTL DEF Spec, OtherTaintsKept

\* removeTaint takes from the node itself, not only from the cached copy, every
\* taint with the out-of-service key and nothing else.
THEOREM TaintsCleared ==
  Spec => [][RemoveTaint => ToSet(node'.taints) = ToSet(node.taints) \ OutOfService]_vars
<1>1. ASSUME NodeInv, RemoveTaint
      PROVE  ToSet(node'.taints) = ToSet(node.taints) \ OutOfService
  <2>1. mine = node
    BY <1>1 DEF NodeInv, Fresh, RemoveTaint, Update
  <2>2. node.taints \in Seq(Taints)
    BY <1>1, NodeFields DEF NodeInv, TypeOK
  <2>3. node'.taints = Others(node.taints)
    BY <1>1, <2>1 DEF RemoveTaint, Update, Node
  <2> QED
    BY <2>2, <2>3, OthersKept
<1> QED
  BY <1>1, NodeInvariant, PTL DEF Spec
=============================================================================
