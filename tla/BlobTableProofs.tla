--------------------------- MODULE BlobTableProofs ---------------------------
(***************************************************************************)
(* What the bookkeeping operators of BlobTable do to the reference counts, *)
(* for every set of paths and hashes.  Each lemma compares a table with a  *)
(* recount of the tree.                                                    *)
(***************************************************************************)
EXTENDS BlobTable, FiniteSetTheorems, TLAPS

\* The counts never exceed a recount (treeutil.go).
Bounded(bt, tree) == \A h \in Hash : bt.refs[h] <= Cardinality(RefsTo(tree, h))

\* The counts equal a recount.
Exact(bt, tree) == \A h \in Hash : bt.refs[h] = Cardinality(RefsTo(tree, h))

-----------------------------------------------------------------------------

\* Every recount is a natural number, and so is the count of any part of it.
LEMMA RefsFinite ==
    ASSUME NEW tree, NEW h
    PROVE  /\ IsFiniteSet(RefsTo(tree, h))
           /\ Cardinality(RefsTo(tree, h)) \in Nat
           /\ \A S : /\ IsFiniteSet(S \cap RefsTo(tree, h))
                     /\ Cardinality(S \cap RefsTo(tree, h)) \in Nat
                     /\ Cardinality(S \cap RefsTo(tree, h)) <= Cardinality(RefsTo(tree, h))
  <1>1. RefsTo(tree, h) \subseteq Path
    BY DEF RefsTo
  <1>2. IsFiniteSet(RefsTo(tree, h))
    BY <1>1, FS_Subset, BlobAssumption
  <1>3. ASSUME NEW S PROVE IsFiniteSet(S \cap RefsTo(tree, h))
                           /\ Cardinality(S \cap RefsTo(tree, h)) <= Cardinality(RefsTo(tree, h))
    <2>1. S \cap RefsTo(tree, h) \in SUBSET RefsTo(tree, h)
      OBVIOUS
    <2>2. QED
      BY <2>1, <1>2, FS_Subset
  <1>4. QED
    BY <1>2, <1>3, FS_CardinalityType

\* The guarded decrement never leaves the naturals (the RefCount > 0 tests).
LEMMA MinusProps ==
    ASSUME NEW n \in Nat, NEW k \in Nat
    PROVE  /\ Minus(n, k) \in Nat
           /\ \A m \in Nat : n <= m /\ k <= m => Minus(n, k) <= m - k
           /\ k <= n => Minus(n, k) = n - k
  BY DEF Minus

\* decrementBlobRefs keeps a table a table, touches no listing, and follows
\* the removal of the files of S from the tree.
LEMMA DecrementFollowsRemoval ==
    ASSUME NEW tree \in Trees, NEW bt \in Tables, NEW S \in SUBSET Path,
           NEW after \in Trees,
           after = [p \in Path |-> IF p \in S THEN Absent ELSE tree[p]]
    PROVE  LET dec == DecrementBlobRefs(bt, tree, S)
           IN  /\ dec \in Tables
               /\ dec.listed = bt.listed
               /\ Bounded(bt, tree) => Bounded(dec, after)
               /\ Bounded(bt, tree) => Bounded(dec, tree)
               /\ Exact(bt, tree) => Exact(dec, after)
  <1> DEFINE dec == DecrementBlobRefs(bt, tree, S)
             Gone(h) == Cardinality(S \cap RefsTo(tree, h))
  <1>0. bt = [listed |-> bt.listed, refs |-> bt.refs] /\ bt.refs \in [Hash -> Nat]
    BY DEF Tables
  <1>1. /\ dec.listed = bt.listed
        /\ \A h \in Hash : dec.refs[h] = Minus(bt.refs[h], Gone(h))
        /\ dec = [listed |-> bt.listed, refs |-> [h \in Hash |-> Minus(bt.refs[h], Gone(h))]]
    <2> DEFINE less == [h \in Hash |-> Minus(bt.refs[h], Gone(h))]
    <2>1. dec = [bt EXCEPT !.refs = less]
      BY DEF DecrementBlobRefs
    <2>2. \A h \in Hash : less[h] = Minus(bt.refs[h], Gone(h))
      OBVIOUS
    <2> HIDE DEF less, dec, Gone
    <2>3. dec = [listed |-> bt.listed, refs |-> less]
      BY <2>1, <1>0
    <2>4. QED
      BY <2>2, <2>3 DEF less
  <1>2. \A h \in Hash : bt.refs[h] \in Nat /\ Gone(h) \in Nat
    BY RefsFinite DEF Tables
  <1>3. dec \in Tables
    <2>1. \A h \in Hash : Minus(bt.refs[h], Gone(h)) \in Nat
      BY <1>2, MinusProps
    <2>2. bt.listed \in SUBSET Hash
      BY DEF Tables
    <2> HIDE DEF dec, Gone
    <2>3. QED
      BY <1>1, <2>1, <2>2 DEF Tables
  <1>4. ASSUME NEW h \in Hash
        PROVE  /\ Cardinality(RefsTo(after, h)) = Cardinality(RefsTo(tree, h)) - Gone(h)
               /\ Gone(h) <= Cardinality(RefsTo(tree, h))
               /\ Cardinality(RefsTo(tree, h)) \in Nat
    <2>1. RefsTo(after, h) = RefsTo(tree, h) \ S
      BY BlobAssumption DEF RefsTo, Trees
    <2>2. RefsTo(tree, h) \cap S = S \cap RefsTo(tree, h)
      OBVIOUS
    <2>3. Cardinality(RefsTo(tree, h) \ S) = Cardinality(RefsTo(tree, h)) - Gone(h)
      BY <2>2, RefsFinite, FS_Difference
    <2>4. QED
      BY <2>1, <2>3, RefsFinite
  <1> HIDE DEF dec, Gone
  <1>5. ASSUME Bounded(bt, tree), NEW h \in Hash
        PROVE  /\ dec.refs[h] <= Cardinality(RefsTo(after, h))
               /\ dec.refs[h] <= Cardinality(RefsTo(tree, h))
    <2>1. bt.refs[h] <= Cardinality(RefsTo(tree, h))
      BY <1>5 DEF Bounded
    <2>2. Minus(bt.refs[h], Gone(h)) <= Cardinality(RefsTo(tree, h)) - Gone(h)
      BY <2>1, <1>2, <1>4, MinusProps
    <2>3. Minus(bt.refs[h], Gone(h)) \in Nat
      BY <1>2, MinusProps
    <2>4. QED
      BY <2>2, <2>3, <1>1, <1>2, <1>4
  <1>6. ASSUME Exact(bt, tree), NEW h \in Hash
        PROVE  dec.refs[h] = Cardinality(RefsTo(after, h))
    <2>1. bt.refs[h] = Cardinality(RefsTo(tree, h))
      BY <1>6 DEF Exact
    <2>2. Minus(bt.refs[h], Gone(h)) = bt.refs[h] - Gone(h)
      BY <2>1, <1>2, <1>4, MinusProps
    <2>3. QED
      BY <2>1, <2>2, <1>1, <1>4
  <1>7. QED
    BY <1>1, <1>3, <1>5, <1>6 DEF Bounded, Exact, dec

\* The recount after one path takes new content.
LEMMA RecountAfterWrite ==
    ASSUME NEW tree \in Trees, NEW p \in Path, NEW c \in Hash, tree[p] # c, NEW h \in Hash
    PROVE  LET after == [tree EXCEPT ![p] = c]
           IN  /\ Cardinality(RefsTo(tree, h)) \in Nat
               /\ h = c => Cardinality(RefsTo(after, h)) = Cardinality(RefsTo(tree, h)) + 1
               /\ h = tree[p] => Cardinality(RefsTo(after, h)) = Cardinality(RefsTo(tree, h)) - 1
               /\ h # c /\ h # tree[p] => RefsTo(after, h) = RefsTo(tree, h)
  <1> DEFINE after == [tree EXCEPT ![p] = c]
  <1>1. IsFiniteSet(RefsTo(tree, h)) /\ Cardinality(RefsTo(tree, h)) \in Nat
    BY RefsFinite
  <1>2. CASE h = c
    <2>1. RefsTo(after, h) = RefsTo(tree, h) \cup {p} /\ p \notin RefsTo(tree, h)
      BY <1>2 DEF RefsTo, Trees
    <2>2. QED
      BY <2>1, <1>1, <1>2, FS_AddElement
  <1>3. CASE h = tree[p]
    <2>1. RefsTo(after, h) = RefsTo(tree, h) \ {p} /\ p \in RefsTo(tree, h)
      BY <1>3 DEF RefsTo, Trees
    <2>2. QED
      BY <2>1, <1>1, <1>3, FS_RemoveElement
  <1>4. CASE h # c /\ h # tree[p]
    BY <1>4, <1>1 DEF RefsTo, Trees
  <1>5. QED
    BY <1>2, <1>3, <1>4

\* addBlob keeps a table a table, lists the new content, forgets none, and
\* follows the write of the tree.
LEMMA AddBlobFollowsWrite ==
    ASSUME NEW tree \in Trees, NEW bt \in Tables, NEW p \in Path, NEW c \in Hash,
           Needed(tree) \subseteq bt.listed
    PROVE  LET add   == AddBlob(bt, tree[p], c)
               after == [tree EXCEPT ![p] = c]
           IN  /\ add \in Tables
               /\ add.listed = bt.listed \cup {c}
               /\ Bounded(bt, tree) => Bounded(add, after)
               /\ Exact(bt, tree) => Exact(add, after)
  <1> DEFINE add   == AddBlob(bt, tree[p], c)
             after == [tree EXCEPT ![p] = c]
             given == [h \in Hash |-> IF h = tree[p] THEN Minus(bt.refs[h], 1) ELSE bt.refs[h]]
             count == IF c \in bt.listed THEN given[c] + 1 ELSE 1
  <1>1. CASE tree[p] = c
    <2>1. c \in Needed(tree)
      BY <1>1 DEF Needed, RefsTo
    <2>2. add = bt /\ after = tree
      BY <1>1 DEF AddBlob, Trees
    <2>3. QED
      BY <2>1, <2>2
  <1>2. CASE tree[p] # c
    <2>1. \A h \in Hash : bt.refs[h] \in Nat /\ given[h] \in Nat
      BY MinusProps DEF Tables
    <2>2. /\ add.listed = bt.listed \cup {c}
          /\ add.refs = [given EXCEPT ![c] = IF c \in bt.listed THEN @ + 1 ELSE 1]
          /\ add = [listed |-> add.listed, refs |-> add.refs]
      BY <1>2 DEF AddBlob
    <2>3. add.refs = [h \in Hash |-> IF h = c THEN count ELSE given[h]]
      BY <2>2
    <2>4. /\ c \notin bt.listed => Cardinality(RefsTo(tree, c)) = 0
          /\ given[c] = bt.refs[c]
      <3>1. c \notin bt.listed => RefsTo(tree, c) = {}
        BY DEF Needed
      <3>2. QED
        BY <3>1, <1>2, FS_EmptySet
    <2>5. add \in Tables
      <3>1. count \in Nat
        BY <2>1
      <3>2. bt.listed \in SUBSET Hash
        BY DEF Tables
      <3> HIDE DEF add, given, count
      <3>3. QED
        BY <2>1, <2>2, <2>3, <3>1, <3>2 DEF Tables
    <2>6. ASSUME NEW h \in Hash, bt.refs[h] <= Cardinality(RefsTo(tree, h))
          PROVE  add.refs[h] <= Cardinality(RefsTo(after, h))
      <3>1. /\ Cardinality(RefsTo(tree, h)) \in Nat
            /\ h = c => Cardinality(RefsTo(after, h)) = Cardinality(RefsTo(tree, h)) + 1
            /\ h = tree[p] => Cardinality(RefsTo(after, h)) = Cardinality(RefsTo(tree, h)) - 1
            /\ h # c /\ h # tree[p] => RefsTo(after, h) = RefsTo(tree, h)
        BY <1>2, RecountAfterWrite
      <3>2. add.refs[h] = IF h = c THEN count ELSE given[h]
        BY <2>3
      <3>3. CASE h = c
        BY <3>1, <3>2, <3>3, <2>1, <2>4, <2>6
      <3>4. CASE h = tree[p]
        <4>1. Cardinality(RefsTo(tree, h)) >= 1
          <5>1. p \in RefsTo(tree, h)
            BY <3>4 DEF RefsTo
          <5>2. Cardinality(RefsTo(tree, h)) # 0
            BY <5>1, RefsFinite, FS_EmptySet
          <5>3. QED
            BY <5>2, <3>1
        <4>2. Minus(bt.refs[h], 1) <= Cardinality(RefsTo(tree, h)) - 1
          BY <4>1, <3>1, <2>1, <2>6, MinusProps
        <4>3. QED
          BY <4>2, <3>1, <3>2, <3>4, <1>2
      <3>5. CASE h # c /\ h # tree[p]
        BY <3>1, <3>2, <3>5, <2>6
      <3>6. QED
        BY <3>3, <3>4, <3>5
    <2>7. ASSUME NEW h \in Hash, bt.refs[h] = Cardinality(RefsTo(tree, h))
          PROVE  add.refs[h] = Cardinality(RefsTo(after, h))
      <3>1. /\ Cardinality(RefsTo(tree, h)) \in Nat
            /\ h = c => Cardinality(RefsTo(after, h)) = Cardinality(RefsTo(tree, h)) + 1
            /\ h = tree[p] => Cardinality(RefsTo(after, h)) = Cardinality(RefsTo(tree, h)) - 1
            /\ h # c /\ h # tree[p] => RefsTo(after, h) = RefsTo(tree, h)
        BY <1>2, RecountAfterWrite
      <3>2. add.refs[h] = IF h = c THEN count ELSE given[h]
        BY <2>3
      <3>3. CASE h = c
        BY <3>1, <3>2, <3>3, <2>1, <2>4, <2>7
      <3>4. CASE h = tree[p]
        <4>1. Cardinality(RefsTo(tree, h)) >= 1
          <5>1. p \in RefsTo(tree, h)
            BY <3>4 DEF RefsTo
          <5>2. Cardinality(RefsTo(tree, h)) # 0
            BY <5>1, RefsFinite, FS_EmptySet
          <5>3. QED
            BY <5>2, <3>1
        <4>2. Minus(bt.refs[h], 1) = Cardinality(RefsTo(tree, h)) - 1
          BY <4>1, <3>1, <2>1, <2>7, MinusProps
        <4>3. QED
          BY <4>2, <3>1, <3>2, <3>4, <1>2
      <3>5. CASE h # c /\ h # tree[p]
        BY <3>1, <3>2, <3>5, <2>7
      <3>6. QED
        BY <3>3, <3>4, <3>5
    <2> HIDE DEF add, after
    <2>8. /\ Bounded(bt, tree) => Bounded(add, after)
          /\ Exact(bt, tree) => Exact(add, after)
      BY <2>6, <2>7 DEF Bounded, Exact
    <2>9. QED
      BY <2>2, <2>5, <2>8 DEF add, after
  <1>3. QED
    BY <1>1, <1>2

\* The tree left by a removal needs nothing new.
LEMMA NeededAfterRemoval ==
    ASSUME NEW tree \in Trees, NEW S,
           NEW after, after = [p \in Path |-> IF p \in S THEN Absent ELSE tree[p]]
    PROVE  after \in Trees /\ Needed(after) \subseteq Needed(tree)
  <1>1. after \in Trees
    BY DEF Trees
  <1>2. \A h \in Hash : RefsTo(after, h) \subseteq RefsTo(tree, h)
    BY BlobAssumption DEF RefsTo
  <1>3. QED
    BY <1>1, <1>2 DEF Needed

\* A write needs at most the new content besides what was needed.
LEMMA NeededAfterWrite ==
    ASSUME NEW tree \in Trees, NEW p \in Path, NEW c \in Hash
    PROVE  LET after == [tree EXCEPT ![p] = c]
           IN  after \in Trees /\ Needed(after) \subseteq Needed(tree) \cup {c}
  <1> DEFINE after == [tree EXCEPT ![p] = c]
  <1>1. after \in Trees
    BY DEF Trees
  <1>2. \A h \in Hash \ {c} : RefsTo(after, h) \subseteq RefsTo(tree, h)
    BY DEF RefsTo, Trees
  <1>3. QED
    BY <1>1, <1>2 DEF Needed

\* RebuildBlobTable gives a table that is exact whatever was counted before.
LEMMA RebuiltExact ==
    ASSUME NEW tree \in Trees
    PROVE  Rebuilt(tree) \in Tables /\ Exact(Rebuilt(tree), tree)
  BY RefsFinite DEF Rebuilt, Tables, Exact, Needed

-----------------------------------------------------------------------------
(* Several removals.                                                         *)

\* The tree without the files of S.
TreeWithout(tree, S) == [p \in Path |-> IF p \in S THEN Absent ELSE tree[p]]

LEMMA MinusComposes ==
    ASSUME NEW n \in Nat, NEW j \in Nat, NEW k \in Nat
    PROVE  Minus(Minus(n, j), k) = Minus(n, j + k)
  BY DEF Minus

\* What decrementBlobRefs returns, field by field.
LEMMA DecrementIs ==
    ASSUME NEW bt \in Tables, NEW tree, NEW S
    PROVE  /\ DecrementBlobRefs(bt, tree, S) =
                [listed |-> bt.listed,
                 refs   |-> [h \in Hash |-> Minus(bt.refs[h], Cardinality(S \cap RefsTo(tree, h)))]]
           /\ DecrementBlobRefs(bt, tree, S) \in Tables
  <1> DEFINE less == [h \in Hash |-> Minus(bt.refs[h], Cardinality(S \cap RefsTo(tree, h)))]
  <1>1. bt = [listed |-> bt.listed, refs |-> bt.refs] /\ bt.listed \in SUBSET Hash
        /\ bt.refs \in [Hash -> Nat]
    BY DEF Tables
  <1>2. DecrementBlobRefs(bt, tree, S) = [bt EXCEPT !.refs = less]
    BY DEF DecrementBlobRefs
  <1>3. less \in [Hash -> Nat]
    BY <1>1, RefsFinite, MinusProps
  <1> HIDE DEF less
  <1>4. [bt EXCEPT !.refs = less] = [listed |-> bt.listed, refs |-> less]
    BY <1>1
  <1>5. [listed |-> bt.listed, refs |-> less] \in Tables
    BY <1>1, <1>3 DEF Tables
  <1>6. QED
    BY <1>2, <1>4, <1>5 DEF less

\* Removals one after the other, of sets that may overlap or contain one
\* another, leave the table that one removal of all their files leaves, exact
\* counts or not: neither the order of the removals nor how finely they are
\* cut up matters, and nothing is given up twice (removeIfExists and
\* removeMatchingChildren on the same tree, treeutil.go).
THEOREM RemovalsCompose ==
    ASSUME NEW tree \in Trees, NEW bt \in Tables, NEW A \in SUBSET Path, NEW B \in SUBSET Path
    PROVE  /\ DecrementBlobRefs(DecrementBlobRefs(bt, tree, A), TreeWithout(tree, A), B)
                = DecrementBlobRefs(bt, tree, A \cup B)
           /\ TreeWithout(TreeWithout(tree, A), B) = TreeWithout(tree, A \cup B)
  <1> DEFINE first == DecrementBlobRefs(bt, tree, A)
             after == TreeWithout(tree, A)
             Count(S, t, h) == Cardinality(S \cap RefsTo(t, h))
  <1>1. /\ first.listed = bt.listed /\ first \in Tables
        /\ \A h \in Hash : first.refs[h] = Minus(bt.refs[h], Count(A, tree, h))
    <2>1. /\ first = [listed |-> bt.listed,
                      refs   |-> [h \in Hash |-> Minus(bt.refs[h], Count(A, tree, h))]]
          /\ first \in Tables
      BY DecrementIs
    <2> HIDE DEF first, Count
    <2>2. QED
      BY <2>1
  <1>2. ASSUME NEW h \in Hash
        PROVE  /\ Count(A, tree, h) \in Nat /\ Count(B, after, h) \in Nat
               /\ Count(A \cup B, tree, h) = Count(A, tree, h) + Count(B, after, h)
    <2> DEFINE gone == A \cap RefsTo(tree, h)
               rest == B \cap RefsTo(after, h)
    <2>1. RefsTo(after, h) = RefsTo(tree, h) \ A
      BY BlobAssumption DEF RefsTo, TreeWithout, Trees
    <2>2. gone \cap rest = {} /\ gone \cup rest = (A \cup B) \cap RefsTo(tree, h)
      BY <2>1
    <2>3. /\ IsFiniteSet(gone) /\ Cardinality(gone) \in Nat
          /\ IsFiniteSet(rest) /\ Cardinality(rest) \in Nat
      BY RefsFinite
    <2> HIDE DEF gone, rest, after
    <2>4. Cardinality(gone \cup rest) = Cardinality(gone) + Cardinality(rest) - Cardinality(gone \cap rest)
      BY <2>3, FS_Union
    <2>5. Cardinality(gone \cap rest) = 0
      BY <2>2, FS_EmptySet
    <2>6. Cardinality(gone \cup rest) = Cardinality(gone) + Cardinality(rest)
      BY <2>3, <2>4, <2>5
    <2>7. QED
      BY <2>2, <2>3, <2>6 DEF gone, rest
  <1>3. ASSUME NEW h \in Hash
        PROVE  Minus(first.refs[h], Count(B, after, h)) = Minus(bt.refs[h], Count(A \cup B, tree, h))
    <2>1. bt.refs[h] \in Nat
      BY DEF Tables
    <2> HIDE DEF first, after, Count
    <2>2. first.refs[h] = Minus(bt.refs[h], Count(A, tree, h))
      BY <1>1
    <2>3. /\ Count(A, tree, h) \in Nat /\ Count(B, after, h) \in Nat
          /\ Count(A \cup B, tree, h) = Count(A, tree, h) + Count(B, after, h)
      BY <1>2
    <2>4. Minus(Minus(bt.refs[h], Count(A, tree, h)), Count(B, after, h))
            = Minus(bt.refs[h], Count(A, tree, h) + Count(B, after, h))
      BY <2>1, <2>3, MinusComposes
    <2>5. QED
      BY <2>2, <2>3, <2>4
  <1>4. DecrementBlobRefs(first, after, B) = DecrementBlobRefs(bt, tree, A \cup B)
    <2>1. DecrementBlobRefs(first, after, B) =
            [listed |-> first.listed, refs |-> [h \in Hash |-> Minus(first.refs[h], Count(B, after, h))]]
      BY <1>1, DecrementIs
    <2>2. DecrementBlobRefs(bt, tree, A \cup B) =
            [listed |-> bt.listed, refs |-> [h \in Hash |-> Minus(bt.refs[h], Count(A \cup B, tree, h))]]
      BY DecrementIs
    <2>3. [h \in Hash |-> Minus(first.refs[h], Count(B, after, h))]
            = [h \in Hash |-> Minus(bt.refs[h], Count(A \cup B, tree, h))]
      <3> HIDE DEF first, after, Count
      <3>1. QED
        BY <1>3
    <2> HIDE DEF first, after, Count
    <2>4. QED
      BY <1>1, <2>1, <2>2, <2>3
  <1>5. TreeWithout(after, B) = TreeWithout(tree, A \cup B)
    BY DEF TreeWithout
  <1>6. QED
    BY <1>4, <1>5

=============================================================================
