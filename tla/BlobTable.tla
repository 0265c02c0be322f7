----------------------------- MODULE BlobTable -----------------------------
(***************************************************************************)
(* The blob table of a WIM image as nano11 keeps it while it edits the     *)
(* image's file tree (treeutil.go).  A tree maps each path to the hash of  *)
(* its content; a table records which hashes are listed and the reference  *)
(* count the edits maintain for each.  The operators below are the pure    *)
(* bookkeeping that every editing step of the program shares.              *)
(***************************************************************************)
EXTENDS Integers, FiniteSets

CONSTANTS
    Path,    \* the files an image may hold
    Hash,    \* SHA-1 hashes of non-empty content
    Zero,    \* the all-zero hash: an empty file, it has no blob
    Absent   \* no file at this path

ASSUME BlobAssumption ==
    /\ IsFiniteSet(Path)
    /\ Zero \notin Hash /\ Absent \notin Hash /\ Zero # Absent

Trees == [Path -> Hash \cup {Zero, Absent}]

Tables == [listed : SUBSET Hash, refs : [Hash -> Nat]]

RefsTo(tree, h) == {p \in Path : tree[p] = h}

\* The hashes a tree needs a blob for.
Needed(tree) == {h \in Hash : RefsTo(tree, h) # {}}

\* decrementBlobRefs without the "RefCount > 0" guard.
MinusUnguarded(n, k) == n - k

\* A RefCount is decremented only while it is positive.
Minus(n, k) == IF k <= n THEN n - k ELSE 0

\* decrementBlobRefs: one decrement for every file of the removed subtree,
\* S being the paths under the removed entry.
DecrementBlobRefs(bt, tree, S) ==
    [bt EXCEPT !.refs = [h \in Hash |->
        Minus(bt.refs[h], Cardinality(S \cap RefsTo(tree, h)))]]

\* addBlob that forgets to give up the replaced stream.
AddBlobKeepsOld(bt, old, new) ==
    IF old = new THEN bt
    ELSE [listed |-> bt.listed \cup {new},
          refs   |-> [bt.refs EXCEPT ![new] =
                        IF new \in bt.listed THEN @ + 1 ELSE 1]]

\* addBlob that finds the new content listed and does not count it.
AddBlobUncounted(bt, old, new) ==
    IF old = new THEN bt
    ELSE [listed |-> bt.listed \cup {new},
          refs   |-> [h \in Hash |->
                        CASE h = old -> Minus(bt.refs[h], 1)
                          [] h = new -> IF new \in bt.listed THEN bt.refs[h] ELSE 1
                          [] OTHER   -> bt.refs[h]]]

\* addBlob: give up the replaced stream, then find or append the new one.
AddBlob(bt, old, new) ==
    IF old = new THEN bt
    ELSE LET given == [h \in Hash |->
                         IF h = old THEN Minus(bt.refs[h], 1) ELSE bt.refs[h]]
         IN  [listed |-> bt.listed \cup {new},
              refs   |-> [given EXCEPT ![new] =
                            IF new \in bt.listed THEN @ + 1 ELSE 1]]

\* wim.RebuildBlobTable: recount the table from the tree, dropping what the
\* tree no longer mentions.
Rebuilt(tree) ==
    [listed |-> Needed(tree),
     refs   |-> [h \in Hash |-> Cardinality(RefsTo(tree, h))]]

=============================================================================
