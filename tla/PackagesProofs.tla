--------------------------- MODULE PackagesProofs ---------------------------
(***************************************************************************)
(* Packages' invariants, for any identities, any sharing of content and    *)
(* any number of packages.                                                 *)
(***************************************************************************)
EXTENDS Packages, BlobTableProofs, SequenceTheorems

Selected(p) == p \in PackagePatterns(flags.languageCode, flags.keepDefenderSearch)

\* The table is exact and resolves what the tree needs, no file is empty, and
\* only what the patterns select has left the tree.
IInv ==
    /\ TypeOK
    /\ Exact(bt, tree) /\ Needed(tree) \subseteq bt.listed
    /\ \A f \in Path : tree[f] # Zero
    /\ \A p \in Package : Stays(p) \/ Selected(p)
    /\ pc # "unreadable"

-----------------------------------------------------------------------------
(* The patterns. *)

LEMMA PrefixAt ==
    ASSUME NEW S, NEW T, NEW x \in Seq(S), NEW p \in Seq(T), IsStrictPrefix(x, p), NEW k \in 1..Len(x)
    PROVE  p[k] = x[k] /\ Len(x) <= Len(p)
  <1>1. Len(x) \in Nat /\ Len(p) \in Nat
    BY LenProperties
  <1>2. Len(x) <= Len(p) /\ SubSeq(x, 1, Len(x)) = SubSeq(p, 1, Len(x))
    BY DEF IsStrictPrefix, IsPrefix
  <1>3. \A j \in 1..Len(x) : x[j] \in S /\ p[j] \in T
    BY <1>1, <1>2, ElementOfSeq
  <1>4. \A j \in 1..Len(x) : SubSeq(x, 1, Len(x))[j] = x[j] /\ SubSeq(p, 1, Len(x))[j] = p[j]
    BY <1>1, <1>3, SubSeqProperties
  <1>5. QED
    BY <1>2, <1>4

LEMMA WindowsAt ==
    ASSUME NEW S, NEW q \in Seq(S), "Microsoft-Windows" \in S
    PROVE  /\ Windows(q) \in Seq(S) /\ Len(Windows(q)) = 1 + Len(q)
           /\ Windows(q)[1] = "Microsoft-Windows"
           /\ \A k \in 1..Len(q) : Windows(q)[k + 1] = q[k]
  <1> DEFINE m == <<"Microsoft-Windows">>
  <1>1. m \in Seq(S) /\ Len(m) = 1 /\ m[1] = "Microsoft-Windows"
    OBVIOUS
  <1>2. Len(q) \in Nat
    BY LenProperties
  <1> HIDE DEF m
  <1>3. /\ m \o q \in Seq(S)
        /\ Len(m \o q) = Len(m) + Len(q)
        /\ \A k \in 1..Len(m) + Len(q) : (m \o q)[k] = IF k <= Len(m) THEN m[k] ELSE q[k - Len(m)]
    BY <1>1, ConcatProperties, Zenon
  <1>4. \A k \in 1..Len(q) : (m \o q)[k + 1] = q[k]
    BY <1>1, <1>2, <1>3
  <1>5. QED
    BY <1>1, <1>2, <1>3, <1>4 DEF Windows, m

LEMMA WindowsOfOne ==
    ASSUME NEW n
    PROVE  /\ Windows(<<n>>) \in Seq({"Microsoft-Windows", n}) /\ Len(Windows(<<n>>)) = 2
           /\ Windows(<<n>>)[1] = "Microsoft-Windows" /\ Windows(<<n>>)[2] = n
  <1> DEFINE q == <<n>>
             S == {"Microsoft-Windows", n}
  <1>1. q \in Seq(S) /\ Len(q) = 1 /\ q[1] = n /\ "Microsoft-Windows" \in S
    OBVIOUS
  <1> HIDE DEF q, S
  <1>2. Windows(q) \in Seq(S) /\ Len(Windows(q)) = 1 + Len(q)
        /\ Windows(q)[1] = "Microsoft-Windows" /\ \A k \in 1..Len(q) : Windows(q)[k + 1] = q[k]
    BY <1>1, WindowsAt
  <1>3. QED
    BY <1>1, <1>2 DEF q, S

LEMMA WindowsOfTwo ==
    ASSUME NEW m, NEW n
    PROVE  /\ Windows(<<m, n>>) \in Seq({"Microsoft-Windows", m, n}) /\ Len(Windows(<<m, n>>)) = 3
           /\ Windows(<<m, n>>)[1] = "Microsoft-Windows" /\ Windows(<<m, n>>)[2] = m
  <1> DEFINE q == <<m, n>>
             S == {"Microsoft-Windows", m, n}
  <1>1. q \in Seq(S) /\ Len(q) = 2 /\ q[1] = m /\ "Microsoft-Windows" \in S
    OBVIOUS
  <1> HIDE DEF q, S
  <1>2. Windows(q) \in Seq(S) /\ Len(Windows(q)) = 1 + Len(q)
        /\ Windows(q)[1] = "Microsoft-Windows" /\ \A k \in 1..Len(q) : Windows(q)[k + 1] = q[k]
    BY <1>1, WindowsAt
  <1>3. QED
    BY <1>1, <1>2 DEF q, S

\* How the identities that the patterns name begin.
LEMMA OptionalBegins ==
    ASSUME NEW x \in Optional
    PROVE  \/ x = <<"OpenSSH-Client-Package">>
           \/ /\ Len(x) = 2 /\ x[1] = "Microsoft-Windows"
              /\ x[2] \notin {"SenseClient", "SearchEngine-Client-Package", "LanguageFeatures",
                              "Kernel-Package-Lxss-Package"}
  <1>1. CASE x = <<"OpenSSH-Client-Package">>
    BY <1>1
  <1>2. CASE x # <<"OpenSSH-Client-Package">>
    <2>1. PICK n : /\ x = Windows(<<n>>)
                   /\ n \notin {"SenseClient", "SearchEngine-Client-Package", "LanguageFeatures",
                                "Kernel-Package-Lxss-Package"}
      BY <1>2 DEF Optional
    <2>2. QED
      BY <2>1, WindowsOfOne
  <1>3. QED
    BY <1>1, <1>2

LEMMA LinuxBegins ==
    ASSUME NEW x \in Linux
    PROVE  Len(x) = 3 /\ x[1] = "Microsoft-Windows" /\ x[2] = "Lxss"
  <1>1. PICK n : x = Windows(<<"Lxss", n>>)
    BY DEF Linux
  <1>2. QED
    BY <1>1, WindowsOfTwo

LEMMA InputBegins ==
    ASSUME NEW lang, NEW x \in Input(lang)
    PROVE  Len(x) = 5 /\ x[1] = "Microsoft-Windows" /\ x[2] = "LanguageFeatures" /\ x[4] = lang
  <1>1. PICK n : x = Windows(<<"LanguageFeatures", n, lang, "Package">>)
    BY DEF Input
  <1> DEFINE q == <<"LanguageFeatures", n, lang, "Package">>
             S == {"Microsoft-Windows", "LanguageFeatures", n, lang, "Package"}
  <1>2. q \in Seq(S) /\ Len(q) = 4 /\ q[1] = "LanguageFeatures" /\ q[3] = lang /\ "Microsoft-Windows" \in S
    OBVIOUS
  <1>3. x = Windows(q)
    BY <1>1
  <1> HIDE DEF q, S
  <1>4. Len(Windows(q)) = 1 + Len(q) /\ Windows(q)[1] = "Microsoft-Windows"
        /\ \A k \in 1..Len(q) : Windows(q)[k + 1] = q[k]
    BY <1>2, WindowsAt
  <1>5. QED
    BY <1>2, <1>3, <1>4

LEMMA VirtualBegins ==
    ASSUME NEW x \in Virtual, NEW p \in Package, IsStrictPrefix(x, p)
    PROVE  \/ p[1] \in {"Microsoft-Hyper-V", "HyperV", "Containers"}
           \/ Len(p) > 1 /\ p[1] = "Microsoft-Windows" /\ p[2] = "Lxss"
           \/ Len(p) > 1 /\ p[1] \in {"Microsoft-OneCore", "Microsoft-UtilityVM"} /\ p[2] = "Containers"
  <1>0. p \in Seq(STRING) /\ Len(p) \in Nat
    BY PackagesAssumption, LenProperties
  <1>1. CASE x = Windows(<<"Lxss", "Optional">>)
    <2>1. PICK S : x \in Seq(S) /\ Len(x) = 3 /\ x[1] = "Microsoft-Windows" /\ x[2] = "Lxss"
      <3>1. /\ x \in Seq({"Microsoft-Windows", "Lxss", "Optional"}) /\ Len(x) = 3
            /\ x[1] = "Microsoft-Windows" /\ x[2] = "Lxss"
        BY <1>1, WindowsOfTwo, Zenon
      <3>2. QED
        BY <3>1, Zenon
    <2>2. p[1] = x[1] /\ p[2] = x[2] /\ 3 <= Len(p)
      <3>1. 1 \in 1..Len(x) /\ 2 \in 1..Len(x)
        BY <2>1
      <3>2. p[1] = x[1] /\ p[2] = x[2] /\ Len(x) <= Len(p)
        <4>1. \A k \in 1..Len(x) : p[k] = x[k] /\ Len(x) <= Len(p)
          BY <1>0, <2>1, PrefixAt, Zenon
        <4>2. QED
          BY <3>1, <4>1
      <3>3. QED
        BY <2>1, <3>2
    <2>3. QED
      BY <1>0, <2>1, <2>2
  <1>2. ASSUME NEW a, x = <<a>>
        PROVE  p[1] = a
    <2>1. PICK S : x \in Seq(S) /\ Len(x) = 1 /\ x[1] = a
      <3>1. x \in Seq({a}) /\ Len(x) = 1 /\ x[1] = a
        BY <1>2
      <3>2. QED
        BY <3>1, Zenon
    <2>2. 1 \in 1..Len(x)
      BY <2>1
    <2>3. p[1] = x[1]
      BY <1>0, <2>1, <2>2, PrefixAt
    <2>4. QED
      BY <2>1, <2>3
  <1>3. ASSUME NEW a, NEW c, x = <<a, c>>
        PROVE  Len(p) > 1 /\ p[1] = a /\ p[2] = c
    <2>1. PICK S : x \in Seq(S) /\ Len(x) = 2 /\ x[1] = a /\ x[2] = c
      <3>1. x \in Seq({a, c}) /\ Len(x) = 2 /\ x[1] = a /\ x[2] = c
        BY <1>3
      <3>2. QED
        BY <3>1, Zenon
    <2>2. p[1] = x[1] /\ p[2] = x[2] /\ 2 <= Len(p)
      BY <1>0, <2>1, PrefixAt
    <2>3. QED
      BY <1>0, <2>1, <2>2
  <1>4. QED
    BY <1>1, <1>2, <1>3 DEF Virtual

\* What the patterns do not select.
LEMMA PatternsKeep ==
    ASSUME NEW p \in Package \ IMEs, NEW lang, NEW keep \in BOOLEAN,
           p \in PackagePatterns(lang, keep)
    PROVE  /\ ~(keep /\ (p[1] = "Windows-Defender" \/ (Len(p) > 1 /\ p[1] = "Microsoft-Windows"
                  /\ p[2] \in {"SenseClient", "SearchEngine-Client-Package"})))
           /\ ~(Len(p) > 3 /\ p[1] = "Microsoft-Windows" /\ p[2] = "LanguageFeatures" /\ p[4] # lang)
           /\ p \notin {Windows(<<"Kernel-Package-Lxss-Package">>),
                        <<"Microsoft-OneCore", "VirtualizationBasedSecurity-Package">>}
  <1> DEFINE kernel == Windows(<<"Kernel-Package-Lxss-Package">>)
             vbs == <<"Microsoft-OneCore", "VirtualizationBasedSecurity-Package">>
             search == Windows(<<"SearchEngine-Client-Package">>)
             Kept == /\ ~(keep /\ (p[1] = "Windows-Defender" \/ (Len(p) > 1 /\ p[1] = "Microsoft-Windows"
                            /\ p[2] \in {"SenseClient", "SearchEngine-Client-Package"})))
                     /\ ~(Len(p) > 3 /\ p[1] = "Microsoft-Windows" /\ p[2] = "LanguageFeatures" /\ p[4] # lang)
                     /\ p # kernel /\ p # vbs
  <1>0. /\ Len(kernel) = 2 /\ kernel[1] = "Microsoft-Windows" /\ kernel[2] = "Kernel-Package-Lxss-Package"
        /\ Len(search) = 2 /\ search[1] = "Microsoft-Windows" /\ search[2] = "SearchEngine-Client-Package"
        /\ Len(vbs) = 2 /\ vbs[1] = "Microsoft-OneCore" /\ vbs[2] = "VirtualizationBasedSecurity-Package"
    BY WindowsOfOne
  <1>00. p \in Seq(STRING) /\ Len(p) \in Nat
    BY PackagesAssumption, LenProperties
  <1> HIDE DEF kernel, vbs, search
  <1>1. ASSUME p \in Optional PROVE Kept
    BY <1>0, <1>1, OptionalBegins
  <1>2. ASSUME p \in Linux PROVE Kept
    BY <1>0, <1>2, LinuxBegins
  <1>3. ASSUME p \in Input(lang) PROVE Kept
    BY <1>0, <1>3, InputBegins
  <1>4. ASSUME NEW x \in Virtual, IsStrictPrefix(x, p)
        PROVE  /\ p[1] # "Windows-Defender"
               /\ p[1] = "Microsoft-Windows" => p[2] = "Lxss"
               /\ p[1] = "Microsoft-OneCore" => p[2] = "Containers"
    BY <1>4, VirtualBegins
  <1>5. ASSUME ~keep /\ \E x \in Defender : IsStrictPrefix(x, p) PROVE Kept
    <2>1. PICK x \in Defender : IsStrictPrefix(x, p)
      BY <1>5
    <2>2. CASE x = Windows(<<"SenseClient">>)
      <3>1. PICK S : x \in Seq(S) /\ Len(x) = 2 /\ x[1] = "Microsoft-Windows" /\ x[2] = "SenseClient"
        BY <2>2, WindowsOfOne, Zenon
      <3>2. p[1] = x[1] /\ p[2] = x[2]
        BY <1>00, <2>1, <3>1, PrefixAt
      <3>3. QED
        BY <1>0, <1>5, <3>1, <3>2
    <2>3. CASE x # Windows(<<"SenseClient">>)
      <3>1. PICK n : x = <<"Windows-Defender", n>>
        BY <2>3 DEF Defender
      <3>2. PICK S : x \in Seq(S) /\ Len(x) = 2 /\ x[1] = "Windows-Defender"
        <4>1. x \in Seq({"Windows-Defender", n}) /\ Len(x) = 2 /\ x[1] = "Windows-Defender"
          BY <3>1
        <4>2. QED
          BY <4>1, Zenon
      <3>3. p[1] = x[1]
        BY <1>00, <2>1, <3>2, PrefixAt
      <3>4. QED
        BY <1>0, <1>5, <3>2, <3>3
    <2>4. QED
      BY <2>2, <2>3
  <1>6. ASSUME ~keep /\ (p = search \/ IsStrictPrefix(search, p)) PROVE Kept
    <2>1. PICK S : search \in Seq(S)
      BY WindowsOfOne, Zenon DEF search
    <2>2. p[1] = search[1] /\ p[2] = search[2]
      BY <1>0, <1>00, <1>6, <2>1, PrefixAt
    <2>3. QED
      BY <1>0, <1>6, <2>2
  <1>7. \/ p \in Optional \/ p \in Linux \/ p \in Input(lang)
        \/ \E x \in Virtual : IsStrictPrefix(x, p)
        \/ ~keep /\ \E x \in Defender : IsStrictPrefix(x, p)
        \/ ~keep /\ (p = search \/ IsStrictPrefix(search, p))
    <2> DEFINE A == UNION {Exactly(x) : x \in Optional \cup Linux \cup Input(lang)}
               B == UNION {Below(x) : x \in Virtual}
               D == UNION {Below(x) : x \in Defender}
    <2>1. PackagePatterns(lang, keep) = A \cup B \cup IMEs \cup (IF keep THEN {} ELSE D \cup From(search))
      BY DEF PackagePatterns, search
    <2>2. p \in A => p \in Optional \/ p \in Linux \/ p \in Input(lang)
      BY DEF Exactly
    <2>3. p \in B => \E x \in Virtual : IsStrictPrefix(x, p)
      BY DEF Below
    <2>4. p \in D => \E x \in Defender : IsStrictPrefix(x, p)
      BY DEF Below
    <2>5. p \in From(search) => p = search \/ IsStrictPrefix(search, p)
      BY DEF From, Exactly, Below
    <2> HIDE DEF A, B, D
    <2>6. p \in A \/ p \in B \/ (~keep /\ (p \in D \/ p \in From(search)))
      BY <2>1
    <2>7. QED
      BY <2>2, <2>3, <2>4, <2>5, <2>6
  <1>8. ASSUME \E x \in Virtual : IsStrictPrefix(x, p) PROVE Kept
    BY <1>0, <1>4, <1>8
  <1>9. QED
    BY <1>1, <1>2, <1>3, <1>5, <1>6, <1>7, <1>8 DEF kernel, vbs

-----------------------------------------------------------------------------
(* The inductive invariant. *)

LEMMA InitInv == Init => IInv
  <1> SUFFICES ASSUME Init PROVE IInv
    OBVIOUS
  <1>0. PICK present \in SUBSET Package :
          \E content \in [{"mum", "cat"} \X present -> Hash \cup {Absent}] :
            initial = [f \in Path |->
             IF f[2] \notin present THEN Absent
             ELSE content[IF f[1] = "mum" THEN f ELSE <<"cat", f[2]>>]]
    BY DEF Init
  <1>1. PICK content \in [{"mum", "cat"} \X present -> Hash \cup {Absent}] :
          initial = [f \in Path |->
             IF f[2] \notin present THEN Absent
             ELSE content[IF f[1] = "mum" THEN f ELSE <<"cat", f[2]>>]]
    BY <1>0
  <1>2. \A f \in Path : initial[f] \in Hash \cup {Absent}
    BY <1>1, PackagesAssumption DEF ServicingPath
  <1>3. initial \in Trees /\ tree = initial /\ \A f \in Path : tree[f] # Zero
    BY <1>1, <1>2, BlobAssumption DEF Init, Trees
  <1>4. bt \in Tables /\ Exact(bt, tree) /\ Needed(tree) \subseteq bt.listed
    BY <1>3, RebuiltExact DEF Init, Rebuilt
  <1>5. QED
    BY <1>3, <1>4 DEF Init, IInv, TypeOK, Stays

LEMMA RemoveInv ==
    ASSUME IInv, NEW p \in Package, RemovePackage(p)
    PROVE  IInv'
  <1>0. TypeOK /\ pc = "remove" /\ p \in todo /\ Selected(p)
    BY DEF IInv, RemovePackage, Selected
  <1>1. <<"mum", p>> \in Path /\ Pair(p) \in SUBSET Path
    BY PackagesAssumption DEF ServicingPath, Pair
  <1>2. tree[<<"mum", p>>] \in bt.listed
    <2>1. tree[<<"mum", p>>] \in Hash
      BY <1>0, <1>1 DEF IInv, TypeOK, Trees
    <2>2. tree[<<"mum", p>>] \in Needed(tree)
      BY <1>1, <2>1 DEF Needed, RefsTo
    <2>3. QED
      BY <2>2 DEF IInv
  <1>3. RemovePair(p) /\ todo' = todo \ {p} /\ pc' = pc /\ UNCHANGED <<flags, initial>>
    BY <1>2 DEF RemovePackage
  <1>4. tree' = [f \in Path |-> IF f \in Pair(p) THEN Absent ELSE tree[f]]
    BY <1>3 DEF RemovePair
  <1>5. tree' \in Trees /\ Needed(tree') \subseteq Needed(tree)
    BY <1>0, <1>4, NeededAfterRemoval DEF TypeOK
  <1>6. bt' \in Tables /\ bt'.listed = bt.listed /\ Exact(bt', tree')
    BY <1>0, <1>1, <1>3, <1>4, <1>5, DecrementFollowsRemoval DEF TypeOK, RemovePair, IInv
  <1>7. \A q \in Package \ {p} : tree'[<<"mum", q>>] = tree[<<"mum", q>>]
    <2>1. ASSUME NEW q \in Package \ {p}
          PROVE  <<"mum", q>> \in Path /\ <<"mum", q>> \notin Pair(p)
      BY PackagesAssumption DEF ServicingPath, Pair
    <2>2. QED
      BY <1>4, <2>1
  <1>8. TypeOK'
    BY <1>0, <1>3, <1>5, <1>6, <1>7 DEF TypeOK
  <1>9. \A f \in Path : tree'[f] # Zero
    BY <1>4, BlobAssumption DEF IInv
  <1>10. \A q \in Package : Stays(q)' \/ Selected(q)'
    BY <1>0, <1>3, <1>7 DEF IInv, Stays, Selected
  <1>11. QED
    BY <1>0, <1>3, <1>5, <1>6, <1>8, <1>9, <1>10 DEF IInv, Exact, Needed, RefsTo

LEMMA NextInv == IInv /\ [Next]_vars => IInv'
  <1> SUFFICES ASSUME IInv, [Next]_vars PROVE IInv'
    OBVIOUS
  <1>1. ASSUME UNCHANGED <<flags, initial, tree, bt>>,
               pc' \in {"list", "remove", "done"},
               todo' \subseteq {p \in Package : tree[<<"mum", p>>] # Absent}
        PROVE  IInv'
    BY <1>1 DEF IInv, TypeOK, Exact, Needed, RefsTo, Stays, Selected
  <1>2. CASE UNCHANGED vars
    BY <1>1, <1>2 DEF vars, IInv, TypeOK
  <1>3. CASE List
    BY <1>1, <1>3 DEF List
  <1>4. ASSUME NEW p \in Package, Pass(p) PROVE IInv'
    BY <1>1, <1>4 DEF Pass, IInv, TypeOK
  <1>5. ASSUME NEW p \in Package, RemovePackage(p) PROVE IInv'
    BY <1>5, RemoveInv
  <1>6. CASE Done
    BY <1>1, <1>6 DEF Done, IInv, TypeOK
  <1>7. QED
    BY <1>2, <1>3, <1>4, <1>5, <1>6 DEF Next

-----------------------------------------------------------------------------
(* The theorems. *)

\* Each removal keeps IInv: a catalog or manifest is given up for its own
\* path only, so what other paths share with it stays listed and counted.
THEOREM Invariance == Spec => []IInv
  BY InitInv, NextInv, PTL DEF Spec

\* Type correctness, and that no removal takes a manifest that is still to be
\* looked at (removePackagesMatching).
THEOREM TypeCorrect == Spec => []TypeOK
  <1>1. IInv => TypeOK
    BY DEF IInv
  <1>2. QED
    BY <1>1, Invariance, PTL

\* Every manifest can be read when its turn comes, and the counts are exact
\* (removePackagesMatching, component.Remove).
THEOREM AlwaysReadable == Spec => []NeverUnreadable
  <1>1. IInv => NeverUnreadable
    <2> SUFFICES ASSUME IInv PROVE bt.refs = Rebuilt(tree).refs
      BY DEF NeverUnreadable, IInv
    <2>1. bt.refs = [h \in Hash |-> bt.refs[h]]
      BY DEF IInv, TypeOK, Tables
    <2>2. \A h \in Hash : bt.refs[h] = Cardinality(RefsTo(tree, h))
      BY DEF IInv, Exact
    <2>3. QED
      BY <2>1, <2>2 DEF Rebuilt
  <1>2. QED
    BY <1>1, Invariance, PTL

\* Whatever identities an image has, the packages that the flags and comments
\* of packagePatterns say are kept are kept.
THEOREM SaidPackagesKept == Spec => []KeptAsSaid
  <1>1. IInv => KeptAsSaid
    <2> SUFFICES ASSUME IInv, NEW p \in Package \ IMEs, Selected(p)
                 PROVE  /\ ~(flags.keepDefenderSearch /\ (p[1] = "Windows-Defender" \/ (Len(p) > 1
                             /\ p[1] = "Microsoft-Windows"
                             /\ p[2] \in {"SenseClient", "SearchEngine-Client-Package"})))
                        /\ ~(Len(p) > 3 /\ p[1] = "Microsoft-Windows" /\ p[2] = "LanguageFeatures"
                             /\ p[4] # flags.languageCode)
                        /\ p \notin {Windows(<<"Kernel-Package-Lxss-Package">>),
                                     <<"Microsoft-OneCore", "VirtualizationBasedSecurity-Package">>}
      BY DEF KeptAsSaid, IInv
    <2>1. flags.keepDefenderSearch \in BOOLEAN
      BY DEF IInv, TypeOK, Flags
    <2>2. QED
      BY <2>1, PatternsKeep DEF Selected
  <1>2. QED
    BY <1>1, Invariance, PTL

-----------------------------------------------------------------------------
(* The whole outcome, and not only what must stay.                          *)

\* Packages whose manifest is in the image and which the patterns select.
Chosen == {p \in Package : Selected(p) /\ initial[<<"mum", p>>] # Absent}

\* What the removal of a set of packages takes: their manifests and catalogs.
Pairs(S) == {"mum", "cat"} \X S

\* The tree that is left after it.
Without(S) == [f \in Path |-> IF f \in Pairs(S) THEN Absent ELSE initial[f]]

\* The packages gone so far are the chosen ones that need no more looking at.
OnlyPairsGone ==
    /\ pc = "list" => tree = initial
    /\ pc # "list" => tree = Without(Chosen \ todo)
    /\ pc = "done" => todo = {}

\* Where the run over the packages ends: no chosen package is missed, whatever
\* the order of the listing, each goes with its manifest and its catalog, and
\* no other file goes, the catalogs' copies in CatRoot included.
ExactlyChosenGo == pc = "done" => tree = Without(Chosen)

LEMMA InitOnly == Init => OnlyPairsGone
  BY DEF Init, OnlyPairsGone

LEMMA NextOnly == IInv /\ OnlyPairsGone /\ [Next]_vars => OnlyPairsGone'
  <1> SUFFICES ASSUME IInv, OnlyPairsGone, [Next]_vars PROVE OnlyPairsGone'
    OBVIOUS
  <1>0. tree \in Trees /\ initial \in Trees /\ todo \subseteq {p \in Package : tree[<<"mum", p>>] # Absent}
    BY DEF IInv, TypeOK
  <1>1. ASSUME UNCHANGED <<flags, initial>>
        PROVE  Chosen' = Chosen /\ \A S : Without(S)' = Without(S)
    BY <1>1 DEF Chosen, Selected, Without
  <1>2. CASE UNCHANGED vars
    <2>1. Chosen' = Chosen /\ \A S : Without(S)' = Without(S)
      BY <1>1, <1>2 DEF vars
    <2> HIDE DEF Chosen, Without
    <2>2. QED
      BY <1>2, <2>1 DEF vars, OnlyPairsGone, Without
  <1>3. CASE List
    <2>1. /\ UNCHANGED <<flags, initial, tree>> /\ tree = initial /\ pc' = "remove"
          /\ todo' = {p \in Package : tree[<<"mum", p>>] # Absent}
      BY <1>3 DEF List, OnlyPairsGone
    <2>2. Chosen \ todo' = {}
      BY <2>1 DEF Chosen
    <2>3. Without({}) = initial
      BY <1>0 DEF Without, Pairs, Trees
    <2>4. Chosen' \ todo' = {}
      BY <1>1, <2>1, <2>2
    <2>5. tree' = [f \in Path |-> IF f \in Pairs(Chosen' \ todo') THEN Absent ELSE initial'[f]]
      BY <2>1, <2>3, <2>4 DEF Without
    <2> HIDE DEF Chosen
    <2>6. QED
      BY <2>1, <2>5 DEF OnlyPairsGone, Without, Pairs
  <1>4. ASSUME NEW p \in Package, Pass(p) PROVE OnlyPairsGone'
    <2>1. /\ UNCHANGED <<flags, initial, tree>> /\ pc = "remove" /\ pc' = "remove"
          /\ todo' = todo \ {p} /\ ~Selected(p)
      BY <1>4 DEF Pass, Selected
    <2>2. Chosen \ todo' = Chosen \ todo
      BY <2>1 DEF Chosen
    <2>3. tree = Without(Chosen \ todo)
      BY <2>1 DEF OnlyPairsGone
    <2>4. Chosen' \ todo' = Chosen \ todo
      BY <1>1, <2>1, <2>2
    <2>5. tree' = Without(Chosen \ todo)'
      BY <2>1, <2>2, <2>3, <2>4 DEF Without
    <2>6. QED
      BY <2>1, <2>2, <2>3, <2>4 DEF OnlyPairsGone, Without
  <1>5. ASSUME NEW p \in Package, RemovePackage(p) PROVE OnlyPairsGone'
    <2>0. IInv'
      BY <1>5, RemoveInv
    <2>1. pc' # "unreadable"
      BY <2>0 DEF IInv
    <2>2. /\ UNCHANGED <<flags, initial>> /\ pc = "remove" /\ pc' = "remove" /\ p \in todo
          /\ todo' = todo \ {p} /\ Selected(p)
          /\ tree' = [f \in Path |-> IF f \in Pair(p) THEN Absent ELSE tree[f]]
      BY <1>5, <2>1 DEF RemovePackage, RemovePair, Selected
    <2>3. tree = Without(Chosen \ todo)
      BY <2>2 DEF OnlyPairsGone
    <2>4. p \in Chosen
      <3>1. <<"mum", p>> \in Path /\ tree[<<"mum", p>>] # Absent
        BY <1>0, <2>2, PackagesAssumption DEF ServicingPath
      <3>2. initial[<<"mum", p>>] # Absent
        BY <2>3, <3>1 DEF Without
      <3>3. QED
        BY <2>2, <3>2 DEF Chosen
    <2>5. Pairs(Chosen \ todo') = Pairs(Chosen \ todo) \cup Pair(p)
      BY <2>2, <2>4 DEF Pairs, Pair
    <2>6. tree' = Without(Chosen \ todo')
      BY <2>2, <2>3, <2>5 DEF Without
    <2>7. Chosen' \ todo' = Chosen \ todo'
      BY <1>1, <2>2
    <2>8. QED
      BY <2>2, <2>6, <2>7 DEF OnlyPairsGone, Without
  <1>6. CASE Done
    <2>1. UNCHANGED <<flags, initial, tree, todo>> /\ pc = "remove" /\ pc' = "done" /\ todo = {}
      BY <1>6 DEF Done
    <2>2. QED
      BY <1>1, <2>1 DEF OnlyPairsGone, Without
  <1>7. QED
    BY <1>2, <1>3, <1>4, <1>5, <1>6 DEF Next

\* Every package the patterns select is gone at the end, with its catalog, and
\* nothing else is (removePackagesMatching, component.Remove).
THEOREM ChosenAndNoOthersGo == Spec => []ExactlyChosenGo
  <1>1. OnlyPairsGone => ExactlyChosenGo
    <2> SUFFICES ASSUME OnlyPairsGone, pc = "done" PROVE tree = Without(Chosen)
      BY DEF ExactlyChosenGo
    <2>1. tree = Without(Chosen \ todo) /\ todo = {}
      BY DEF OnlyPairsGone
    <2>2. Chosen \ todo = Chosen
      BY <2>1
    <2>3. QED
      BY <2>1, <2>2
  <1>2. QED
    BY <1>1, Invariance, InitOnly, NextOnly, PTL DEF Spec

=============================================================================
