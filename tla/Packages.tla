------------------------------ MODULE Packages ------------------------------
(***************************************************************************)
(* Removing servicing packages (packages.go): every manifest in            *)
(* Windows\servicing\Packages whose identity a pattern matches is read and *)
(* removed together with its catalog, on the blob table the other stages   *)
(* share.  A manifest or catalog may have the same content as another one; *)
(* the catalogs have a second copy under System32\CatRoot.                 *)
(*                                                                         *)
(* An identity is the sequence of its parts, cut at the hyphens where some *)
(* pattern ends; token, architecture, language and version follow it after *)
(* a "~" and are left out.                                                 *)
(***************************************************************************)
EXTENDS BlobTable, Sequences, SequencesExt

CONSTANTS
    Package,    \* the identities an image may have
    Language,   \* default languages
    MaxPresent  \* bound: packages in one image

\* A package's manifest and catalog, and the catalog's copy in CatRoot.
ServicingPath == {"mum", "cat", "catroot"} \X Package

ASSUME PackagesAssumption ==
    /\ Path = ServicingPath
    /\ \A p \in Package : p \in Seq(STRING) /\ p # <<>>
    /\ MaxPresent \in Nat

Flags == [keepDefenderSearch : BOOLEAN, languageCode : Language]

VARIABLES
    flags, pc,
    initial,   \* the exported tree
    tree, bt,
    todo       \* packages of the directory listing still to be looked at

vars == <<flags, pc, initial, tree, bt, todo>>

-----------------------------------------------------------------------------
(* The patterns. *)

Windows(parts) == <<"Microsoft-Windows">> \o parts

\* "x~*": this identity and no other.
Exactly(x) == {p \in Package : p = x}

\* "x-*": what continues x.
Below(x) == {p \in Package : IsStrictPrefix(x, p)}

\* "x*": either.
From(x) == Exactly(x) \cup Below(x)

Optional == {Windows(<<x>>) : x \in
    {"InternetExplorer-Optional-Package", "MediaPlayer-Package", "WordPad-FoD-Package",
     "StepsRecorder-Package", "MSPaint-FoD-Package", "SnippingTool-FoD-Package",
     "TabletPCMath-Package", "Xps-Xps-Viewer-Opt-Package", "PowerShell-ISE-FOD-Package",
     "Kernel-LA57-FoD-Package", "Hello-Face-Package", "BioEnrollment-UX-Package",
     "Printing-PMCPPC-FoD-Package", "Printing-XpsDocumentWriter-Opt-Package",
     "Printing-XPSServices-Package", "WebcamExperience-Package",
     "Wallpaper-Content-Extended-FoD-Package"}} \cup {<<"OpenSSH-Client-Package">>}

Linux == {Windows(<<"Lxss", x>>) : x \in {"Package", "merged-Package", "WOW64-Package"}}

Virtual == {<<"Microsoft-Hyper-V">>, <<"HyperV">>, Windows(<<"Lxss", "Optional">>),
            <<"Containers", "DisposableClientVM">>, <<"Containers", "ApplicationGuard">>,
            <<"Microsoft-OneCore", "Containers">>, <<"Microsoft-UtilityVM", "Containers">>}

Input(lang) == {Windows(<<"LanguageFeatures", x, lang, "Package">>) :
                  x \in {"Handwriting", "OCR", "Speech", "TextToSpeech"}}

\* "*IME-ja-jp*" and the three like it.
IMEs == {p \in Package : \E k \in DOMAIN p : p[k] \in {"IME-ja-jp", "IME-ko-kr", "IME-zh-cn", "IME-zh-tw"}}

Defender == {<<"Windows-Defender", x>> : x \in
               {"AM-Default-Definitions", "Group-Policy", "ApplicationGuard-Inbox"}}
              \cup {Windows(<<"SenseClient">>)}

\* The Defender and Search patterns gated the wrong way round.
PackagePatternsUngated(lang, keep) ==
    (UNION {Exactly(x) : x \in Optional \cup Linux \cup Input(lang)})
      \cup (UNION {Below(x) : x \in Virtual}) \cup IMEs
      \cup (IF ~keep THEN {} ELSE (UNION {Below(x) : x \in Defender})
                                 \cup From(Windows(<<"SearchEngine-Client-Package">>)))

\* packagePatterns: the packages some pattern matches.
PackagePatterns(lang, keep) ==
    (UNION {Exactly(x) : x \in Optional \cup Linux \cup Input(lang)})
      \cup (UNION {Below(x) : x \in Virtual}) \cup IMEs
      \cup (IF keep THEN {} ELSE (UNION {Below(x) : x \in Defender})
                                \cup From(Windows(<<"SearchEngine-Client-Package">>)))

-----------------------------------------------------------------------------
Init ==
    /\ flags \in Flags
    /\ pc = "list"
    /\ \E present \in {S \in SUBSET Package : Cardinality(S) <= MaxPresent} :
         \E content \in [{"mum", "cat"} \X present -> Hash \cup {Absent}] :
           initial = [f \in Path |->
             IF f[2] \notin present THEN Absent
             ELSE content[IF f[1] = "mum" THEN f ELSE <<"cat", f[2]>>]]
    /\ tree = initial /\ bt = Rebuilt(initial)
    /\ todo = {}

\* root.ReadDir: a snapshot, of which only the manifests are looked at; without
\* any the directory may be missing altogether.
List ==
    /\ pc = "list"
    /\ todo' = {p \in Package : tree[<<"mum", p>>] # Absent}
    /\ pc' = "remove"
    /\ UNCHANGED <<flags, initial, tree, bt>>

Pass(p) ==
    /\ pc = "remove" /\ p \in todo
    /\ p \notin PackagePatterns(flags.languageCode, flags.keepDefenderSearch)
    /\ todo' = todo \ {p}
    /\ UNCHANGED <<flags, pc, initial, tree, bt>>

\* component.Remove that takes every package whose identity continues p's.
PairAndMore(p) == {"mum", "cat"} \X From(p)

\* What component.Remove deletes for a package.
Pair(p) == {<<"mum", p>>, <<"cat", p>>}

\* Entries dropped from the table as soon as nothing counts them.
RemovePairAndDrop(p) ==
    LET counted == DecrementBlobRefs(bt, tree, Pair(p))
    IN  /\ bt' = [counted EXCEPT !.listed = {h \in @ : counted.refs[h] > 1}]
        /\ tree' = [f \in Path |-> IF f \in Pair(p) THEN Absent ELSE tree[f]]

RemovePair(p) ==
    /\ bt' = DecrementBlobRefs(bt, tree, Pair(p))
    /\ tree' = [f \in Path |-> IF f \in Pair(p) THEN Absent ELSE tree[f]]

\* The manifest is read through the table, then removed; what cannot be read
\* ends the run.
RemovePackage(p) ==
    /\ pc = "remove" /\ p \in todo
    /\ p \in PackagePatterns(flags.languageCode, flags.keepDefenderSearch)
    /\ IF tree[<<"mum", p>>] \in bt.listed
       THEN todo' = todo \ {p} /\ RemovePair(p) /\ pc' = pc
       ELSE pc' = "unreadable" /\ UNCHANGED <<todo, tree, bt>>
    /\ UNCHANGED <<flags, initial>>

Done ==
    /\ pc = "remove" /\ todo = {}
    /\ pc' = "done"
    /\ UNCHANGED <<flags, initial, tree, bt, todo>>

Next == List \/ (\E p \in Package : Pass(p) \/ RemovePackage(p)) \/ Done

Spec == Init /\ [][Next]_vars

-----------------------------------------------------------------------------
(* Properties. *)

\* The variables have their types, and every manifest of the listing that is
\* still to be looked at is still in the tree: no removal takes another one's.
TypeOK ==
    /\ flags \in Flags /\ pc \in {"list", "remove", "done", "unreadable"}
    /\ initial \in Trees /\ tree \in Trees /\ bt \in Tables
    /\ todo \subseteq {p \in Package : tree[<<"mum", p>>] # Absent}

\* However manifests and catalogs share content with one another, with CatRoot
\* and with packages that stay, the counts equal a recount of the tree, and no
\* removal makes a manifest unreadable that is still to be read: that would
\* end the whole run.
NeverUnreadable == bt.refs = Rebuilt(tree).refs /\ pc # "unreadable"

Stays(p) == initial[<<"mum", p>>] # Absent => tree[<<"mum", p>>] # Absent

\* Unless an input method's pattern, which looks anywhere in an identity,
\* matches: -keep-defender-search keeps the Defender and Search packages; the
\* input features of other languages than the image's own stay ("primary
\* language only"); the kernel's Linux package and the virtualization based
\* security are "deliberately excluded" (packages.go:62-67, 79, 146-148).
KeptAsSaid ==
    \A p \in Package \ IMEs :
      /\ flags.keepDefenderSearch /\ (p[1] = "Windows-Defender" \/ (Len(p) > 1 /\ p[1] = "Microsoft-Windows"
           /\ p[2] \in {"SenseClient", "SearchEngine-Client-Package"})) => Stays(p)
      /\ Len(p) > 3 /\ p[1] = "Microsoft-Windows" /\ p[2] = "LanguageFeatures"
           /\ p[4] # flags.languageCode => Stays(p)
      /\ p \in {Windows(<<"Kernel-Package-Lxss-Package">>),
                <<"Microsoft-OneCore", "VirtualizationBasedSecurity-Package">>} => Stays(p)

=============================================================================
