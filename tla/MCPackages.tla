----------------------------- MODULE MCPackages -----------------------------
(* Two packages at a time out of fourteen identities, one or more for each    *)
(* group of patterns and each exception, with every sharing of content      *)
(* between two hashes.                                                      *)
EXTENDS Packages

CONSTANTS h1, h2

MCHash == {h1, h2}
MCLanguage == {"en-US", "de-DE"}
MCPackage == {Windows(x) : x \in
                {<<"WordPad-FoD-Package">>, <<"Lxss", "Package">>, <<"Lxss", "Optional", "Package">>,
                 <<"Kernel-Package-Lxss-Package">>, <<"SenseClient", "Package">>,
                 <<"SearchEngine-Client-Package">>,
                 <<"SearchEngine-Client-Package", "base">>,
                 <<"LanguageFeatures", "OCR", "en-US", "Package">>,
                 <<"LanguageFeatures", "OCR", "de-DE", "Package">>,
                 <<"LanguageFeatures", "Basic", "IME-ja-jp", "Package">>}}
               \cup {<<"HyperV", "Compute-Host">>, <<"Windows-Defender", "Group-Policy", "Package">>,
                     <<"Microsoft-OneCore", "Containers", "Package">>,
                     <<"Microsoft-OneCore", "VirtualizationBasedSecurity-Package">>}
MCPath == {"mum", "cat", "catroot"} \X MCPackage
Symmetry == Permutations(MCHash)
=============================================================================
