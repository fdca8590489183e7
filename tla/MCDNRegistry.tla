--------------------------- MODULE MCDNRegistry ---------------------------
(* Model values for DNRegistry: documents, each declaring a sig id or     *)
(* nothing.                                                               *)
EXTENDS DNRegistry, TLC

CONSTANTS A, B, D

\* Three documents, any of which may declare C.m(int) (one at a time when
\* sig ids are kept unique), and one that may declare C.m(string): the
\* declaration can move between documents across builds.
SourcesMovable ==
    (A :> {{}, {"C.m(int)"}}) @@ (B :> {{}, {"C.m(int)"}}) @@
    (D :> {{}, {"C.m(int)", "C.m(string)"}})

\* The same sig id in both documents: C.m(int) documented twice, or
\* m(int) and m(ref int x), which create_dotnet_sig_id maps to one id.
SourcesShared == (A :> {{"C.m(int)"}}) @@ (B :> {{"C.m(int)"}, {}})
=============================================================================
