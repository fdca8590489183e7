--------------------------- MODULE MCDNDirective ---------------------------
(* Model values for DNDirective: a few short signature lines per kind.    *)
EXTENDS DNDirective, TLC

KindsNested == {"namespace", "class", "method", "constructor"}

\* Which directives a body holds: anything in namespaces and classes, and
\* in HoldsAny also in the body of a method or constructor.
HoldsTypes ==
    [k \in {"document"} \cup DirectiveKinds |->
        IF k \in {"document"} \cup Nestable THEN DirectiveKinds ELSE {}]
HoldsAny == [k \in {"document"} \cup DirectiveKinds |-> DirectiveKinds]
\* One namespace per document, holding types; types hold members.
HoldsCSharp ==
    [k \in {"document"} \cup DirectiveKinds |->
        CASE k = "document" -> {"namespace"}
          [] k = "namespace" -> ClassKinds
          [] k \in ClassKinds -> DirectiveKinds \ {"namespace"}
          [] OTHER -> {}]

\* Namespaces, classes, methods and constructors, with and without a dotted
\* prefix, with a return type and with a generic name.  No prefix repeats
\* an enclosing name.  A class written with a primary constructor, P(int x),
\* keeps the whole line as sig_name, so its summary cannot cut a child's
\* name; a method line without a parameter list cannot get a sig id.
SigsNested ==
    ("namespace" :> {"N"}) @@
    ("class" :> {"C", "X.D", "P(int x)"}) @@
    ("method" :> {"m(int x): bool", "Y.Get<T>()", "m"}) @@
    ("constructor" :> {"C(string s)"})

\* Overloads written as two signature lines of one method directive.
KindsOverloads == {"class", "method"}
SigsOverloads ==
    ("class" :> {"C"}) @@
    ("method" :> {"m(int x)", "m(string s)"})
\* A class whose name ends the name of its namespace.
KindsLabels == {"namespace", "class", "method"}
SigsLabels ==
    ("namespace" :> {"EdgeDB"}) @@
    ("class" :> {"DB"}) @@
    ("method" :> {"m(int x)"})
=============================================================================
