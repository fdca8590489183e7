---------------------------- MODULE MCDNBuild ----------------------------
(* Model values for DNBuild: one namespace N holding a class and its      *)
(* members, and roles written with the declared identifiers, relative    *)
(* names, explicit titles and the "~" and "." forms.                      *)
EXTENDS DNBuild, TLC

\* One namespace per document, holding types; types hold members.
HoldsCSharp ==
    [k \in {"document"} \cup DirectiveKinds |->
        CASE k = "document" -> {"namespace"}
          [] k = "namespace" -> ClassKinds
          [] k \in ClassKinds -> DirectiveKinds \ {"namespace"}
          [] OTHER -> {}]

KindsXRef == {"namespace", "class", "method"}
SigsXRef ==
    ("namespace" :> {"N"}) @@ ("class" :> {"C"}) @@ ("method" :> {"m()", "m(int x)"})
RefsXRef ==
    ("method" :> {"N.C.m()", "N.C.m(int)", "~N.C.m", "N.C.m(int)()", "Call <N.C.m(int)>"}) @@
    ("class" :> {"N.C", "Type <N.C>"})

\* Generic names: the class List<T> and its method Get<T>().
SigsGeneric ==
    ("namespace" :> {"N"}) @@ ("class" :> {"List<T>"}) @@ ("method" :> {"Get<T>()"})
RefsGeneric ==
    ("method" :> {"N.List<T>.Get<T>()"}) @@ ("class" :> {"N.List<T>"})

\* The generic class referred to with a shortened title.
RefsTilde == ("class" :> {"~N.List<T>"})

\* A class with a constructor without parameters.
KindsCtor == {"namespace", "class", "constructor"}
SigsCtor == ("namespace" :> {"N"}) @@ ("class" :> {"C"}) @@ ("constructor" :> {"C()"})
RefsCtor == ("constructor" :> {"N.C.C()"})

\* A method referred to by its own name inside its class.
RefsContext == ("method" :> {"m()"})
=============================================================================
