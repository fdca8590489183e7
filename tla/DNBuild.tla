------------------------------ MODULE DNBuild ------------------------------
(***************************************************************************)
(* A build of one document: the read phase of DNDirective, during which   *)
(* roles anywhere in the text (at top level or in a directive's body)     *)
(* become pending references, followed by the resolve phase, in which    *)
(* the host resolves every pending reference against the registry the     *)
(* read built.  Resolution reads only the registry and the node, so the   *)
(* order the host resolves references in does not matter and the phase   *)
(* is one step.                                                            *)
(***************************************************************************)
EXTENDS DNDirective, DNXRef

CONSTANTS
    RefTexts,               \* RefTexts[r]: what a :dn:r: role may be written with
    MaxRefs,                \* roles per document
    AddFunctionParentheses  \* the add_function_parentheses setting

VARIABLES
    refs,   \* the pending_xref nodes, in document order
    links   \* links[i]: how refs[i] was resolved; <<>> before the resolve phase

buildVars == <<vars, refs, links>>

BuildInit == Init /\ refs = <<>> /\ links = <<>>

\* A role in the text being read: XRefRole builds the pending reference
\* with the dn:object of the moment.
Role(role, text) ==
    /\ status = "reading"
    /\ Len(refs) < MaxRefs
    /\ refs' = Append(refs, PendingXRef(role, text, objContext, AddFunctionParentheses))
    /\ UNCHANGED <<vars, links>>

\* The read of the document, one directive step at a time.
Read ==
    /\ \/ \E k \in Kinds, noLink \in BOOLEAN : \E sigs \in SigLists(k) : Begin(k, sigs, noLink)
       \/ \E k \in Kinds : \E sigs \in SigLists(k) : BeginFails(k, sigs)
       \/ End
       \/ EndFails
       \/ Finish
    /\ UNCHANGED <<refs, links>>

\* The resolve phase after a completed read (missing-reference handling
\* is the host's: an unresolved reference stays plain text).
ResolveAll ==
    /\ status = "done"
    /\ links = <<>>
    /\ refs # <<>>
    /\ links' = [i \in DOMAIN refs |-> ResolveXRef(objects, refs[i])]
    /\ UNCHANGED <<vars, refs>>

BuildNext ==
    \/ \E r \in DOMAIN RefTexts : \E t \in RefTexts[r] : Role(r, t)
    \/ Read
    \/ ResolveAll

BuildSpec == BuildInit /\ [][BuildNext]_buildVars

-----------------------------------------------------------------------------
(* Properties.                                                             *)

\* A reference written as the identifier of a declared object, with the
\* role of its kind (:dn:method:`N.C.m()`, :dn:class:`N.List<T>`),
\* resolves to that object: role processing, the "()" candidate of
\* find_obj and the generic retry of resolve_xref together reach it.
DeclaredNameResolves ==
    \A i \in DOMAIN links :
      LET t == refs[i].text
      IN  t \in DOMAIN objects /\ objects[t].objtype = refs[i].role => links[i].name = t

\* Every link lands: the refid of a resolved reference is the anchor
\* add_target_and_index gave the object it resolved to.
LinkTargetsAnchor ==
    \A i \in DOMAIN links :
      links[i].name # "" => links[i].refid = objects[links[i].name].nodeId

\* A method, function or constructor reference with an implicit title
\* shows the name as written, ending in exactly one parameter list
\* (update_title_and_target and its ")()" trim; spec: Foo.Bar()() is
\* shown Foo.Bar()).
CallTitleShown ==
    \A i \in DOMAIN links :
      LET t == refs[i].text
      IN  refs[i].role \in FixParensRoles /\ ~refs[i].explicit
          /\ ~HasSub(t, "<") /\ ~HasSub(t, "~") /\ SubSeq(t, 1, 1) # "."
            => LET t0 == IF EndsWith(t, "()") THEN SubSeq(t, 1, Len(t) - 2) ELSE t
               IN  links[i].text = IF EndsWith(t0, ")") THEN t0 ELSE t0 \o "()"

\* Spec 4.4: candidates are built from the enclosing object of the
\* reference; a reference :dn:method:`m()` written inside class N.C, where
\* N.C.m() is declared and no bare m is, resolves to N.C.m().
ContextRelativeResolves ==
    \A i \in DOMAIN links :
      LET r == refs[i]
          full == r.dnObject \o "." \o r.target
          cands == {full, full \o "()"} \cap DOMAIN objects
      IN  r.dnObject # "" /\ cands # {} /\ r.target \notin DOMAIN objects
          /\ r.target \o "()" \notin DOMAIN objects
            => links[i].name \in cands

\* Spec 4.4 (title normalisation): a leading "~" only shortens the title
\* shown.  A reference written "~X" resolves to the object the same role
\* written "X" at the same place resolves to (process_link strips "~" from
\* the target; resolve_xref's retry rebuilds the target from the title).
TildeOnlyShortensTitle ==
    \A i \in DOMAIN links :
      SubSeq(refs[i].text, 1, 1) = "~" =>
        links[i].name =
          ResolveXRef(objects, PendingXRef(refs[i].role, Tail(refs[i].text),
                                           refs[i].dnObject, AddFunctionParentheses)).name
=============================================================================
