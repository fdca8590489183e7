------------------------------ MODULE DNXRef ------------------------------
(***************************************************************************)
(* The cross-reference path of the :dn: domain: a role such as            *)
(* :dn:method:`C.m()` becomes a pending reference when the document is    *)
(* read (XRefRole.create_xref_node with DNXRefRole's overrides), and the  *)
(* pending reference is resolved against DNDomain.objects once every      *)
(* document is read (DNDomain.resolve_xref, the inherited                  *)
(* JavaScriptDomain.resolve_xref and DNDomain.find_obj).                   *)
(*                                                                         *)
(* The registry is a function from sig id to [nodeId, objtype], as in     *)
(* DNDirective; every reference and object is in one document, so         *)
(* make_refnode gives the link a refid (the anchor) and not a refuri.      *)
(***************************************************************************)
EXTENDS DNSignature

\* Roles created with DNXRefRole(fix_parens=True).
FixParensRoles == {"function", "method", "constructor"}

\* sphinx.util.nodes.split_explicit_title: "title <target>" has an
\* explicit title (regex ^(.+?)\s*<([^<]*?)>$); the title loses the
\* blanks before "<".
SplitExplicitTitle(text) ==
    LET p == RFind(text, "<")
    IN  IF EndsWith(text, ">") /\ p > 1 /\ RStripChar(SubSeq(text, 1, p - 1), " ") # ""
        THEN [explicit |-> TRUE, title |-> RStripChar(SubSeq(text, 1, p - 1), " "),
              target |-> SubSeq(text, p + 1, Len(text) - 1)]
        ELSE [explicit |-> FALSE, title |-> text, target |-> text]

\* (mutation: the override does not trim the doubled parentheses)
UpdateTitleAndTargetNoTrim(explicit, title, target, addParens) ==
    LET t0 == IF ~explicit /\ EndsWith(title, "()") THEN DropLast(DropLast(title)) ELSE title
        t1 == IF ~explicit /\ addParens THEN t0 \o "()" ELSE t0
    IN  [title |-> t1,
         target |-> IF EndsWith(target, "()") THEN DropLast(DropLast(target)) ELSE target]

\* DNXRefRole.update_title_and_target: XRefRole's (an implicit title loses
\* a trailing "()" and, with add_function_parentheses, gets it back; the
\* target loses a trailing "()"), then a title ending ")()" loses "()".
UpdateTitleAndTarget(explicit, title, target, addParens) ==
    LET t0 == IF ~explicit /\ EndsWith(title, "()") THEN DropLast(DropLast(title)) ELSE title
        t1 == IF ~explicit /\ addParens THEN t0 \o "()" ELSE t0
    IN  [title |-> IF EndsWith(t1, ")()") THEN DropLast(DropLast(t1)) ELSE t1,
         target |-> IF EndsWith(target, "()") THEN DropLast(DropLast(target)) ELSE target]

\* (mutation: an implicit target keeps its leading "~")
ProcessLinkKeepsTilde(explicit, title, target) ==
    LET ti == LStripChar(title, ".")
        tt == IF SubSeq(ti, 1, 1) = "~" THEN SubSeq(ti, 2, Len(ti)) ELSE ti
        dot == RFind(tt, ".")
        title2 == IF ~explicit
                  THEN IF SubSeq(ti, 1, 1) = "~" /\ dot # 0 THEN SubSeq(tt, dot + 1, Len(tt))
                       ELSE tt
                  ELSE title
        spec == SubSeq(target, 1, 1) = "."
    IN  [title |-> title2,
         target |-> IF spec THEN SubSeq(target, 2, Len(target)) ELSE target,
         refspecific |-> spec]

\* DNXRefRole.process_link: records dn:object on the node; an implicit
\* title loses leading "." and, written "~a.b", keeps only "b"; the target
\* loses leading "~", and a leading "." makes the reference refspecific.
ProcessLink(explicit, title, target) ==
    LET ti == LStripChar(title, ".")
        tt == IF SubSeq(ti, 1, 1) = "~" THEN SubSeq(ti, 2, Len(ti)) ELSE ti
        dot == RFind(tt, ".")
        title2 == IF ~explicit
                  THEN IF SubSeq(ti, 1, 1) = "~" /\ dot # 0 THEN SubSeq(tt, dot + 1, Len(tt))
                       ELSE tt
                  ELSE title
        tg == IF ~explicit THEN LStripChar(target, "~") ELSE target
        spec == SubSeq(tg, 1, 1) = "."
    IN  [title |-> title2,
         target |-> IF spec THEN SubSeq(tg, 2, Len(tg)) ELSE tg,
         refspecific |-> spec]

\* XRefRole.create_xref_node for role "role" written with text "text",
\* read while dn:object is objContext: the pending_xref node.  dnObject is
\* what process_link stores; jsObject, the key the inherited resolver
\* reads, is never set ("").
PendingXRef(role, text, objContext, addParens) ==
    LET s  == SplitExplicitTitle(text)
        u  == IF role \in FixParensRoles
              THEN UpdateTitleAndTarget(s.explicit, s.title, s.target, addParens)
              ELSE [title |-> s.title, target |-> s.target]
        pl == ProcessLink(s.explicit, u.title, u.target)
    IN  [role |-> role, text |-> text, explicit |-> s.explicit,
         title |-> pl.title, target |-> pl.target, refspecific |-> pl.refspecific,
         dnObject |-> objContext, jsObject |-> ""]

\* (mutation: no "name()" candidate for the method role)
FindObjNoCallCandidate(objects, prefix, name, typ, searchorder) ==
    LET cands == (IF prefix # "" THEN <<prefix \o "." \o name>> ELSE <<>>) \o <<name>>
        order == IF searchorder = 0 THEN Reverse(cands) ELSE cands
        hits == {i \in DOMAIN order : order[i] \in DOMAIN objects}
    IN  IF hits = {} THEN "" ELSE order[Max(hits)]

\* DNDomain.find_obj (mod_name is always None): the candidates from most
\* to least specific, "name()" for the method role only; reversed for
\* searchorder 0; the last candidate in the registry wins.
FindObj(objects, prefix, name, typ, searchorder) ==
    LET base == (IF prefix # "" THEN <<prefix \o "." \o name>> ELSE <<>>) \o <<name>>
        cands == IF typ = "method" THEN Append(base, name \o "()") ELSE base
        order == IF searchorder = 0 THEN Reverse(cands) ELSE cands
        hits == {i \in DOMAIN order : order[i] \in DOMAIN objects}
    IN  IF hits = {} THEN "" ELSE order[Max(hits)]

\* DNDomain.resolve_xref: the inherited resolver (find_obj with the node's
\* js:object; make_refnode with refid = the anchor); on failure one retry
\* with target node.astext() + "<" + target + ">"; a resolved target with
\* "<" has its refid's angle brackets replaced and its text set to the
\* target, with "()" added unless it ends with ")".  An unresolved
\* reference is [name |-> ""] and keeps its title as text.
ResolveXRef(objects, ref) ==
    LET so    == IF ref.refspecific THEN 1 ELSE 0
        first == FindObj(objects, ref.jsObject, ref.target, ref.role, so)
        tgt   == IF first # "" THEN ref.target ELSE ref.title \o "<" \o ref.target \o ">"
        name  == IF first # "" THEN first ELSE FindObj(objects, ref.jsObject, tgt, ref.role, so)
        generic == HasSub(tgt, "<")
    IN  IF name = "" THEN [name |-> "", refid |-> "", text |-> ref.title]
        ELSE [name  |-> name,
              refid |-> IF generic THEN SanitizeId(objects[name].nodeId) ELSE objects[name].nodeId,
              text  |-> IF ~generic THEN ref.title
                        ELSE IF EndsWith(tgt, ")") THEN tgt ELSE tgt \o "()"]
=============================================================================
