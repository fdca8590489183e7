---------------------------- MODULE DNDirective ----------------------------
(***************************************************************************)
(* The read phase of one document by the :dn: domain: the host runs each   *)
(* directive (ObjectDescription.run), which parses every signature line    *)
(* (handle_signature), registers the first description of each name        *)
(* (add_target_and_index), opens the nesting scope (before_content),       *)
(* parses the body, where nested directives run in turn, adds the child    *)
(* summary of a class or namespace (transform_content) and closes the      *)
(* scope (after_content).  The body is parsed depth first, so the host's  *)
(* recursion is the stack "open"; which directive comes next is the        *)
(* document's choice and is nondeterministic.                              *)
(*                                                                         *)
(* dn:module is never set by this domain (it has no module directive), so *)
(* every mod_name the code reads is None and is left out.                  *)
(***************************************************************************)
EXTENDS DNSignature

CONSTANTS
    Kinds,            \* directive kinds the documents use
    Signatures,       \* Signatures[k]: the signature lines a k directive may carry
    MaxSigs,          \* signature lines per directive
    MaxDirectives,    \* directives per document
    MaxDepth,         \* nesting depth of directives
    Holds             \* Holds[k]: the kinds a k body may hold; Holds["document"] top level

ASSUME Kinds \subseteq DirectiveKinds /\ MaxSigs >= 1 /\ MaxDepth >= 1

VARIABLES
    objContext,   \* env.ref_context['dn:object'], "" for None
    objStack,     \* env.ref_context['dn:objects']
    open,         \* directives whose run() has not returned, outermost first
    objects,      \* DNDomain.objects: sig id -> [nodeId, objtype]
    summaries,    \* the fields transform_content added, in order
    count,        \* directives begun in this document
    status        \* "reading", "done", or "failed" (an exception escaped)

vars == <<objContext, objStack, open, objects, summaries, count, status>>

\* One desc_signature node: its fullname, its ids (empty when the host
\* skipped add_target_and_index for it), the kind of its directive (the
\* desc node's desctype), its sig id and the nesting depth of its directive.
SigNode(fullname, ids, desctype, sigId, depth) ==
    [fullname |-> fullname, ids |-> ids, desctype |-> desctype,
     sigId |-> sigId, depth |-> depth]

SigLists(kind) == UNION {[1..n -> Signatures[kind]] : n \in 1..MaxSigs}

-----------------------------------------------------------------------------
(* The handlers.                                                           *)

\* add_target_and_index for the signatures in "fresh" (the first description
\* of each name in the directive): note_object records the sig id with its
\* node id unless :no_link: is given; a later description overwrites.
AddTargetAndIndex(reg, kind, fresh, sigId, nodeId, noLink) ==
    IF noLink THEN reg
    ELSE LET keys == {sigId[i] : i \in fresh}
             entry(k) == LET i == CHOOSE i \in fresh : sigId[i] = k
                         IN  [nodeId |-> nodeId[i], objtype |-> kind]
         IN  [k \in DOMAIN reg \cup keys |-> IF k \in keys THEN entry(k) ELSE reg[k]]

\* (mutation of before_content: a nestable directive sets dn:object to the
\* prefix it was declared with instead of its own fullname)
BeforeContentSetsPrefix(kind, fullname, prefix) ==
    LET p == IF kind \in Nestable THEN fullname ELSE StripChar(prefix, ".")
    IN  IF p = "" THEN [obj |-> objContext, stack |-> objStack]
        ELSE [obj |-> IF kind \in Nestable THEN StripChar(prefix, ".") ELSE p,
              stack |-> IF kind \in Nestable THEN Append(objStack, p) ELSE objStack]

\* before_content: names.pop() gives the last registered (fullname, prefix);
\* a nestable directive pushes its fullname, any other one only sets
\* dn:object to its own prefix when it has one.
BeforeContent(kind, fullname, prefix) ==
    LET p == IF kind \in Nestable THEN fullname ELSE StripChar(prefix, ".")
    IN  IF p = "" THEN [obj |-> objContext, stack |-> objStack]
        ELSE [obj |-> p,
              stack |-> IF kind \in Nestable THEN Append(objStack, p) ELSE objStack]

\* (mutations of after_content: every directive pops; dn:object is set to
\* the entry popped instead of the new top of the stack)
AfterContentPopsAll(kind) ==
    LET stack == IF objStack # <<>> THEN Front(objStack) ELSE objStack
    IN  [obj |-> IF stack = <<>> THEN "" ELSE Last(stack), stack |-> stack]
AfterContentTakesPopped(kind) ==
    LET stack == IF kind \in Nestable /\ objStack # <<>> THEN Front(objStack) ELSE objStack
    IN  [obj |-> IF objStack = <<>> THEN "" ELSE Last(objStack), stack |-> stack]
\* after_content: a nestable directive pops (an empty stack is ignored);
\* dn:object becomes the top of the stack, or None.
AfterContent(kind) ==
    LET stack == IF kind \in Nestable /\ objStack # <<>> THEN Front(objStack) ELSE objStack
    IN  [obj |-> IF stack = <<>> THEN "" ELSE Last(stack), stack |-> stack]

\* transform_content of the directive "top": the signature nodes of its
\* body, for a namespace without those of method directives.
SummaryNodes(top) ==
    IF top.kind = "namespace"
    THEN SelectSeq(top.desc, LAMBDA n : n.desctype # "method")
    ELSE top.desc

\* transform_content only acts for classes and namespaces with a directive
\* in their body (tested before the namespace filter).
Summarised(top) == top.kind \in ClassKinds \cup {"namespace"} /\ top.desc # <<>>

\* ids[-1] of a node without ids, or a fullname without sig_name + "."
\* in it, raises IndexError out of transform_content.
TransformFails(top) ==
    /\ Summarised(top)
    /\ \E i \in DOMAIN SummaryNodes(top) :
          LET n == SummaryNodes(top)[i]
          IN  n.ids = <<>> \/ ~ChildLabelDefined(top.sigName, n.fullname)

\* The Methods (class) or Types (namespace) field listing the nodes.
SummaryField(top) ==
    LET nodes == SummaryNodes(top)
        entry(n) == [label |-> ChildLabel(top.kind \in ClassKinds, top.sigName,
                                          Last(n.ids), n.fullname),
                     refid |-> SanitizeId(Last(n.ids)),
                     node  |-> n]
    IN  [owner   |-> [kind |-> top.kind, fullname |-> top.fullname, depth |-> Len(open)],
         field   |-> IF top.kind = "namespace" THEN "Types" ELSE "Methods",
         entries |-> [i \in DOMAIN nodes |-> entry(nodes[i])]]

-----------------------------------------------------------------------------
(* The actions.                                                            *)

Init ==
    /\ objContext = ""
    /\ objStack = <<>>
    /\ open = <<>>
    /\ objects = <<>>
    /\ summaries = <<>>
    /\ count = 0
    /\ status = "reading"

\* The signature lines the host hands to add_target_and_index: the first
\* of each (fullname, prefix) the lines parse to.
FreshSigs(parsed) ==
    {i \in DOMAIN parsed :
        \A j \in 1..(i - 1) : <<parsed[j].fullname, parsed[j].prefix>>
                             # <<parsed[i].fullname, parsed[i].prefix>>}

\* create_dotnet_sig_id reads sig.split("(")[1]: a method or constructor
\* line without "(" raises IndexError when it is registered.
SigIdFails(kind, sigs, parsed) ==
    kind \in MethodKinds /\ \E i \in FreshSigs(parsed) : ~HasSub(sigs[i], "(")

\* A directive begins: run() parses each signature line, registers the
\* first description of each (fullname, prefix), then before_content.
Begin(kind, sigs, noLink) ==
    /\ status = "reading"
    /\ count < MaxDirectives
    /\ Len(open) < MaxDepth
    /\ kind \in Holds[IF open = <<>> THEN "document" ELSE Last(open).kind]
    \* (each value is bound once with \E x \in {e}: it is used many times;
    \* sig ids are computed for the registered lines only)
    /\ \E parsed \in {[i \in DOMAIN sigs |-> HandleSignature(kind, sigs[i], objContext)]} :
       \E fresh \in {FreshSigs(parsed)} :
       /\ ~SigIdFails(kind, sigs, parsed)
       /\ \E sigId \in {[i \in DOMAIN sigs |->
                          IF i \in fresh THEN CreateDotnetSigId(kind, parsed[i].fullname, sigs[i])
                          ELSE ""]} :
          \E nodeId \in {[i \in DOMAIN sigs |-> NodeIdFromSigId(sigId[i])]} :
          \E last \in {parsed[Max(fresh)]} :
          \E ctx \in {BeforeContent(kind, last.fullname, last.prefix)} :
          LET node(i) == SigNode(parsed[i].fullname,
                                 IF i \in fresh THEN <<nodeId[i]>> ELSE <<>>,
                                 kind, sigId[i], Len(open) + 1)
          IN  /\ objects' = AddTargetAndIndex(objects, kind, fresh, sigId, nodeId, noLink)
              /\ objContext' = ctx.obj
              /\ objStack' = ctx.stack
              /\ open' = Append(open,
                           [kind      |-> kind,
                            fullname  |-> last.fullname,
                            prefix    |-> last.prefix,
                            member    |-> last.member,
                            sigName   |-> parsed[Len(sigs)].sigName,
                            ctxBefore |-> objContext,
                            sigNodes  |-> [i \in DOMAIN sigs |-> node(i)],
                            desc      |-> <<>>])
    /\ count' = count + 1
    /\ UNCHANGED <<summaries, status>>

\* add_target_and_index raises for a signature line; the build of the
\* document fails.
BeginFails(kind, sigs) ==
    /\ status = "reading"
    /\ count < MaxDirectives
    /\ Len(open) < MaxDepth
    /\ kind \in Holds[IF open = <<>> THEN "document" ELSE Last(open).kind]
    /\ SigIdFails(kind, sigs, [i \in DOMAIN sigs |-> HandleSignature(kind, sigs[i], objContext)])
    /\ status' = "failed"
    /\ UNCHANGED <<objContext, objStack, open, objects, summaries, count>>

\* The body is parsed: transform_content, then after_content; the host
\* appends the finished desc node to the enclosing body.
End ==
    LET top == Last(open)
        rest == Front(open)
        ctx == AfterContent(top.kind)
    IN  /\ status = "reading"
        /\ open # <<>>
        /\ ~TransformFails(top)
        /\ summaries' = IF Summarised(top) THEN Append(summaries, SummaryField(top)) ELSE summaries
        /\ objContext' = ctx.obj
        /\ objStack' = ctx.stack
        /\ open' = IF rest = <<>> THEN rest
                   ELSE [rest EXCEPT ![Len(rest)].desc = @ \o top.sigNodes \o top.desc]
        /\ UNCHANGED <<objects, count, status>>

\* transform_content raises IndexError; the build of the document fails.
EndFails ==
    /\ status = "reading"
    /\ open # <<>>
    /\ TransformFails(Last(open))
    /\ status' = "failed"
    /\ UNCHANGED <<objContext, objStack, open, objects, summaries, count>>

\* The document ends with every directive closed.
Finish ==
    /\ status = "reading"
    /\ open = <<>>
    /\ count > 0
    /\ status' = "done"
    /\ UNCHANGED <<objContext, objStack, open, objects, summaries, count>>

Next ==
    \/ \E k \in Kinds, noLink \in BOOLEAN : \E sigs \in SigLists(k) : Begin(k, sigs, noLink)
    \/ \E k \in Kinds : \E sigs \in SigLists(k) : BeginFails(k, sigs)
    \/ End
    \/ EndFails
    \/ Finish

Spec == Init /\ [][Next]_vars

-----------------------------------------------------------------------------
(* Properties.                                                             *)

SigNodeOK(n) ==
    /\ n.desctype \in Kinds
    /\ Len(n.ids) <= 1
    /\ n.depth \in 1..MaxDepth

\* The values dn:object can hold: None, the fullname of an open nestable
\* directive, or the prefix of an open declaration.
ContextValues ==
    {""} \cup {open[i].fullname : i \in {j \in DOMAIN open : open[j].kind \in Nestable}}
         \cup {StripChar(open[i].prefix, ".") : i \in DOMAIN open}

TypeOK ==
    /\ objContext \in ContextValues
    /\ Len(objStack) <= Len(open)
    /\ Len(open) <= MaxDepth
    /\ \A i \in DOMAIN open :
          /\ open[i].kind \in Kinds
          /\ \A j \in DOMAIN open[i].sigNodes : SigNodeOK(open[i].sigNodes[j])
          /\ \A j \in DOMAIN open[i].desc : SigNodeOK(open[i].desc[j])
    /\ \A k \in DOMAIN objects : objects[k].objtype \in Kinds
    /\ count \in 0..MaxDirectives
    /\ status \in {"reading", "done", "failed"}

\* before_content/after_content keep dn:objects equal to the fullnames of
\* the nestable directives (namespace, class, ...) whose body is being
\* parsed, innermost last: no directive leaves an entry behind or pops
\* one it did not push.
StackMirrorsNesting ==
    LET nest == SelectSeq(open, LAMBDA r : r.kind \in Nestable)
    IN  objStack = [i \in DOMAIN nest |-> nest[i].fullname]

\* Spec section 8: nesting is balanced; when a directive's body is left
\* (after_content), dn:object is again what it was before the directive.
NestingBalanced ==
    [][Len(open') < Len(open) => objContext' = Last(open).ctxBefore]_vars

\* The scope a directive's block names to the abstract tracker: a
\* namespace or class its full name, another directive the prefix it is
\* declared with (before_content's choice of what to record).
BlockScope(r) == IF r.kind \in Nestable THEN r.fullname ELSE StripChar(r.prefix, ".")

ScopeAbs == INSTANCE DNScope
    WITH blocks <- [i \in DOMAIN open |-> BlockScope(open[i])], current <- objContext

\* dn:object, kept by before_content and after_content through
\* dn:objects, implements the abstract scope stack of DNScope: every
\* directive that opens sets the scope its block names (or keeps the
\* enclosing one), and every one that closes restores the scope of the
\* blocks still open.
ScopeRefinement == ScopeAbs!ScopeSpec

\* Spec 4.3 (child summary): each child of a class or namespace is
\* labelled with its full name relative to that class or namespace (the
\* enclosing prefix stripped), which transform_content computes by cutting
\* the child's fullname at the directive's sig_name + ".".
SummaryLabels ==
    \A i \in DOMAIN summaries : \A j \in DOMAIN summaries[i].entries :
        LET owner == summaries[i].owner.fullname
            full  == summaries[i].entries[j].node.fullname
        IN  IsPrefix(SubSeq(full, Len(owner) + 2, Len(full)), summaries[i].entries[j].label)

\* Reading a document never raises out of the domain's handlers.
ReadCompletes == status # "failed"
=============================================================================
