---------------------------- MODULE DNSignature ----------------------------
(***************************************************************************)
(* The string algorithms of the :dn: domain (src/docs/dotnetdomain.py):    *)
(* signature parsing (handle_signature), the method identifier            *)
(* (create_dotnet_sig_id), the anchor id (node_id_from_sig_id) and the    *)
(* labels of the auto-generated child summaries (transform_content).      *)
(*                                                                         *)
(* Strings are TLA+ strings: TLC evaluates Len, SubSeq and \o on them, so  *)
(* the Python str methods the code calls are written with those.  Python  *)
(* None is written "" wherever the code only tests a value's truthiness;  *)
(* dn:object, the one value also tested with "is None", is never set to   *)
(* the empty string (before_content only stores truthy prefixes).         *)
(***************************************************************************)
EXTENDS Integers, SequencesExt

\* ---------------------------------------------------------------------
\* Python str methods.

\* Positions at which t occurs in s.
Occurrences(s, t) ==
    {i \in 1..(Len(s) - Len(t) + 1) : SubSeq(s, i, i + Len(t) - 1) = t}

\* str.find, 1-based, 0 when t does not occur.
Find(s, t) ==
    LET occ == Occurrences(s, t) IN IF occ = {} THEN 0 ELSE Min(occ)

\* str.rfind, 1-based, 0 when t does not occur.
RFind(s, t) ==
    LET occ == Occurrences(s, t) IN IF occ = {} THEN 0 ELSE Max(occ)

HasSub(s, t) == Occurrences(s, t) # {}

EndsWith(s, t) ==
    Len(t) <= Len(s) /\ SubSeq(s, Len(s) - Len(t) + 1, Len(s)) = t

\* s[:-1]
DropLast(s) == SubSeq(s, 1, Len(s) - 1)

\* str.split(sep): every non-overlapping occurrence, left to right.
RECURSIVE Split(_, _)
Split(s, sep) ==
    LET i == Find(s, sep)
    IN  IF i = 0 THEN <<s>>
        ELSE <<SubSeq(s, 1, i - 1)>> \o Split(SubSeq(s, i + Len(sep), Len(s)), sep)

\* str.split(sep, 1)
Split1(s, sep) ==
    LET i == Find(s, sep)
    IN  IF i = 0 THEN <<s>>
        ELSE <<SubSeq(s, 1, i - 1), SubSeq(s, i + Len(sep), Len(s))>>

\* str.rsplit(sep, 1)
RSplit1(s, sep) ==
    LET i == RFind(s, sep)
    IN  IF i = 0 THEN <<s>>
        ELSE <<SubSeq(s, 1, i - 1), SubSeq(s, i + Len(sep), Len(s))>>

\* sep.join(parts)
RECURSIVE Join(_, _)
Join(parts, sep) ==
    IF Len(parts) = 0 THEN ""
    ELSE IF Len(parts) = 1 THEN parts[1]
    ELSE parts[1] \o sep \o Join(Tail(parts), sep)

\* str.replace(old, new), every occurrence
Replace(s, old, new) == Join(Split(s, old), new)

\* str.strip(c) / str.lstrip(c) for a one-character c
RECURSIVE LStripChar(_, _)
LStripChar(s, c) ==
    IF Len(s) > 0 /\ SubSeq(s, 1, 1) = c THEN LStripChar(SubSeq(s, 2, Len(s)), c) ELSE s
RECURSIVE RStripChar(_, _)
RStripChar(s, c) ==
    IF Len(s) > 0 /\ SubSeq(s, Len(s), Len(s)) = c THEN RStripChar(DropLast(s), c) ELSE s
StripChar(s, c) == RStripChar(LStripChar(s, c), c)
Strip(s) == StripChar(s, " ")

\* ---------------------------------------------------------------------
\* The directive classes (DNDomain.directives) and the class attributes
\* and isinstance tests the code branches on.

DirectiveKinds == {"function", "method", "constructor", "namespace",
                   "class", "interface", "struct", "enum"}
\* allow_nesting = True: DNClassDirective and its subclasses, DNNamespaceDirective
Nestable == {"namespace", "class", "interface", "struct", "enum"}
\* isinstance(self, DNClassDirective)
ClassKinds == {"class", "interface", "struct", "enum"}
\* isinstance(self, DNMethodDirective)
MethodKinds == {"method", "constructor"}
\* subclasses of DNCallableDirective (has_arguments, return-type clipping)
CallableKinds == DirectiveKinds \ {"namespace"}

\* ---------------------------------------------------------------------
\* DNCallableDirective.handle_signature: clip a trailing ": ReturnType".
ClipReturnType(sig) ==
    IF ~EndsWith(sig, ")") /\ HasSub(sig, "):")
    THEN RSplit1(sig, ":")[1]
    ELSE sig

\* DNObject.handle_signature(sig) with dn:object = objContext.  Result:
\* the (fullname, prefix) tuple it returns, the signature text it keeps
\* in self.sig_name, and the dotted name written in the signature.  Callable kinds first clip the return type.
HandleSignature(kind, rawSig, objContext) ==
    LET sig      == IF kind \in CallableKinds THEN ClipReturnType(rawSig) ELSE rawSig
        s        == Strip(sig)
        hasArgs  == HasSub(s, "(") /\ EndsWith(s, ")")
        member   == IF hasArgs THEN Strip(Split1(s, "(")[1]) ELSE s
        parts    == RSplit1(member, ".")
        mPrefix  == IF Len(parts) = 2 THEN parts[1] ELSE ""
        name     == parts[Len(parts)]
        prefix   == IF objContext # "" /\ mPrefix # "" THEN objContext \o "." \o mPrefix
                    ELSE IF objContext = "" /\ mPrefix # "" THEN mPrefix
                    ELSE objContext
        fullname == IF prefix # "" THEN prefix \o "." \o name ELSE name
    IN  [fullname |-> fullname, prefix |-> prefix, sigName |-> sig, member |-> member]

\* create_dotnet_sig_id: the registry key.  Only method directives encode
\* their parameter types; each parameter keeps one token of its text.
\* (mutation: a "type name" parameter keeps its name instead of its type)
ParamTypeTakesName(arg) ==
    LET spl == Split(Strip(arg), " ")
    IN  IF Len(spl) = 2 THEN spl[2] ELSE spl[1]

ParamType(arg) ==
    LET spl == Split(Strip(arg), " ")
    IN  CASE Len(spl) = 2     -> spl[1]
          [] Len(spl) = 3     -> spl[2]
          [] spl[1] = "this"  -> spl[2]
          [] OTHER            -> spl[1]

CreateDotnetSigId(kind, fullname, sig) ==
    IF kind \notin MethodKinds THEN fullname
    ELSE LET seg0      == Split(sig, "(")[2]
             seg       == IF SubSeq(seg0, Len(seg0), Len(seg0)) # ")"
                          THEN DropLast(Join(Front(Split(seg0, ":")), ":"))
                          ELSE DropLast(seg0)
             arguments == Split(seg, ", ")
         IN  fullname \o "(" \o Join([i \in DOMAIN arguments |-> ParamType(arguments[i])], ", ") \o ")"

\* node_id_from_sig_id: the anchor, parameter types joined by dashes.
\* (mutation: the anchor drops the parameter list)
NodeIdFromSigIdNoArgs(sig) ==
    LET p == Find(sig, "(") IN IF p # 0 THEN SubSeq(sig, 1, p - 1) ELSE sig

NodeIdFromSigId(sig) ==
    LET p       == Find(sig, "(")
        product == IF p # 0 THEN SubSeq(sig, 1, p - 1) ELSE sig
        args    == IF p # 0 THEN Split(Split(Split(sig, "(")[2], ")")[1], ", ") ELSE <<>>
    IN  IF \E i \in DOMAIN args : args[i] # ""
        THEN product \o "-" \o Join(args, "-")
        ELSE product

\* xref_node_id.replace("<", "_").replace(">", "_")
SanitizeId(id) == Replace(Replace(id, "<", "_"), ">", "_")

\* transform_content: the label of one child in the summary of a class
\* (ofClass) or namespace whose signature text is sigName.  Defined only
\* when the fullname contains sigName + "." (else the code's [1] raises).
ChildLabelDefined(sigName, fullname) == Len(Split(fullname, sigName \o ".")) >= 2

\* (mutation: the dash left by the name is not cut off the parameters)
ChildLabelKeepsDash(ofClass, sigName, nodeId, fullname) ==
    LET params == Replace(nodeId, fullname, "")
        plist  == IF params # "" THEN "(" \o Replace(params, "-", ", ") \o ")" ELSE "()"
        short  == Split(fullname, sigName \o ".")[2]
    IN  IF ofClass THEN short \o plist ELSE short

ChildLabel(ofClass, sigName, nodeId, fullname) ==
    LET params == Replace(nodeId, fullname, "")
        plist  == IF params # "" THEN "(" \o Replace(SubSeq(params, 2, Len(params)), "-", ", ") \o ")"
                  ELSE "()"
        short  == Split(fullname, sigName \o ".")[2]
    IN  IF ofClass THEN short \o plist ELSE short
=============================================================================
