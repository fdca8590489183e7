--------------------------- MODULE MCDNSignature ---------------------------
(***************************************************************************)
(* Checks the identifier builder of DNSignature against method            *)
(* declarations built from their parts: the state is one declaration's  *)
(* index,                                                                  *)
(* every declaration is an initial state and each step moves to any       *)
(* other, so an invariant is checked for every declaration and, through    *)
(* the constant tables, for every pair.                                    *)
(***************************************************************************)
EXTENDS DNSignature, TLC

CONSTANTS
    NamePrefixes, \* dotted prefixes written before the method name, all starting "C."
    Names,        \* method names
    Modifiers,    \* parameter modifiers, each with its trailing space
    Types,        \* parameter types
    ParamNames,   \* parameter names; "" writes a bare type
    Returns,      \* return-type suffixes
    MaxParams     \* parameters per method

\* A declaration, in parts.  A parameter with a modifier has a name (the
\* spec's forms: "type name", "this type name", bare "type").
Param == {p \in [mod : Modifiers, type : Types, pname : ParamNames] : p.mod = "" \/ p.pname # ""}
Params == UNION {[1..n -> Param] : n \in 0..MaxParams}

\* The signature line a declaration is written as.
RenderParam(p) == p.mod \o p.type \o (IF p.pname = "" THEN "" ELSE " " \o p.pname)
Render(d) ==
    d.prefix \o d.name \o "("
    \o Join([i \in DOMAIN d.params |-> RenderParam(d.params[i])], ", ")
    \o ")" \o d.ret

\* The name handle_signature gives a method declared outside any class.
\* The declarations in a fixed order; the tables below are indexed by it.
RECURSIVE AsSeq(_)
AsSeq(S) == IF S = {} THEN <<>> ELSE LET x == CHOOSE x \in S : TRUE IN <<x>> \o AsSeq(S \ {x})
PR == AsSeq(NamePrefixes)
NM == AsSeq(Names)
PS == AsSeq(Params)
RT == AsSeq(Returns)
N == Len(PR) * Len(NM) * Len(PS) * Len(RT)
D == [i \in 1..N |->
        LET j == i - 1 IN
        [prefix |-> PR[(j % Len(PR)) + 1],
         name   |-> NM[((j \div Len(PR)) % Len(NM)) + 1],
         params |-> PS[((j \div (Len(PR) * Len(NM))) % Len(PS)) + 1],
         ret    |-> RT[(j \div (Len(PR) * Len(NM) * Len(PS))) + 1]]]

FullnameOf == [i \in 1..N |-> HandleSignature("method", Render(D[i]), "").fullname]

\* create_dotnet_sig_id and node_id_from_sig_id of every declaration.
SigIdOf == [i \in 1..N |-> CreateDotnetSigId("method", FullnameOf[i], Render(D[i]))]
NodeIdOf == [i \in 1..N |-> NodeIdFromSigId(SigIdOf[i])]

\* Spec 4.2: the identifier is the full name followed by the parameter
\* types, "this" dropped, joined with ", " in parentheses.
ExpectedSigId(d) ==
    d.prefix \o d.name \o "("
    \o Join([i \in DOMAIN d.params |-> d.params[i].type], ", ") \o ")"

VARIABLES
    k,      \* the index of the declaration under check
    decl    \* that declaration's signature line, for the reader of a trace

Init == k \in 1..N /\ decl = Render(D[k])
Next == \E j \in 1..N : k' = j /\ decl' = Render(D[j])
Spec == Init /\ [][Next]_<<k, decl>>

TypeOK == k \in 1..N /\ SigIdOf[k] \in STRING /\ NodeIdOf[k] \in STRING

\* create_dotnet_sig_id keeps exactly the type of every parameter, whatever
\* the parameter's form (type name, this type name, bare type) and with a
\* return type after the parameter list (spec 4.2 and section 8).
SigIdEncodesParamTypes == SigIdOf[k] = ExpectedSigId(D[k])

\* node_id_from_sig_id keeps different sig ids apart: two registered
\* methods never share an anchor (docutils rejects a duplicate id).
NodeIdsDistinct ==
    \A j \in 1..N : SigIdOf[j] # SigIdOf[k] => NodeIdOf[j] # NodeIdOf[k]

\* The child summary of class "C" recovers the parameter list from the
\* anchor: the label transform_content gives a method is its name relative
\* to the class followed by the parenthesised type list of its sig id.
SummaryParamsMatchSigId ==
    LET full  == FullnameOf[k]
        sigId == SigIdOf[k]
    IN  ChildLabel(TRUE, "C", NodeIdOf[k], full)
          = SubSeq(full, 3, Len(full)) \o SubSeq(sigId, Len(full) + 1, Len(sigId))
=============================================================================
