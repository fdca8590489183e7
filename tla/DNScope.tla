------------------------------ MODULE DNScope ------------------------------
(***************************************************************************)
(* What the nesting tracker of the :dn: domain promises, without the      *)
(* mechanism: declarations open blocks that nest; each block may name a    *)
(* scope (a namespace or class opens its full name, a dotted declaration  *)
(* its prefix, anything else none), and the current scope is the one     *)
(* named by the innermost block that names one.  Leaving a block makes    *)
(* the scope again what the enclosing blocks say.                         *)
(***************************************************************************)
EXTENDS Naturals, Sequences

VARIABLES
    blocks,   \* the scope each open block names, "" for none, outermost first
    current   \* the current scope, "" for none

\* The scope the blocks "st" establish.
RECURSIVE InScope(_)
InScope(st) ==
    IF st = <<>> THEN ""
    ELSE IF st[Len(st)] # "" THEN st[Len(st)]
    ELSE InScope(SubSeq(st, 1, Len(st) - 1))

ScopeInit == blocks = <<>> /\ current = ""

\* A block opens, naming some scope or none.
OpenBlock ==
    /\ Len(blocks') = Len(blocks) + 1
    /\ SubSeq(blocks', 1, Len(blocks)) = blocks
    /\ current' = InScope(blocks')

\* The innermost block closes.
CloseBlock ==
    /\ blocks # <<>>
    /\ blocks' = SubSeq(blocks, 1, Len(blocks) - 1)
    /\ current' = InScope(blocks')

ScopeSpec == ScopeInit /\ [][OpenBlock \/ CloseBlock]_<<blocks, current>>
=============================================================================
