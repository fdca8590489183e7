----------------------------- MODULE DNRegistry -----------------------------
(***************************************************************************)
(* DNDomain.objects across the documents of a project and across          *)
(* incremental builds.  Each document declares a set of sig ids (what     *)
(* add_target_and_index passes to note_object).  The domain inherits the  *)
(* registry handling of JavaScriptDomain: note_object overwrites an entry *)
(* of the same sig id, clear_doc drops the entries owned by a document    *)
(* before it is read again or after it is removed, and, because setup     *)
(* declares parallel_read_safe, merge_domaindata copies in the entries a  *)
(* parallel reader produced for its documents, in whatever order the      *)
(* readers finish.                                                         *)
(***************************************************************************)
EXTENDS Naturals

CONSTANTS
    Docs,       \* document names
    Sources,    \* Sources[d]: the sets of sig ids document d may declare
    MaxEdits,   \* edits, additions and removals of documents
    UniqueSigIds \* the authors keep sig ids unique across the documents
                 \* (spec 3: unique within a build); an edit may still
                 \* move a declaration from one document to another

VARIABLES
    present,    \* the documents of the project
    source,     \* source[d]: the sig ids the current text of d declares
    reg,        \* DNDomain.objects: sig id -> owning document
    stale,      \* present documents not read since they last changed
    running,    \* documents read by parallel readers not merged yet
    edits       \* edits made so far

regVars == <<present, source, reg, stale, running, edits>>

Disjoint(src, docs) == \A d, e \in docs : d # e => src[d] \cap src[e] = {}

\* JavaScriptDomain.clear_doc: entries owned by d are dropped.
ClearDoc(r, d) == [x \in {y \in DOMAIN r : r[y] # d} |-> r[x]]

\* note_object for each sig id d declares: a duplicate overwrites.
NoteObjects(r, d) ==
    [x \in DOMAIN r \cup source[d] |-> IF x \in source[d] THEN d ELSE r[x]]

RegInit ==
    /\ present \in SUBSET Docs
    /\ source \in [Docs -> UNION {Sources[d] : d \in Docs}]
    /\ \A d \in Docs : source[d] \in Sources[d]
    /\ UniqueSigIds => Disjoint(source, present)
    /\ reg = <<>>
    /\ stale = present
    /\ running = {}
    /\ edits = 0

\* The text of a document changes (or it is created).
EditDoc(d, s) ==
    /\ edits < MaxEdits
    /\ running = {}
    /\ s \in Sources[d]
    /\ present' = present \cup {d}
    /\ source' = [source EXCEPT ![d] = s]
    /\ UniqueSigIds => Disjoint(source', present')
    /\ stale' = stale \cup {d}
    /\ edits' = edits + 1
    /\ UNCHANGED <<reg, running>>

\* A document is deleted; the next build clears it from the registry.
RemoveDoc(d) ==
    /\ edits < MaxEdits
    /\ running = {}
    /\ d \in present
    /\ present' = present \ {d}
    /\ stale' = stale \ {d}
    /\ reg' = ClearDoc(reg, d)
    /\ edits' = edits + 1
    /\ UNCHANGED <<source, running>>

\* Serial read (_read_serial): clear_doc, then read one outdated document.
ReadSerial(d) ==
    /\ running = {}
    /\ d \in stale
    /\ reg' = NoteObjects(ClearDoc(reg, d), d)
    /\ stale' = stale \ {d}
    /\ UNCHANGED <<present, source, running, edits>>

\* Parallel read (_read_parallel): clear_doc for every outdated document,
\* then each is read by its own reader.
StartParallel ==
    /\ running = {}
    /\ stale # {}
    /\ reg' = [x \in {y \in DOMAIN reg : reg[y] \notin stale} |-> reg[x]]
    /\ running' = stale
    /\ stale' = {}
    /\ UNCHANGED <<present, source, edits>>

\* A reader finishes: merge_domaindata copies the entries owned by its
\* document (its note_object calls, made on a copy of the cleared registry).
MergeReader(d) ==
    /\ d \in running
    /\ reg' = NoteObjects(reg, d)
    /\ running' = running \ {d}
    /\ UNCHANGED <<present, source, stale, edits>>

RegNext ==
    \/ \E d \in Docs : \E s \in Sources[d] : EditDoc(d, s)
    \/ \E d \in Docs : RemoveDoc(d)
    \/ \E d \in Docs : ReadSerial(d)
    \/ StartParallel
    \/ \E d \in Docs : MergeReader(d)

RegSpec == RegInit /\ [][RegNext]_regVars

-----------------------------------------------------------------------------
(* Properties.                                                             *)

Quiescent == stale = {} /\ running = {}

\* After a build (nothing outdated, no reader running), the registry is
\* exactly what the present documents declare: every declared sig id is
\* registered, to a present document that declares it.
RegistryReflectsSources ==
    Quiescent =>
      /\ DOMAIN reg = UNION {source[d] : d \in present}
      /\ \A x \in DOMAIN reg : reg[x] \in present /\ x \in source[reg[x]]

=============================================================================
