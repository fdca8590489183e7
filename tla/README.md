# TLA+ models of the `:dn:` Sphinx domain

The repository's documentation tooling is a single Sphinx extension,
`src/docs/dotnetdomain.py`. It adds a `:dn:` domain for documenting .NET
APIs. This directory holds TLA+ models of that extension, together with the
TLC configurations that check them.

## The system

The extension has these parts. Line numbers refer to `src/docs/dotnetdomain.py`.

| part | code | what it does |
|---|---|---|
| signature parser | `DNObject.handle_signature` (75-140), `DNCallableDirective.handle_signature` (425-442) | Clips a `: ReturnType`, splits `Prefix.Name(args)`, and prefixes the current context `dn:object`. Returns `(fullname, prefix)`. |
| method identifiers | `create_dotnet_sig_id` (183-221), `node_id_from_sig_id` (166-181) | Turns a method signature into the registry key `Full.Name(T1, T2)` and the anchor `Full.Name-T1-T2`. |
| registry | `add_target_and_index` (142-162) | Adds the anchor to the signature node and records the key in `DNDomain.objects` (`note_object`) unless `:no_link:` is given. |
| nesting | `before_content` (237-271), `after_content` (273-290) | Keeps `ref_context['dn:objects']` (a stack of the open namespaces and classes) and `ref_context['dn:object']` (the current prefix). |
| child summaries | `transform_content` (301-379) | Gives a class a "Methods" field and a namespace a "Types" field. Each field lists the signature nodes in the body, labelled and linked by their anchor. |
| cross references | `DNXRefRole` (511-535), `DNDomain.find_obj` / `resolve_xref` (561-609) | Turns `:dn:method:` and similar roles into links through the registry. |
| setup | `setup` (611-618), `DNDomain.directives` / `roles` (540-559) | Registers the domain, its directive and role tables, and declares `parallel_read_safe`. |
| fields, index | `DNFieldMixin` (52-56), `get_index_text` (223-235) | Rendering only. |

**How the parts interact.** Sphinx reads each document and runs every
directive through `ObjectDescription.run`. For each signature line, `run`
calls `handle_signature`, and then calls `add_target_and_index` the first
time it sees a given `(fullname, prefix)`. After that come `before_content`,
the body (whose directives run in turn, depth first), `transform_content`
and `after_content`. The only channels between directives are `dn:object`
and `dn:objects`, and `handle_signature` reads them. Once every document is
read, the registry is merged and `resolve_xref` resolves the roles against it.
Roles (`:dn:method:` and the others) are processed while their document is
read, and they record `dn:object` as it is at that moment. Because `setup`
declares `parallel_read_safe`, Sphinx may read documents in parallel
processes and merge their registries (`merge_domaindata`) in any order.
Between builds, only changed documents are read again, after `clear_doc`
drops their entries.

## Modules

- **`DNSignature.tla`** holds the pure string algorithms as operators.
  - TLA+ strings stand in for Python `str`.
  - The `str` methods the code calls are small operators: `Split`, `RSplit1`, `Join`, `Replace`, `Strip`, `Find`.
  - `HandleSignature`, `ClipReturnType`, `ParamType`, `CreateDotnetSigId`, `NodeIdFromSigId`, `ChildLabel` and `SanitizeId` translate the code line by line, with the same branches.
  - The kind sets (`Nestable`, `ClassKinds`, `MethodKinds`, `CallableKinds`) stand for the class attributes and `isinstance` tests.
- **`MCDNSignature.tla`** checks the identifier builder.
  - It enumerates every method declaration built from small constant sets: name prefixes, names (generic ones included), parameter modifiers, types, parameter names and return types, with up to `MaxParams` parameters.
  - The state is the index of one declaration. Each `Init` state is one declaration, and `Next` jumps to any declaration. Integer-indexed tables hold the sig id and anchor of every declaration, so an invariant can compare the current declaration with every other one.
- **`DNDirective.tla`** models the read of one document.
  - Variables:
    - `objContext` is `dn:object`, with `""` for None.
    - `objStack` is `dn:objects`.
    - `open` is the host's recursion: the directives whose `run` has not returned, each with its parsed name, the context it was parsed in, its signature nodes and the nodes of its body.
    - `objects` is `DNDomain.objects`.
    - `summaries` holds the fields `transform_content` added.
    - `count` is the number of directives in the document.
    - `status` records whether the read is in progress, done, or failed.
  - `Begin(kind, sigs, noLink)` is the first half of `run`: every signature line goes through `HandleSignature`, and `AddTargetAndIndex` runs for the first signature of each name. Then comes `BeforeContent` on the last registered name (`names.pop()`).
  - `End` is the second half. It applies `transform_content` (`SummaryField`) and `AfterContent`, then appends the signature nodes and body to the enclosing directive's body.
  - `EndFails` is the same step when `transform_content` raises `IndexError`.
  - `Finish` ends the document.
  - `BeginFails` is `Begin` raising: a fresh method line without `(` makes `create_dotnet_sig_id` raise (line 190). `FreshSigs` is the host's rule that only the first line of each `(fullname, prefix)` is registered.
  - The constant `Holds` says which kinds a body may contain. It is the document's shape.
- **`MCDNDirective.tla`** supplies the signature lines per kind and the `Holds` shapes for the runs.
- **`DNScope.tla`** is the abstract promise of the nesting tracker.
  - It has a stack of blocks, each naming a scope or none, and a current scope.
  - The current scope is the innermost named block's scope (`InScope`, recursive).
  - `OpenBlock` pushes any block; `CloseBlock` pops one.
  - `DNDirective` is shown to implement it: `ScopeAbs == INSTANCE DNScope WITH blocks <- ..., current <- objContext`. Each open directive maps to the scope it opens (`BlockScope`: its full name if nestable, its dotted prefix otherwise). `ScopeRefinement == ScopeAbs!ScopeSpec` is checked as a `PROPERTY`. `after_content`'s recomputation is exactly what fails this refinement when a dotted method has a nested body; the nesting run uses document shapes where bodies nest only in namespaces and classes.
- **`DNXRef.tla`** holds the cross-reference operators.
  - `SplitExplicitTitle` is Sphinx's `split_explicit_title` (which also splits `List<T>` into title `List` and target `T`).
  - `UpdateTitleAndTarget` and `ProcessLink` are `DNXRefRole`'s overrides. `PendingXRef` is the node they produce: `dnObject` is what `process_link` stores, and `jsObject` is the key the inherited resolver reads, which nothing sets.
  - `FindObj` and `ResolveXRef` are `find_obj` and `resolve_xref`, including the retry with `title<target>` and the refid and text rewrite for generic targets.
- **`DNBuild.tla`** composes the read of a document (`DNDirective`) with its roles.
  - `Role` can occur at any point of the read, with the `dn:object` of that point.
  - `ResolveAll` resolves every pending reference against the finished registry. Resolution reads only the registry and the node, so one step stands for the host's loop.
- **`MCDNBuild.tla`** supplies the declarations and role texts.
- **`DNRegistry.tla`** models the registry across documents and builds.
  - A document is abstracted to the set of sig ids it declares, which `DNDirective` computes.
  - `EditDoc` and `RemoveDoc` are changes between builds.
  - `ReadSerial` is `clear_doc` followed by the read's `note_object` calls.
  - `StartParallel` clears every outdated document and starts one reader per document. `MergeReader` is one reader's `merge_domaindata`, in any order.
  - The constant `UniqueSigIds` says whether authors keep every sig id declared by one present document at a time, as spec section 3 asks (`Disjoint`). A declaration may still move from one document to another between builds.
- **`MCDNRegistry.tla`** gives three documents sharing a movable declaration, and two documents that declare the same sig id.

## Runs

| run | cfg | expect | shows |
|---|---|---|---|
| nesting | DNDirective_nesting.cfg | pass | Covers up to 4 directives, 3 deep (namespace `N`; class `C`, `X.D`, `P(int x)`; method `m(int x): bool`, `Y.Get<T>()`, `m`; constructor). `dn:objects` always mirrors the open namespaces and classes (`StackMirrorsNesting`). The tracker refines `DNScope` (`ScopeRefinement`). The bare `m` takes the `BeginFails` path. A child of `P(int x)` takes the `EndFails` path, because the whole line is `sig_name`. 340297 states. |
| xref | DNBuild_xref.cfg | pass | Covers a document of up to 3 directives: `N`, `N.C`, and one of `m()` or `m(int x)`. Up to 2 roles may appear anywhere in the read. A reference to a declared name resolves to it (`DeclaredNameResolves`). A call title shows exactly one parameter list (`CallTitleShown`). A reference written `~X` resolves as `X` does (`TildeOnlyShortensTitle`). The role texts include `~`, a doubled `()` and explicit titles. |
| builds | DNRegistry_builds.cfg | pass | Three documents, with up to 5 edits, additions and removals. `C.m(int)` may move between any of them, but is never declared twice at once. Reads are serial or parallel, and the merges interleave. After every build the registry is exactly what the present documents declare (`RegistryReflectsSources`). |
| ids | DNSignature_ids.cfg | pass | Every declaration tested gets a sig id listing exactly its parameter types (`SigIdEncodesParamTypes`). Distinct sig ids get distinct anchors (`NodeIdsDistinct`). The class summary's label recovers the parameter list from the anchor (`SummaryParamsMatchSigId`). The declarations include `this` parameters, bare types, generic names and types, and return types. |
| overloads | DNDirective_overloads.cfg | violation | `ReadCompletes`: two overload lines in one method directive inside a class make `transform_content` raise `IndexError` (line 338). |
| balance | DNDirective_balance.cfg | violation | `NestingBalanced`: the body of `Y.Get<T>()` holds a directive. After that directive, `dn:object` is None instead of `Y` (line 289). |
| labels | DNDirective_labels.cfg | violation | `SummaryLabels`: in namespace `EdgeDB`, class `DB` labels its method `m(int x)` as `(int)`. `split("DB.")[1]` cuts `EdgeDB.DB.m` inside `EdgeDB.` (line 351). Spec 4.3 says the enclosing prefix is stripped. |
| anchor | DNBuild_anchor.cfg | violation | `LinkTargetsAnchor`: `:dn:class:`N.List<T>`` links to `N.List_T_`, but the anchor is `N.List<T>` (line 602). The summaries make the same replacement (line 356). |
| ctor | DNBuild_ctor.cfg | violation | `DeclaredNameResolves`: `:dn:constructor:`N.C.C()`` never resolves, because there is no `name()` candidate for constructors (line 572). |
| context | DNBuild_context.cfg | violation | `ContextRelativeResolves`: `:dn:method:`m()`` inside class `N.C` misses `N.C.m()`, because `dn:object` is stored but `js:object` is read (line 522). |
| shared | DNRegistry_shared.cfg | violation | `RegistryReflectsSources`: A and B both declare `C.m(int)`. B is read last, then removed, and the unchanged A's declaration is gone from the registry (line 157). |
| tilde | DNBuild_tilde.cfg | violation | `TildeOnlyShortensTitle`: `:dn:class:`~N.List<T>`` never resolves and shows `~N.List`. `split_explicit_title` makes `<T>` an explicit target, and the generic retry rebuilds `~N.List<T>`, keeping the `~` (line 593). |

Each property of a passing run has a mutant in `PROJECT.json`: a plausible
bug in the mapped definition that TLC finds under that run's configuration.
One example is `after_content` popping for every directive. Another is
`node_id_from_sig_id` dropping the parameters.

## Bounds and why they suffice

- **The nesting run** covers 4 directives nested 3 deep, with 4 kinds. That
  is enough for:
  - a namespace containing a class containing a method;
  - siblings after a closed nested directive;
  - dotted prefixes at each level, since `X.D` and `Y.Get<T>()` exercise the prefix branches of `handle_signature` and `before_content`.
- **Two signature lines** per directive (the overloads run) cover the host's
  duplicate-name path. `names.pop()` choosing the last of several distinct
  names is modelled (`Begin`) but not checked. Nothing states which name a
  body should belong to.
- **The identifier run** uses every combination of 2 prefixes, 2 names,
  2 modifiers, 2 types, 2 parameter names and 2 return forms, with up to
  2 parameters. The branches of `ParamType` for 2 tokens, 3 tokens and a bare type (1
  token) are taken, as are both return-type branches. The `this` case of the
  last branch needs four or more tokens and is not reached.
  `Modifiers` has no `ref`/`out`/`in`. The collision they cause
  (`m(ref int x)` and `m(int x)` are both `C.m(int)`) is what the shared run
  starts from.

Longer names or more parameters repeat the same branches.

- **The xref run** uses 3 directives (so only one overload of `m` at a time) and 7 role texts, with up to 2 roles
  placed before, inside or after the directives. This covers every branch of
  `process_link` (`~`, a leading `.`, an explicit title), the `)()` trim, the
  `name()` candidate and both hit orders.
- **The builds run** uses three documents and up to 5 changes. That is
  enough for several cases:
  - a declaration moving from one document to another, whether the new owner is read before or after the old one;
  - a removal and a re-addition;
  - a parallel read of three documents in any merge order.
  The shared run needs only two documents and 2 changes.

## Fairness

No fairness is assumed, and every property is a safety property.
- **Reading one document** is a finite, sequential walk.
- **The registry.** That a build eventually finishes holds by Sphinx's
  reader loop together with a bounded number of edits, whatever the domain
  does. It says nothing about this code, so it is not checked.

`CHECK_DEADLOCK FALSE` is set because a finished or failed read, and a built
project with no edits left, have no next step.

## Not modelled

- **Index entries and field-list placement.** `add_target_and_index` appends an index entry (lines 159-162, text from `get_index_text`). `transform_content` places the field list (lines 321-331 and 362-379). These are output for the index and the page, and nothing in the domain reads them back. `AddTargetAndIndex` therefore stands for lines 142-157.
- **`DNFieldMixin` and the field classes.** `make_xref` returns a literal whenever a role name is set. Every field the domain declares has one (`bodyrolename='obj'` for the summary fields, and `typerolename` `property` or `function`). So the `pending_xref` branch (line 56) is never taken, and fields add nothing to the registry or to the references.
- **`make_old_id`.** Nothing in the domain or in Sphinx calls it.
- **Composition of `DNRegistry` with `DNDirective` over several documents.** `DNRegistry` abstracts each document to its declared sig ids. A product of several full document reads is beyond TLC's reach at useful bounds, and adds nothing: a read changes the registry only through `note_object` for the sig ids it declares, which is what `DNRegistry` keeps.
- **Precedence between `name` and `name()` in `find_obj` (line 579).** The prefix is always None because the inherited resolver reads `js:object`, which the domain never sets. So at most the two candidates `name` and `name()` compete, and the order of the candidates decides which one wins. Section 9 of the spec leaves the precedence open and asks to keep the code's behaviour, so no property states a preferred order. `DeclaredNameResolves` still checks that a declared name always resolves to some declaration.

`setup` is modelled. `parallel_read_safe` is the parallel read and merge of `DNRegistry` (`StartParallel`). Its directive and role tables are the kind sets of `DNSignature` and the role table of `DNXRef`.
