# astkit in TLA+

astkit turns source files of some twenty languages into symbols, call sites,
imports and syntax verdicts. It drives tree-sitter grammars through cgo, walks
the trees with per-language strategies, and masks comments and literals where
text is scanned instead of trees. This directory models the parts of it that
have state and control, checks them with TLC on small instances, and proves the
main results about seven of them with TLAPS for every value of the constants.

## 1. Inventory

| Component | Code | State it keeps | Operations | What is hard |
|---|---|---|---|---|
| Registry | `engine.go:180-246` | the strategy map, under an RWMutex | Register, RegisterAs, Get, TextCapable, Extract, ExtractImports | any number of goroutines; the strategy is used after the lock is released |
| Depth guard, recursive walk | `engine.go:248-288`, `internalast/helpers.go:29-42` | cursor, depth, direction; the recursion's frames | guardDepth, WalkTree | off-by-one at the bound, a cursor that cycles, a stack deeper than the bound |
| Engine | `engine.go:21-122`, `kotlinparse.go:32-66` | timeout; per call a parser, a context with timer, one or two trees | Parse, Validate, WithTimeout, firstSyntaxError | native objects that must be closed on every path, one deadline over two parses, cancellation |
| Call columns | `callcolumns.go` | columns per line and name, declarations set aside, occurrences used | fillCallColumns, nameColumns | same-named calls on a line, declarations among them, sites in another order than their tokens |
| Text mask | `textmask/textmask.go` | offset, mutual recursion of code and literals, regex state | Mask, MaskComments, MaskFile | literals in holes of literals, brackets that close a hole or do not, sources cut short |
| Kotlin comment removal | `kotlinparse.go:22-121`, `treeedit.go` | the cuts, a running source position | parseKotlinWithoutComments | edits in sequence, each at offsets the earlier ones moved |
| Preprocessor branches | `textmask/preproc.go`, `lang.go:27-118`, `strategies/cspreproc.go` | a stack of conditionals | MaskInactivePreprocessor, blankCPPOnlyBranches, C# branch choice | nesting, `#elif` chains, exactly one branch kept |
| COBOL and JCL | `strategies/cobol.go`, `strategies/jcl.go`, `textmask.go:1520-1591` | the open program, section, paragraph; job, proc, step, symbols | Extract, ExtractImports, line masks | one pass over lines whose state outlives the unit it belongs to |
| Language strategies | `strategies/registry.go` | none | Default, imports per language | — |
| Symbol extraction | `strategies/extractors.go` | the symbols collected so far, the names, class and scope handed down the walk | per language a walk and up to three passes over its result | declarations nested in functions, lambdas and anonymous classes; symbols derived from others, compared with what earlier passes left |
| Symbol metadata | `strategies/metadata.go` | the call sites of a body | collectCallSites with a language's list of nodes to skip | what one walk skips must be what another collects |
| Tree helpers, languages, symbol types, decoy command, Objective-C grammar | `internalast/`, `lang.go`, `symbol.go`, `cmd/decoy/`, `thirdparty/` | none | lookups, tables, I/O, generated code | — |

How they interact: a caller builds an Engine and a Registry once and shares them
between goroutines. Engine.Parse hands a tree to the caller, who owns it and
passes it to Registry.Extract; that checks the tree's depth before the recursive
extractors see it, and calls the strategy it found under the lock, without the
lock. Strategies collect symbols and call sites; fillCallColumns then gives the
call sites their columns, on masked lines. Parse removes Kotlin's comments (with
the mask) before parsing, and puts the positions back.

What makes each correct: the Registry behaves like an atomic map and no map
access overlaps a write; the guard accepts exactly the trees within the bound,
and so bounds the recursion; a call of the engine leaks nothing, uses nothing
closed, ends within its deadline, and names the first error; a column is the
token of the call that carries it, and an edited Kotlin tree addresses the
source; a call belongs to the innermost declaration around it and to no other, a
symbol's parent exists, and no clean-up pass repeats or loses a declared name; a mask hides all comment and literal text and
no code, on well-formed source, and returns on any source. PROJECT.json lists
the hazards with the line each bites at.

## 2. Modules

| Module | Models | Kind |
|---|---|---|
| `SyntaxTree` | tree-sitter trees as the code walks them (external): a tree is the sequence of its nodes' levels in preorder | data |
| `SyntaxTree_proof` | lemmas on those trees: levels of first child, sibling and parent, the least node, order of siblings; ranks in finite sets of numbers | proofs |
| `DepthGuard` | guardDepth's cursor loop, then WalkTree's recursion | component |
| `RegistryObject` | the atomic strategy map a Registry promises | abstract specification |
| `Registry` | the RWMutex, the map accesses that begin and end, the strategy call after unlocking | component, refines `RegistryObject` |
| `Registry_proof` | the theorems on `Registry`, the refinement among them, and on `DepthGuard`, which Extract runs before a strategy | proofs |
| `Engine` | one call of Parse or Validate, with time, cancellation and other goroutines deriving engines | component |
| `Engine_proof` | its theorems | proofs |
| `CallColumns` | fillCallColumns' two passes over symbols and sites | component |
| `KotlinCuts` | parseKotlinWithoutComments: the lines cut, and the tree edits that put them back | component |
| `Positions_proof` | the theorems on `CallColumns` and on `KotlinCuts`, with lemmas on lines and positions | proofs |
| `Extraction` | what all extractors share: the file and its tree, symbols, qualified names, collectCallSites, a pass | component |
| `CsSymbols`, `GoSymbols`, `JavaSymbols`, `JsSymbols`, `KotlinSymbols`, `PhpSymbols`, `PySymbols`, `RustSymbols`, `SwiftSymbols` | the passes and call sites of one language each | components, extend `Extraction` |
| `CppSymbols` | the functions, classes and members of C and C++ files, region by region | component, extends `Extraction` |
| `ObjcSymbols` | the containers of Objective-C and the passes for what its grammar misreads, after the walk of C | component, extends `CppSymbols` |
| `Symbols` | extraction in any of these languages, and its properties | composition |
| `Symbols_proof` | theorems on whose a call is, for all languages, and on the access of C++ methods | proofs |
| `SymbolNames_proof` | the theorem on what symbols are named after, language by language | proofs, extends `Symbols_proof` |
| `MaskTokens` | the lexemes the scanner takes in one go | algorithms |
| `TextMask` | the scanner: code, holes, and the literals with loops of their own | component |
| `TextMask_proof` | its theorem on offsets, with lemmas on the scans of `MaskTokens` | proofs |
| `CSCondition` | csEvalCondition's parser of C# conditions | algorithm |
| `Preproc` | the three passes over conditional directives: disabled branches, C++-only branches, losing C# branches | component |
| `Preproc_proof` | theorems on all three passes | proofs |
| `Cobol`, `Jcl` | the two strategies that read lines instead of trees | components |
| `MC...` | instances for TLC; `MCMainframe` has a COBOL file or a JCL deck, `MCPositions` a file with call columns or a Kotlin file | model checking |

`DepthGuard`, `Engine` and `Extraction` extend `SyntaxTree`; `TextMask` extends `MaskTokens`
and `Preproc` `CSCondition`.

### How they correspond to the code

**DepthGuard.** A tree is the sequence of node levels in preorder, so a cursor is
an index. `verdict`, `at`, `depth`, `dir` are the loop's locals; `Descend`,
`ToSibling`, `ToParent` are its three cursor moves, with the depth test right
after the move it follows. `frames` is the call stack of WalkTree, one frame per
active call with the child it recurses into next; `visited` records the visits.

**Registry.** `Begin(p)` starts a call and asks for the lock, `RLock`, `Lock`
and their waiting follow sync.RWMutex (a waiting writer blocks new readers), and
map reads and writes have a begin and an end, so that an overlap is a state. The
call of the strategy comes after `RUnlock`, as in the code. The refinement
mapping to `RegistryObject` places each call's effect at its map access.

**Engine.** `pc` follows Parse and Validate line by line; deferred calls
(`parser.Close`, `cancel`, `tree.Close`) are actions on the way out, in the order
Go runs them. Time is counted in ticks of parsing: a parse may end at any tick,
or never, and is aborted when its context is done; `left` is what remains of the
deadline. `editable` is whether the tree edit finds go-tree-sitter's layout: if
not, the compact tree is closed and the source parsed again in place, under the
same context. A node is an ERROR node, a MISSING one, which is a leaf, or neither; the
search for the first error follows `firstSyntaxError`, with HasError as tree-sitter's
flag: set by an ERROR node at or below a node, or by a MISSING one below it.

**CallColumns.** A line is a sequence of identifiers, each with whether it looks
called; a column is an index on the line. The two loops are two phases, one action
per branch of their bodies. Byte and character counting is left out.

**KotlinCuts.** A byte is code, blank, comment text or a newline; the tree is
reduced to the positions of its leaves, one per byte of code. `at` is the running
`points`; `PutBack` is one round of the loop over the cuts, with `TreeEdit` as
tree-sitter's rule for what an edit moves, and `ParseInPlace` the way out
when the native tree cannot be reached. Left out: CR LF and other blanks, and how
comments are recognised (TextMask).

**Extraction and the languages.** The parser builds the tree node by node (`Grow`),
under the grammar's rules for what may stand where; then each pass of the
extractor is one action, since a pass reads the tree and the symbols of the earlier
ones and nothing else runs. `prof` is the family of files explored. What a
recursive visitor hands down to a node (its class, qualifier, whether it is in a
function, whether it is exported, or that no visitor gets there) is a function on
the nodes: `JavaCtx`, `JsCtx`, `PyCtx`; what it emits there is `...Emit` or the
operator named after the code's function. Node types that the code treats alike
are one type. A qualified name is a sequence of names. `calls` are the nodes a
symbol's CallSites come from. The properties do not use the walkers' skip lists:
they say by the declarations around a call whose it is. Left out: signatures,
spans, visibility and modifiers, callee names, attribute accesses, destructuring,
the names of computed members, and setters, which Lombok's rule treats as getters.

**RustSymbols.** rustCallSites drops calls by line, so lines are modelled: every node
starts one, except a `here`, which is a call on the line of the node before it.
`RustVisit` is rustVisit's recursion; the scope of a module or function is put before
the names after the walk of its body (`RustScoped`), as in the code, since what
the walk left decides how. The text of a macro's braces is read as nodes, by the
second parse in rustMacroItems or by the scan for call shapes in rustMacroCallSites,
whichever the place allows: outside functions it is read as a file is, also in an
impl or a trait, and what the macro puts there is named as if it stood outside
(`RustDisplaced`). `RustImplTraits` is the pass over impls of traits. A
name is a pair with whether it is written with a path. Left out: bounds and
generic arguments, the traits' own names, and the kinds of structs (struct, union,
enum) and constants (const, static, type), each treated as one.

**CppSymbols.** extractCNodes calls itself for every namespace, conditional region and
`extern "C"` block, and each call ends with dropping prototypes and with
cppApplyDeclaredVisibility over the symbols of its region: `CppVisit` is that
recursion. The order of the symbols is the order of their nodes, which decides whose
access is the last. Records, enums and typedefs outside classes have operators of
their own (`CType`): `CParents` is the parent that cStructFields is called with, or
both where it is called twice. A template is a node around what it declares, since
its functions do not replace prototypes. Left out: aliases, unnamed unions and
structs in classes, templates in classes, unions of C++, `protected` and structs
(they differ in the first access only), macros, and that a symbol may be in the list
twice (it is a set here).

**ObjcSymbols.** Three passes: the walk of C (`CppVisit`) together with the containers,
which have no body node, so that members are their children; the typedefs of blocks;
and the enums declared by macros, whose first item the walk of C takes for a typedef
until the last pass drops it. That pass reads the text; the model reads the nodes
outside disabled branches, which is what the masked text has. Left out: enums whose
misreading swallows what follows, and typedefs that share a line.

**CsSymbols, KotlinSymbols, PhpSymbols, SwiftSymbols.** One visit each (Swift has a
second pass for the protocols its extensions name). What the visits hand down is
`CsClass`, `CsInterface`, `KtType`, `PhpClass`, `SwiftType`: namespaces, conditional
regions, companions, extensions and PHP enums that the grammar closes too early each
change it in their own way. `PhpSpilled` says which siblings the code's loop
counts to such an enum; the grammar's ERROR nodes with a case in them are "case"
nodes. In Kotlin a constructor's calls come from several places
(`KtInitializers`), and a class body on one line has its members below an ERROR
node. The call sites are one walk without nodes to skip in all four; in C# a
constructor's `: base(..)` or `: this(..)` comes in addition, a node "initializer" of
its own, and in PHP a "call" is also what phpIterationSites finds by the same walk
(the iterator's calls of a foreach or an unpacking).
Left out: Kotlin's fun interfaces, PHP's attributes, and what the modules' heads list
as one node type.

**TextMask.** `stack` is the call stack of the mutually recursive scanner
functions; the locals of a function are the fields of its frame. A step is one
round of the innermost loop (one switch arm is one disjunct, guards in the order
of the arms) or a return to one of the kinds of caller (`hole`, `fmtHole`,
`run`). Symbols are characters or whole words, since the scanner only compares
words; offsets count symbols. `MaskTokens` holds the literals without
interpolation, each a function from its first offset to the offset after it.
Left out: CR LF, multi-byte characters, letter case, raw delimiters longer than
16, pairs of string prefixes that Python refuses.

**Preproc.** `tool` says which pass runs; they share the notion of a line, its
directive and what they tell apart of its argument. A step is one round of a
pass's loop over lines, one action per case of its switch; `Decide` is one round
of the C# pass's second loop, over the groups. `hidden` is the set of lines
blanked or reported. What the directives mean is stated apart from the passes, by
counting the conditionals that open and end between two lines (`Deeper`), as
is the value of a condition (`Truth`, given by C#'s grammar in `MCPreproc`).
`Mentioned` is csAlternateInactiveLines' search for `#else` and `#elif` in the text,
which a directive with a blank after its `#` does not meet and a comment may.
Left out: how a line is split into directive and argument but for that blank, and a
condition into tokens.

**Cobol.** A file is a sequence of lines of words; literals are words of their own
kind, and the masked view of a line (`srcLine.code`) is the line without them. A
step is one round of the loop in Extract, one action per form of line, then one per
PERFORM ... THRU, then one per line of ExtractImports; the variables are the
loop's. A procedure's body is the sequence of its lines. The properties read the
same file as one sequence of words, by sentences and level numbers, not by lines.
Left out: detecting fixed format, inline comments, letter case, signatures.

**Jcl.** One action per operation of a statement, in each of the two passes; an
operand is a key and a value. A positional operand that is a symbol, `EXEC &A`, runs
nothing, since reBareOp does not match it. The properties look, for each EXEC and DD,
at the statements before it.

## 3. What the runs check

| Run | Instance | Question |
|---|---|---|
| `DepthGuard` | every ordered tree of up to 6 nodes, and no tree; MaxASTDepth 2 | `VerdictExact`, `StackBounded`, `DocumentOrder` (each node visited once, in preorder), `EventuallyExtracted`, and the inductive invariant `DepthInv` |
| `Registry` | three goroutines (registering, mixed, all lookups), two languages, two strategies, a deep tree | `RaceFree`, `Linearizable` (refinement of `RegistryObject`), `EveryCallReturns`, `IInv` |
| `Engine` | every tree of up to 4 nodes with every set of up to 2 that are ERROR or MISSING; default timeout 1, others 0 and 2; two engines; up to 2 cuts | `NothingLeaks`, `UsedWhileOpen`, `TimeBounded`, `FirstErrorNamed`, `EveryCallReturns`, `IInv` |
| `Positions` | call columns in every file of up to 4 identifiers on 3 lines, two names, sites in source order and outermost first; every Kotlin file of up to 6 bytes | `NoSharedToken`, `NamesTheCallee`, `ExactWhenPlain` (of each name on each line by itself), `LeavesInPlace`, and the inductive invariant `IInv` |
| `CallColumnsToken` | one line of up to 3 identifiers, with chained calls and with `const f = ...` | violated `ColIsTheCallsToken` |
| `Symbols` | every file of up to 5 to 8 nodes over 32 families of node types: Go functions, methods and receivers, and declarations; Java executables, anonymous classes in methods, and members; Python nesting, and names; four of JavaScript and TypeScript (values and assignments, classes and `this`, decorators, ambient and exported declarations); Rust functions, macros and lines, items, modules and impls (items in the text of macros in impls and traits among them), and functions in modules and macro texts; C++ regions and prototypes, methods in and outside of classes, calls, members and friends, templates and enums; C records, enums and typedefs, and C regions; C# global statements and local functions, constructor initializers, and members; Kotlin constructors and initializers, nested types, and enum entries; Objective-C macro enums, and containers; PHP enums closed too early, and classes; Swift extensions, and members | `CallsToInnermost` (Python, Java), `FnCallsToInnermost` (the others but Go), `GoUsesOnce`, `NamedAfterItsParent` (all but JavaScript; of C and C++ records and enums), `DeclaredOnce` (all), `AccessAsDeclared` (C++), `NothingDeclaredLost` (Python, JavaScript, C, C++, Objective-C) |
| `TextMask` | 14 language keys; pairs of pieces, holes one and two deep, strings masked or kept, PHP pages, and every piece cut short after each symbol | `KeepsCode`, `HidesText`, `Terminates`, `TypeOK` (every offset code resumes at is in range) |
| `TextMaskRegex` | one source: comment before a regex | violated `HidesText` |
| `TextMaskHeredoc` | one source: backslash before the closing line | violated `KeepsCode` |
| `Preproc` | all sequences of up to 4 lines (5 of the main kinds), C# conditionals in C# conditionals, alternatives with a blank after the `#` and comments that name one, all C# conditions of up to 3 tokens and all well-formed ones of 4 and 5 | `DisabledBranchesMasked`, `CPPOnlyBranchesBlanked`, `LosingBranchesReported` |
| `Mainframe` | legal data divisions of up to 4 items; procedure divisions of up to 3 lines of any kind, 5 of paragraphs and ranges, two programs; COPY over 3 lines; decks of up to 4 cards, 5 with DD statements | `DataTree`, `CallsReach`, `BodyIsSpan`, `CopiesImported`, `StepsRun`, `DatasetsAgree` |
| `MainframeSteps` | decks with `EXEC P3,PARM=X` | violated `StepsHaveCallSites` |

Why the bounds are enough. DepthGuard: with depth 2 and 6 nodes there are trees on
both sides of the bound, siblings after deep subtrees, and returns over more than
one level. Registry: two writers and a reader that waits behind one are the
cases the RWMutex distinguishes; a third goroutine makes a reader meet a pending
writer behind another reader. Engine: 4 nodes give an error below the first of
two children and one in the second, each an ERROR or a MISSING node; timeouts below and above the default show
that a derived engine does not change a call in progress. CallColumns: two names,
a declaration among two calls on one line, and a symbol whose window spans two
lines fit in 4 identifiers; 6 bytes hold two cuts with code between and after, on
the cut's row and on a later one, and comments at either end. Symbols: a call, the two declarations around it, and
what stands between them (a decorated definition, a lambda, an anonymous class and
its body, a conditional) are 5 or 6 nodes, and a call in a method of an anonymous
class in a method is the sixth below the file; a derived symbol needs its class, its
constructor and a declaration of the same name, 5 nodes with a second one; a C++
method declared in a class and defined in two regions after it fits in 7. TextMask: the scanner's memory is its frame and the
regex state, so a leak shows in whatever follows; each piece is followed by
pieces of every other kind, and holes two deep put a frame of each kind below
another. The pieces hold each other's quotes, comment marks, braces and escapes,
and what must be hidden is labelled in the piece, not computed by the scanner.
Preproc: 5 lines hold a conditional in a branch of another and a line after its
end, and missing or stray directives; 5 tokens hold each operator beside another
of every level, in either order, and within parentheses and negation. Mainframe:
4 items have a level opened, left and opened again with an item of each kind
after; 5 lines have a range with two procedures between its ends, in any order
and with the PERFORM in, before or after it; 4 cards have a symbol set from
another that changes before the step. Sources the code is known to misread (see
5) are left out: condition names of FILLER items, a THRU on the line after its
PERFORM, namesakes in two programs, a second CALL on a line, statements in area
A, JOBLIB in a second job, procedures run with parameters.

Fairness. DepthGuard, TextMask and the steps of an engine call are one goroutine
running sequential code, hence weak fairness of the next step. In Engine the
ticks of a parse and the abort of a parse whose context is done are weakly
fair (tree-sitter polls its cancellation flag); that a parse ends by itself, or
that the caller cancels, is never assumed. In Registry each goroutine's step is
weakly fair once its call began, and RWMutex hands over to a waiting writer;
goroutines need not begin a call.

The runs of Positions, TextMask, Preproc, Mainframe and Symbols disable the deadlock
check: what they model ends. `Terminates` covers a TextMask scan that stops early; the
others are loops over lines or cuts and sequences of passes.

## 4. What is proved

All theorems are for every value of the constants, under the assumptions named in
the modules (`MaxASTDepth` a natural number, trees well-formed, timeouts
natural, the sets of goroutines, languages and strategies arbitrary).

* **Registry_proof, of DepthGuard.** `DepthInductive`: `DepthInv` holds. Its core says that while the
  cursor descends every node up to it is within the bound, and that once it has
  turned across at n the whole subtree of n is; with the depth counter equal to
  the level of the node, this makes the verdict exact. Under an "ok" verdict
  frame k of the recursion stands at level k - 1. Hence `GuardIsExact` and
  `StackIsBounded`. `OrderIsDocumentOrder` needs a second invariant (`WalkOrder`):
  what was visited is the first nodes of the tree, the frames are the nodes above
  the next one, and each frame's next child starts where the visits stopped; so
  that no sum over the recursion is needed to count them.
* **Positions_proof, of CallColumns.** The m-th of the sites with one name and line has the m-th
  occurrence that no declaration took (`Inductive`). The ranks of a finite set of
  numbers are taken through its least element (`SyntaxTree_proof`), without
  induction on its size. Hence `TokensNotShared`, `CalleeIsNamed`, and `PlainIsExact`:
  where sites come in source order, ranks of tokens and ranks of sites agree. The
  only assumption is that lines and symbols are sequences.
* **Positions_proof, of KotlinCuts.** After n edits the tree is the one of the source without the
  later cuts, and `points` is where the n-th cut ended (`KotlinInductive`); hence
  `TreeAddressesSource`. The work is in one edit: no leaf stands in a cut, the leaves
  before it stay, those behind it move by its bytes, and by its columns if they
  share its last row. The number of line breaks before a byte is a cardinality, and
  grows by one or not at all from byte to byte.
* **Registry_proof, of Registry.** `Inductive`: the lock's invariant (at most one writer, no
  reader beside it, a map access only inside the lock's section) for any number of
  goroutines. Hence `NoRace`, and `RegistryIsLinearizable`: initial states map to
  initial states and every step to a step of the atomic map or a stutter.
* **Engine_proof.** `Inductive`: `IInv`, whose parts are the time budget
  (elapsed and remaining ticks add up to the timeout of the engine called),
  what is held at each point of the call, who owns each tree, and that no
  node before the one the search stands at is an error. Hence
  `NoNativeObjectLeaks`, `NoUseAfterClose`, `DeadlineHolds`, `FirstErrorIsNamed`.
* **Preproc_proof.** The invariant of the "inactive" pass: a disabled branch that
  is open is at most `depth` - 1 conditionals above the line, and if `depth` is
  positive one is at exactly that. `depth` alone does not determine which lines
  are in a disabled branch, hence the strengthening. For the "cpponly" pass:
  there are conditionals f[1], f[2], ... , each open and one deeper than the last,
  that the frames stand for, and every other conditional has its #endif. Hence
  `ExactlyDisabledBranches` and `ExactlyCPPOnlyBranches`, for well-nested and
  other sources alike. For the C# pass (`AlternateInductive`): the groups are the
  conditionals read so far in the order of their first lines, each with its branches in
  order, and the stack holds those that are open. `ExactlyLosingBranches` follows for
  every source whose conditions csEvalCondition reads as C# means them; that
  hypothesis is about a recursive parser, and an ASSUME of `MCPreproc` checks it of
  every condition of the run. Otherwise the only assumption is that a source is finite.
* **Symbols_proof.** `Inductive`: wherever the parser puts the next node, each node type
  stands where the walks for declarations look for it, and after every pass each
  symbol has no calls or exactly those collected for the node it stands on. The
  grammar facts are needed because the walks rely on them: javaCallSites does not
  stop at methods, only at the types and class bodies methods stand in. The
  assumption is the grammar (`GoUnder`, `JavaUnder`, ...), for files of every size.
  From the invariant follow:
  * `GoUsesBelongOnce`, since functions of a Go file stand at level 1;
  * `InnermostOwnsCalls` for Java and Python. That the visitors get to every executable
    is needed here, and what pythonVisit hands down is a recursive function on the
    nodes: the first node it were undefined or wrong at would have a parent at which
    it is right;
  * `FunctionsOwnCalls` for the nine other languages. In C, C++, C#, Kotlin,
    Objective-C, PHP and Swift the visit enters no body, so that the symbols with
    calls stand on the outermost ones. In JavaScript the visitors see nothing below
    a function or decorator (`JsUnseenBelow`), what is declared there is added by
    one pass over the whole tree (`JsLocals`), and the walk for calls stops exactly at
    what that pass adds. In Rust the visit gets to every function outside blocks, through
    functions, modules, traits, impls and macro texts (`RustVisitFinds`), and a line
    of a nested function that is also the call's makes the difference. A C# initializer
    stands below its constructor, which stands in no other body (`CsInitializers`);
  * `OneOwnerPerCall` for Java, PHP, Python and Swift after every pass: of two
    owners of a call one stands above the other. In Java and Python what stands
    between them stops the outer walk; in PHP and Swift the inner one has no symbol.
  * `AccessesKept` for C++: what the visit gives a symbol is shown for every way down
    through classes and conditional regions by the same argument on recursive functions;
    each member is marked with the section it stands in, and the last pass gives a
    definition outside the class the one access that the declarations left.
    `NamesInvariant` (each node is named from its type's set) and `AccessAssumption`
    (access specifiers are `public` and `private`) are needed here.

  Attempts at these proofs failed where the model was wrong, and it was corrected: the
  calls of Kotlin's enum entries belong to nobody, jsDecoratorCalls skips nested functions
  as jsCallSites does, and a function in the text of a Rust macro is none of its
  encloser's functions. Arms of a CASE that overlapped were made disjoint.
* **SymbolNames_proof.** `ParentsNamed`, for the eleven languages with a rule. Each
  extractor hands a path of names, a parent or a class down its walk; that this is the
  path of what a node stands in is shown node by node, by the least node it were wrong
  at. For each language one lemma says so of the visit and one of each pass after it.
  What the walks never check is in the grammar: `GrammarOfNames` (where named nodes
  stand) and `GrammarOfSpills` (what follows a PHP enum cut short at its brace are members
  of that enum, never another class). In Rust the visitors start a path afresh at a
  module, trait, struct or impl, and by Rust's grammar none of them stands in an impl or
  a trait; but the text of a macro there may have them. The claim is about the nodes with no
  such item around (`RustPlaced`), and the argument hands that down: what is around a
  placed node is placed (`RustPlacedUp`), so the paths are right all the way. In C the members of a record without a name are named after
  what is declared with it or, without that, after the record around it, at any depth
  (`CParents`, `CThrough`).
* **TextMask_proof.** `ScanInvariant`: the offset is at most one past the end of the
  source, at most the end itself while code or free text is scanned; a call
  that scans code has its bracket depth, a natural number, and the regex state to give
  back; and a tag is read only above the JSX element it belongs to. Every way a literal can open, go on, enter a hole, leave it
  and end is a case. The loops inside a step (comments, quoted text, regexes, PHP
  variables, format specifiers, ...) are recursive functions on offsets; one lemma says
  that a loop whose rank rises at each round is a function, another in what set it ends
  (`LoopExists`, `LoopRange`), both by least elements. Hence `StaysInSource`, for
  every source of every language of the module (`InputsAssumption`).
* **SyntaxTree_proof** has the lemmas on trees the above rest on. They use
  induction only through the least element of a set of naturals.

Only model-checked: all liveness (fairness is beyond the prover); `KeepsCode` and
`HidesText` of TextMask, which compare what is masked with what each source of the run
is known to hide, so that a proof would need the grammar of the literals and induction
over the sources it derives;
how csEvalCondition reads conditions, for the same reason; Cobol and Jcl, whose
lines are joined by a fold over the source; and of Symbols `DeclaredOnce` and
`NothingDeclaredLost`, which relate a symbol to every other one and to every
declaration: they need, beyond `ParentsNamed`, that each language's passes are
complete and what its clean-up passes drop, a proof per pass of its own.

## 5. Where code and documentation disagree

* Chained calls of one name on a line get each other's columns (`CallColumnsToken`).
* A declaration that does not look called, such as `const f = ...`, lets a call
  pass for the declaration (`CallColumnsToken`).
* A comment before a JavaScript regex turns the regex into a division
  (`TextMaskRegex`).
* A backslash at the end of a heredoc's last line hides its end
  (`TextMaskHeredoc`).
* `textmask/preproc.go:9-11` says that strings are respected; a line that reads
  `#if 0` in a multi-line string counts as a directive, since only comments are
  masked before the directives are looked for (no run: lines are abstract here).
* A JCL step that runs a procedure with parameters, `EXEC P3,PARM=X`, gets no call
  site (`MainframeSteps`).
* A condition name below a FILLER item is given the item before the FILLER as its
  parent (`cobol.go:291-292`; no run).
* A `THRU` on the line after its PERFORM is not seen (`mainframe_test.go:140`; no
  run).
* In free-format COBOL, `DISPLAY 'DONE'.` in the first four columns is taken for a
  paragraph named DISPLAY, since literals are blank where paragraphs are looked for
  (no run).
* `export { x }` also exports functions called x that are local to other functions
  (`extractors.go:375`); `DeclaredOnce` and `FnCallsToInnermost` do not look at exports.
* A function in the arrow of a class field, or in a static block, drops the field
  of its name that the constructor assigns (`extractors.go:858`): no more than that
  the name is declared is claimed by `NothingDeclaredLost`.
* javaReattachOrphans never finds an orphan, since javaVisit skips members without
  a type (`extractors.go:1920`).
* The constants of an enum marked @Getter get accessors (`extractors.go:2139`).
* rustCallSites drops every call on a line of a nested function, the encloser's own
  included (`metadata.go:937`), and the calls of functions in nested blocks, which
  have no symbol (`extractors.go:2470`): the exceptions of `FnCallsToInnermost`.
* Modules, types and impls that the text of a macro in a Rust impl or trait declares are
  read and named as if they stood outside (`extractors.go:2583-2609`), though a module
  gets the impl's type for its functions (`extractors.go:2560`): `RustPlaced` in
  `NamedAfterItsParent`.
* A C# constructor initializer written without a blank, `:base(x)`, has no call site
  (`extractors.go:4543`): excepted in `FnCallsToInnermost`.
* `strategies/cspreproc.go:10-11` says that groups with an alternative are decided; in
  a file that writes all of its alternatives with a blank, `# else`, none are
  (`cspreproc.go:22-24`): `Mentioned` in `LosingBranchesReported`.
* `EXEC &A`, a step whose procedure is a symbol that stands alone, gets no call site
  (`jcl.go:38`, 158): excepted in `StepsRun`.
* The items of a module in a Rust function get the function for a parent
  (`extractors.go:2474`); `NamedAfterItsParent` claims nothing about the parents of
  types and constants.
* In the path of a function nested in a method, the type is as the impl writes it,
  in the path of the method without its own path (`extractors.go:2468`):
  `NamedAfterItsParent` compares names up to that.
* An impl of a trait marks the types of that name in every module of the file
  (`extractors.go:2380`; no property).
* A C++ prototype is dropped for a member function of its name, and kept when the
  function is in another region (`extractors.go:3168`): excepted in
  `NothingDeclaredLost` and `DeclaredOnce`.
* Members in a conditional region of a class body have no symbols
  (`extractors.go:3925`): `CppEntered` in the properties.
* Overloads of different access, and methods of classes of one name in two
  namespaces, all get the access of the last (`extractors.go:4193`):
  `AccessAsDeclared` is about methods whose declarations agree.
* A C record defined together with a variable has no symbols (`extractors.go:3074`:
  `CNameable` in `NothingDeclaredLost`), and the members of a typedef's record have
  none in C++ and Objective-C (`extractors.go:3535`).
* An enum in a C record has no symbol, only its constants have
  (`extractors.go:3814`: `CConstOfEnum`), and records in a record with two names are
  listed twice (`extractors.go:3538`).
* The prototype of a C++ function template has no symbol (`extractors.go:4220`):
  excepted in `NothingDeclaredLost`.
* C# global statements in a conditional region are in no symbol
  (`extractors.go:4257`), and functions in an `@implementation` have none
  (`extractors.go:6875`): `BodySymbol` in `FnCallsToInnermost`.
* The initializers of a Kotlin class whose constructors are all secondary
  (`extractors.go:6156`: `KtHasConstructor` in `BodySymbol`) and of one whose body
  is on one line (`extractors.go:6080`: what is below an ERROR node is no
  initializer) lose their calls.
* The protocols of `extension Outer.Inner: P` are lost, and those of
  `extension S: P` go to every type S (`extractors.go:5468`; no property).
* A Swift typealias has no parent (`extractors.go:5851`): excepted in
  `NamedAfterItsParent`.
* The constants of nested Kotlin and Swift enums are qualified by the enum's own
  name (`extractors.go:6169`): `NamedAfterItsParent` claims only their parent.
* Block typedefs under `#if 0` are types (`extractors.go:6503`; no property), and of
  two macro enums with an item in common the first's misread type stays
  (`extractors.go:6602`): excepted in `DeclaredOnce`.
* `engine.go:172-173` says that no language extracts from text; COBOL and JCL do.

Calls that belong to no symbol, by design or not, are written into the properties:
Java initializers and enum constants' arguments, calls in Kotlin enum entries, Go package-level initializers,
JavaScript module-level calls, Python default values and base classes, and in C, C++,
Objective-C, PHP and Swift whatever is called outside functions.

## 6. Not modelled, and what is left

Not modelled: tree-sitter and its grammars (external, used through their cursor
and parse interface), formatting of signatures, file input and output, the `decoy`
command, the tables of `lang.go`, and:

* the imports of `strategies/registry.go`: one lookup per import node;
* callee names, argument labels and macros in `metadata.go`: text without control.

Left to do: type correctness of the scanner's stack, and of Symbols that the names of a
class's members in one pass are those of its declaration.
