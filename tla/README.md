# pine2ast: a verification project

pine2ast is the front end of a Pine Script (v5 and v6) compiler, written in
Python. It reads a script and produces a syntax tree, diagnostics, a semantic
model and metadata for a runtime. This directory holds TLA+ models of the parts
of it whose correctness depends on *sequences* of operations, the TLC
configurations that check them and proofs, checked by TLAPS, of what matters
most. Every definition is translated from the source; `PROJECT.json` names the
lines under `map`.

## The system

A call of `parse_code` runs, in one thread, a fixed sequence of stages:

    SourceNormalizer -> Lexer -> LayoutProcessor -> Parser -> SemanticAnalyzer
      -> runtime contract -> ceilings -> diagnostics -> metadata gates

Nothing runs concurrently and nothing is persisted. What makes the program hard
to get right is state that lives across many recursive calls and is undone by
hand, data kept in two places at once, and limits that cut a result off while a
later stage goes on using it.

| Component | State | Operations | How it interacts |
|---|---|---|---|
| Source normalizer (`source/`) | none | decode, strip BOM, unify line ends | called by `parse` and `parse_file` |
| Lexer (`lexer/`) | position, line, column, diagnostics | `lex` | its tokens feed the layout processor |
| Layout processor (`layout/`) | indentation stack, bracket depth, last token of the last line | `process`, one step per source line | turns lines into INDENT, DEDENT, NEWLINE |
| Parser (`parser/`) | tokens, token index, diagnostics | one function per production; recovery by `_expect`, `_expect_closing`, `_recover_to_line_end` | produces the tree |
| Scope manager (`semantic/analyzer_scope.py`) | scopes, scope stack, flat symbol dictionary, history | `_define`, `_resolve`, `_push_scope`, `_pop_scope` | used by the walk; its dictionary is read by the inference engine |
| Analyzer walk (`semantic/analyzer*.py`, `semantic/passes/`) | depths, loop bounds, script type, predeclared nodes, parameter lists | one handler per node kind, ten passes | drives the scope manager |
| Inference, signatures, registries (`semantic/`) | caches | binding of arguments, choice of an overload, the type of an expression | called by the handlers; the sections for the runtime bind the same calls again |
| User types, enums, methods (`semantic/analyzer*.py`, `passes/collection_validation.py`, `facts.py`) | receivers, parameter lists and fields by name, the symbols the walk leaves behind | predeclaration, handlers, a pass after the walk, the types, methods and callables sections | read by name what the walk wrote under that name |
| Static rules and facts (`semantic/static_validation.py`, `_static_validation_walk.py`, `frontend/`) | the walk's stack, counters, issues | collection of calls with their contexts, four families of rules, extractors of facts | walk the finished tree twice, once for the report and once for the runtime |
| Parse pipeline (`api.py`, `audit.py`) | the accumulating result | stages, ceilings, gates | calls all of the above |
| Front-end artifacts (`frontend/artifact.py`, `frontend/payload.py`) | clock and commit read once, three sealed artifacts | sealing, attaching, building again | after the gates; refer to each other by hash |
| Contracts (`inspect_contract.py`, `contracts/validation.py`, `frontend/schema.py`) | none | inspection payload, exit code, two validators | built from a result later |
| Diagnostics, reference catalogue, command line, tooling | none to speak of | formatting, validation, input and output | around the library |

What makes each correct, in one line:

- *layout*: INDENT and DEDENT balance whatever the indentation; a line in
  brackets is never split unless recovery says so;
- *parser*: it comes to its end on every sequence of tokens and never passes the
  EOF, its blocks are those of the layout, and an error costs no later line that
  it could have kept;
- *scope manager*: the flat dictionary means what block structure says;
- *analyzer*: depths and scopes balance on every path; what is judged by a
  counter is judged by what encloses it lexically; what is looked up by name is
  the thing of that name that is in scope;
- *calls*: a call is rejected only if no overload fits; an accepted call gives
  each parameter one argument, the same one wherever the call is bound again;
- *user types and methods*: what is said of a name after the walk is what the
  name meant where it stands;
- *static rules*: both walks see every call in the same context, and what the
  report says of a call is what the runtime is told of it;
- *pipeline*: no error is lost on the way to a gate, no artifact leaves a run
  that failed;
- *artifacts*: the artifacts of one result agree with each other and with the
  program, whatever happens while they are made, and every verdict on a result
  is the same.

The hazards are listed one by one, with their lines, under `hazards` in
`PROJECT.json`.

## Modules

**`LexicalScopes`** is the abstract specification: a stack of scopes, names
bound in the innermost one, a meaning for every name. No dictionary, no history.

**`ScopeManager`** is `analyzer_scope.py`. Its variables are the fields of the
code: `scopes` is `model.scopes` (only the kind of each; the id is the index),
`stack` is `scope_stack`, `flat` is `model.symbols`, `history` is
`_symbol_history`, `nextId` is `next_symbol_id`; `redeclared` collects the names
REDECLARATION was reported for. `Define`, `Resolve`, `PushScope`, `PopScope` are
the four methods. The loop of `_resolve` searches the *values* of the dictionary
for the id a scope recorded; since `_define` gives an id to one name only, the
module looks at the entry of that name. The loop of `_pop_scope` over a scope's
names has no effect of one name on another, so all are restored in one step.
`Permitted` and `MayOpen` say what callers may ask for: they are the calling
discipline the analyzer keeps, and that it keeps it is itself checked, and proved
(`KeepsScopeDiscipline`). Names are divided into plain ones and qualified ones
(`T.f`), because `_pop_scope` asks whether a dot is in the name.

**`Analyzer`** extends it by the walk: `analyzer.py`, `analyzer_statements.py`,
`analyzer_expressions.py` and the passes they call. A program is given by its
top-level declarations, its declaration statement, the names its reassignments
mention and the builtins of its version (all are read before the walk starts);
the statements inside bodies are chosen as the walk reaches them, from the kinds
the program names, which covers every body without enumerating trees. `frames`
stands for the Python call stack of the
visitors. A handler that calls the scope manager several times leaves those
calls in `todo`, and `RunDefine`, `RunPush`, `RunPop` take them off in order:
one scope operation per step, which is what lets TLC check that each is a step
of `Spec`, the scope manager's. Types are cut down to `int`, `string` and `unknown`,
qualifiers to `const`, `input`, `series`; diagnostics to pairs of code and
subject. An if branch and a switch case are both `OpenBlock`: their conditions
only issue diagnostics of their own. `MutantX` operators are deliberately wrong
variants of the definition that follows them; no specification uses them.

**`MCAnalyzer`** gives the programs, builtins and loop heads TLC uses.

**`AnalyzerProofs`** holds the theorems about `ScopeManager`, that it implements
`LexicalScopes` among them, and those about `Analyzer`, which rest on them.

**`Arguments`** holds what all binders of arguments share: assignability of
types (`type_model.py`), the order of qualifiers (`qualifier_validation.py`), the
reading of generic types, and the versions of "the parameter at this place or of
this name", which the code has several of. A type is the sequence of the pieces
of its name, because the code substitutes letters in the text of types.

**`Collections`** extends it by the operations of arrays, matrices and maps: the
templates of `collection_signatures.py` with one operation for each list of
parameters its table has, the specialization by the type of the receiver, both
forms of call (`array.push(a, v)` and `a.push(v)`), and the rows
`frontend/collections.py` writes of a call for the runtime.

**`Calls`** is the analysis of one call by the seven places that bind arguments:
`SignatureResolver` (`signatures.py`, builtins and their overloads),
`collection_signatures`, `_validate_param_call`,
`_validate_udt_constructor_call`, the static rules, and the two extractors of
`facts.py` and `frontend/`. A behavior offers the call its arguments one by one,
binds the candidates of a builtin one by one (`tried`, `best` are the loop
variables of `resolve`) or those of another callable at once, and makes the checks
`_e_call_expr` makes of the order of the arguments. `diags` are the diagnostics.
The registry's entries are data: `Callables` is a constant.

**`TypeFacts`** is the life of user-defined types, enums and methods:
predeclaration, the visit of each item, the validation of collection operations
after the walk, and the sections on types, methods and callables. `symbols` is
`model.symbols` with its history, here for dotted names too; `receivers`,
`userParams` and `udtFields` are the analyzer's dictionaries by name; `seen`, a
history variable, is each use as the walk saw it, which is what the later passes
are held against. A program is written from one of the `ItemSets`. The module is
proved about together with `Calls`, whose operators bind its arguments, so its
specification, types and passes have names of their own (`FactsSpec`, `TablesOK`,
`pass`).

**`StaticRules`** is the report made after the analysis and the extractors of
facts about requests, strategies and control flow. A behavior builds a tree, walks
it with the explicit stack of `iter_calls_with_context_fast` (`stack`, `calls`),
checks the rules of each family (`counts`, `issues`) and extracts the rows of the
contracts (`rows`), whose recursive walk is the operator `Context`. Of a node only
what the rules read is kept, and `IsNode` says what that is: the arguments of a
call with their names and qualifiers, the selector of a sort (none, a literal
name or index, or any other expression), the bounds of a `for`, known if they are
integer literals.

**`Artifacts`** is what a parse leaves behind. Time passes (`Tick`) and the
checkout of the producer moves (`Checkout`) between any two steps; the commit
comes from the options, the environment or git, which may be unavailable; each
step may raise. `support`, `frontend` and `tree` are the three artifacts as they
are sealed, `attached` what the result carries in the end, `rebuilt` a frontend
artifact built again later, `payload` the inspection payload asked for. Hashes
are injective by being the content itself; the two validators are sets of
issues, one for each thing they reject, and a payload says of each value what
they look at: its type, whether it is empty, the literal or number it is compared
with.

**`MCCalls`, `MCTypeFacts`, `MCStaticRules`, `MCArtifacts`** give callables,
programs, trees and surroundings. **`CallsProofs`** holds the theorems about
`Calls` and `TypeFacts`, **`StaticRulesProofs`** those about `StaticRules`, **`ArtifactsProofs`**
those about `Artifacts`, **`LexerProofs`** those about `Lexer`.

**`Lexer`** is `lexer/lexer.py`. A text is a sequence of *atoms*, one per class
of characters the code tells apart (`Atoms` says which); the properties are
about where tokens begin and end, so the characters themselves and the values of
tokens do not matter. `i`, `line`, `tokens` and `diagnostics` are the code's;
`skipped` is a history variable, the positions that went into no token. One
iteration of the loop of `lex` is one step, except that `_lex_string`, whose
loop tests delimiter, line break, end and escape in an order that matters, is
read atom by atom: `string` is its local state. An exception is a `status`.
Keywords are told from names by a table afterwards, and columns follow from the
positions; both are left out.

**`Layout`** is `layout/processor.py`. A physical line is its indentation and
the classes of its tokens; one step is one iteration of the loop of `process`,
divided by what `_apply_indent` does. `levels` is `indent_stack`, `prevLast` is
`prev_last`, `out` the tokens emitted, with one `LINE` or `WRAP` for those of a
physical line. `starts`, the indentations of all logical lines so far, is a
history variable; the code only asks whether there was one
(`previous_line_was_logical`).

**`Pipeline`** is `api.py` with the parts of `audit.py`, `parser/base.py` and
`source/normalizer.py` that decide which diagnostics there are and what becomes
of them. A stage is an abstract source of reports: which diagnostics it issues
is chosen from the constant `Reports`, one per step, whereas everything the
pipeline itself does with them (where a run ends early, the limits, the gates,
the change of severity for v5 scripts, the deduplication, the truncation, the
audit events) is the code's. `own` is the list the current stage keeps,
`issued` a history variable. The version check of `Parser.parse` is modelled in
full, for the gate depends on it. The analyzer's own limit
(`analyzer_scope.py:282`) is here, as one of the stages' limits, and not in
`Analyzer`, where no scope or counter depends on how many diagnostics there are.

**`Parser`** is `parser/`. A recursive-descent parser keeps its state in the
Python call stack; the module keeps it in `work`, a sequence of tasks, the next
one first. A step runs one task: it moves the index `i`, or replaces the task by
those of its body in the order in which the code makes the calls, so that a
function such as `parse_if` reads as in the code. `Take` and `TakeClosing` are
`_expect` and `_expect_closing`, the two ways to meet an unexpected token;
`Lines` is the loop of every indented body, `NextListItem` that of every list.
Lookahead functions are operators of a position. A token is its kind; the
assignments, the literals whose kind the parser does not ask for, and the
operators of one precedence that behave alike are one kind each, and an
identifier that names a script type is a `HEAD`. `nodes`, the stretches of tokens
that became blocks, statements and operations, stands for the tree, and `errors`
for the diagnostics: where, and from which task. A generated script of every
shape in `MCParser`, and random sequences of tokens, were also given to the real
parser; it reports errors at the same tokens, ends with the same tokens and
makes the same statements.

The modules compose by their data. `Lexer` ends with the tokens whose classes and
indentations `Layout` reads, `MCParser` lays out its lines as `Layout` does, and
what the three report is what `Pipeline` calls reports of `LEX`, `LAYOUT` and
`PARSE`. `Analyzer` drives `ScopeManager` (`KeepsScopeDiscipline` is its
specification as a property). `Calls` and `TypeFacts` both extend `Collections`;
`TypeFacts` adds the scopes that decide which receiver `Collections` is given.
`Artifacts` starts from what `Pipeline` promises of a result
(`ResultsAssumption` is `FatalYieldsNoProgram` and the effect of the limit).

**`MCLexer`, `MCLayout`, `MCParser`, `MCPipeline`** give texts, lines, programs
and reports.
**`LayoutProofs`, `ParserProofs`, `PipelineProofs`** hold the theorems about
`Layout`, `Parser` and `Pipeline`.

## Runs

The program is sequential, and all but one of the properties are safety
properties. `Terminates` is a liveness property of the parser, whose loops run
as long as tokens are left, not a fixed number of times. It assumes
`WF_vars(Next)`: a call that waits for nothing and is given the processor goes
on as long as it has something to do. The other specifications assume no
fairness. Deadlock checking is off because a finished analysis, and a model
whose bound on symbols or scopes is used up, has no next step.

| Run | Instance | Question |
|---|---|---|
| `analyzer` | four groups of programs (below) | do lookups through the flat dictionary answer as block structure does, and refine `LexicalScopes`; do scopes and counters balance; is what they decide decided lexically; do names keep their meaning; are the scope manager's rules kept? |
| `lexer` | every text of up to 7 atoms of strings, 6 of numbers, 4 of the other classes | do strings and numbers end where they should; is every newline counted, and every atom in one token or accounted for? |
| `layout` | every file of up to 6 lines, four indentations | does the stack follow the offside rule, through wrapping, recovery and misaligned lines? do the tokens balance and stand where the parser expects them? |
| `parser` | every program of up to three lines of three kinds (12, 11 and 11 different lines) at three depths, and the same with an ordinary line after it; every expression of three operators, also with brackets, signs and conditionals | does it end? are its blocks those of the layout, its operations those of the precedences? does an error cost no later line where the code says so? |
| `pipeline` | every combination of options, 2 reports a stage, `max_diagnostics` 2 | do early returns, limits, gates and the result agree? |
| `calls` | every call of up to 3 arguments, by position and by name, of six builtins with overloads and removed, later and unsupported parameters, five lists of parameters of functions and constructors, methods, and every collection operation in both forms | is the overload chosen one that fits best; is every parameter given one argument; do the binders agree; do the rows for the runtime say what the call does? |
| `rules` | every tree of up to 4 nodes over requests, strategy calls, structures and exported declarations; each sort and each loop head alone | do the two walks agree; do report and contracts agree on requests and counts; do sorts name one field that can be ordered; do loop rows count what loops do? |
| `artifacts` | every program of up to 5 nodes around requests, every outcome of a parse, every source of the commit, one tick of the clock and moves of the checkout anywhere | do the artifacts of one result agree with each other and with the program, and all verdicts with each other? do both validators pass what is built? |
| `type_facts` | every program of up to 4 items of a group (types, enums and reads of them; methods, collections and calls of them) | does the table the walk leaves behind still say what it should; do the sections name one method for a call; does what is accepted exist? |

The groups of `analyzer`, each with its own bounds on symbols and scopes:
*control* (one name; blocks, three kinds of loop, break, nested functions and
methods; 4 scopes), *shared* (enum, type, import, builtin and local variables
that share three names and two qualified ones; 8 symbols), *calls* (functions
and methods of one name, exports, and declaration statements in the wrong place,
in three kinds of script), *variables* (one name declared globally and in a
block, with and without assignments).

Where a run asks several questions that fail apart, one invariant names their
parts: `WalkInvariant` of `Analyzer` is `WalkTypeOK`, `WalkBalanced`,
`LoopControlLexical`, `NestedCallablesReported` and `ExportsPoliced`;
`NamesKeepTheirMeaning` is `PredeclaredStayVisible`, `MembersResolve` and
`CallsCheckedAgainstCallee`; `TokensFaithful` is `TypeOK`, `Accounted`,
`StringsEndAtDelimiters`, `NumbersAreLongest` and `LinesCounted`;
`LayoutTokensMatch` is `TypeOK`, `Balanced` and `WellFormed`; `TreeFollowsText` is
`BlocksFollowLayout` and `OperandsBindTighter`; `GatesTellTheOutcome` is `TypeOK`,
`GatesMeanOk` and `OkMeansGates`; `ChoiceInvariant` is the type of `Calls` and
`RejectedByAllOverloads`; `WalkInvariant` of `StaticRules` is its type and
`WalksAgree`; `SealInvariant` is the type of `Artifacts` and `BundleConsistent`.

Why the bounds are enough: builtin, global and local declarations of one name
displace each other, are restored and made again within the eight symbols and three
scopes of *shared*, and the history of a name never interacts with that of another;
what the scope manager does under any caller that keeps its discipline, with any
bounds, is proved (below); the counters of the walk distinguish
nestings by adjacent pairs, and four scopes give every pair below the global one
with room for a third level. `WalkTypeOK` of `Analyzer` ties the two copies of a
symbol (dictionary and table) together. A triple-quoted string with an escaped
quote needs seven atoms, a number with a point and a signed exponent six.
In the parser two lines open a block, or fail to, and leave one or two; the third
and the last show what becomes of what follows, which is where recovery goes
wrong; a line of each production, complete and broken, is among the lines.
Precedence needs an operand between two operators, and a third to see what a
nested operation does to the outer one.
In the layout two block widths, one indentation between them and one deeper
suffice for every order of two indentations and the stack, and six lines open
two blocks, leave a bracket open, recover, dedent past both and go on. In the
pipeline two reports a stage and room for two diagnostics fill every list,
overflow it, and make room again by removing a duplicate.
Three arguments are one more than a parameter list needs to be exceeded, to give
a parameter twice, or to put a positional argument between named ones; a third
overload is never told from a second. A type called `Order` stands for the names
that contain no template letter, and an enum called `Tip` for those that do: it is
the key of a map. In the trees of `rules`, two structures around a
call and a call beside them give every order in which a stack can hold them; sorts
and loops do not look at their surroundings. Five nodes of `artifacts` are a
request with its arguments, one of them a request or a read of the instrument, and
a read beside it; larger programs are given a fixed commit, because the program
and the source of the commit do not meet. Four items of `type_facts` are two
declarations that share a name, a variable and a use; among them are a method
called `new`, a type called like an enum, a field given twice and a parameter
called like its function, which is where what the sections promise ends. `calls` and `type_facts` are
for Pine v6, `rules` for v5, where requests may be disabled by default.

Three runs end in a violation; they document a disagreement between the code and
what a comment or a test says of it (`findings`):

| Run | What the code does |
|---|---|
| `parser_join` | a line that begins with an operator or a bracket becomes the rest of the expression whose block comes before it |
| `rules_guard` | the guard against endless loops counts one iteration less than a loop makes, whose end is included: a loop that runs once more than `loop_max_iterations` passes it |
| `type_facts_scope` | collection operations in a function are checked against a parameter of the same name of an earlier function, because the pass runs after the walk and reads what the walk has left in the dictionary |

Other places where the code and its documentation or its own second
implementation differ are in the models as the code has them, but have no run.

- *Scopes and the walk.* Inference reads variables of closed blocks from the
  dictionary, against the comments in `analyzer_scope.py`; a function's return
  type is stored in a parameter that has the function's name
  (`analyzer_statements.py:328`, against the docstring at 503); the product of
  nested loops is taken of two neighbours only (`analyzer_expressions.py:248`);
  fields resolve by their bare name after their type is closed
  (`analyzer_scope.py:257`); global-only builtins pass in one-expression bodies
  (`analyzer_expressions.py:421`).
- *Front.* A letter or digit outside ASCII ends in a failed assertion
  (`lexer.py:92`); an annotation whose name is `version` is one
  (`lexer.py:125`); recovery accepts indentations that are no block's
  (`processor.py:151`); the parser drops an expression that begins like a
  declaration statement but goes on (`indicator("x").y`), takes `x = 1 2` for two
  statements, reports annotations inside blocks as syntax errors, and takes no
  declaration statement for the script's if an annotation other than the version
  comes before it.
- *Pipeline.* Errors of the contract are cut off by the limit while `ok` is
  computed from what is left (`api.py:385`, against 111), TOO_MANY_AST_NODES too;
  the audit hook misses diagnostics of later stages (`audit.py:165`, against 15);
  `parse_file` writes the path into the caller's options (`api.py:430`).
- *Calls.* The letters K, V and T are replaced one after the other in the text of
  a template, inside the names of a user's types too
  (`collection_signatures.py:326`), so that no argument fits the key of a
  `map<Tip,int>`; of an `id` of unknown type the function form knows no
  parameters and takes every argument behind it for one too many (610), and of a
  `map` without types it takes the keys for strings, which the method form does
  not; a collection of a wrong kind is accepted as `id` where the registry knows no
  such function (626); an `id` given by name, but not first, is rejected in the
  function form, and so is `array.new<string>` with named arguments; a declared
  `profit` of `strategy.exit` is not seen if it is given by position
  (`static_validation.py:308`, against
  `tests/oracle/frontend_oracle_manifest.json:43`); arities of generic types have a
  check that nothing calls, although `ARCHITECTURE.md:47` lists it.
- *Types and methods.* A user's method takes over every receiver of a builtin
  method of its name (`analyzer.py:228`); its method called `new` has rows in two
  sections and none in the third (`facts.py:557`); the methods section drops a method
  declared for another instance of the same generic type; `map.remove` has a row in
  both tables, and `matrix.clear` gets one only because a fallback writes it.
- *Static rules.* A loop whose direction is opposite to its step gets a row of
  iterations it does not make (`frontend/helpers.py:381`, against
  `tests/unit/test_loop_dos_p2_1.py:86`); the second walk, documented as equivalent
  to the first, lists calls in reverse order; `_literal_int_value` does not know a
  unary plus.

Some properties leave out what the code does not promise, and say so:
`LinesCounted` excepts newlines a backslash escapes, which `_lex_string` reads
without counting; `WellFormed` excepts a file that begins with an indentation
that is no block's, whose lines continue nothing; `OkMeansGates` excepts a full
list of diagnostics, from which an error may be missing that the gates saw;
`LaterLinesRecovered` speaks of programs in which nothing was consumed in error,
and excepts lines that `parser_join` shows to be lost and the expression that is
dropped; `CollectionCallsWellTyped` excepts the calls for which the tables of the
registry and of the collections differ, ids that are not known or do not come
first, maps without types, and types with a template letter in their names (`Comparable`);
`CollectionRowsMatchCall` asks the second row of `map.remove`, which is made by
place, to be right where the id comes first, and the resolver to agree for types without template letters;
`OnlyTheLimitDrops` speaks of what the stages without a limit of their own report,
in a list that is not full; `LoopRowsCountIterations` speaks of loops whose step
points to their end; `VerdictsAgree` says in which case
a failed parse looks clean.

## Proofs

`AnalyzerProofs` proves of the scope manager, for every set of names, every choice
of kinds and every bound (assumption `ScopeAssumption` of `ScopeManager`, which only says
that plain and qualified names differ and that the bounds are numbers):

- `TypeCorrect`: `Spec => []TypeOK`;
- `ResolvesInnermost`: `Spec => []ResolvesToInnermost`;
- `ClosedVariablesUnresolved`: `Spec => []DeadVariablesUnresolved`.

Neither property is inductive. That a lookup answers the innermost declaration
depends on what the *history* will restore when scopes close, so the invariant
`IInv` speaks of the sequence "history of n, then its entry in the dictionary":
ids grow along it, every open scope that binds n has its symbol in it, and the
part of it above the innermost binding is made of symbols that can never be
taken for a live one. `PopScope` then removes exactly the last element.
Initialisation, `Define` and `PushScope` extend the sequence at its end.

From the same invariant and assumption it proves

- `ScopesAreLexical`: `Spec => ImplementsLexicalScopes`,

that the scope manager implements `LexicalScopes`. The mapping reads the
environment off the scopes and their symbols; the dictionary and its history are
not in it. By `IInv` the entry of the dictionary is the symbol of the innermost
scope that binds the name, so what `_resolve` answers is the abstract meaning. A
`Define` changes the meaning of one name, a `PushScope` none that is not bound
there, and after a `PopScope` the meaning is right because the invariant holds of
the state it leads to.

Of the walk it proves, for any programs, names, loop heads and bounds
(assumption `ProgramAssumption`, on the shape of a program: its items are those
`Item` describes, qualified names are pairs of plain ones, every one a type or an
enum forms is in `Members`, a typed receiver is the first parameter of its
method, and a statement is not exported; it also fixes the kinds of symbols and
scopes to those of the code):

- `WalkerKeepsScopeDiscipline`: `AnalysisSpec => KeepsScopeDiscipline`;
- `WalkKnowsWhereItIs`: `AnalysisSpec => []WalkInvariant`;
- `AssignedVariablesStayAssignable`: `AnalysisSpec => []AssignedVariablesNotConst`;
- `WalkResolvesToInnermost`:
  `AnalysisSpec => [](ResolvesToInnermost /\ DeadVariablesUnresolved)`;
- `PredeclaredNamesKeepTheirMeaning`: `AnalysisSpec => []NamesKeepTheirMeaning`.

Between two steps of a handler the scopes are behind the walk: a frame has been
entered, and the scope it needs is one of the operations in `todo`. The
invariant `Walking` therefore speaks of what is still to be done. `Orderly` says
that `todo` is a *plan*: it opens one scope at most, of the kind the next frame
asks for, closes one at most and last, and each definition is one that is allowed
in the scope it will be made in. What is allowed (`Allowed`) depends on the item,
the pass and what has been reported: a function that is not global must already
have its NESTED_FUNCTION, a field belongs to the type being visited. `Following`
ties the stack to the frames, but for a scope still to be opened or closed;
`Counting` ties the three depths and the loop bounds to the frames of each kind;
`TablesAgree` ties the table of symbols to the dictionary *and its history*,
because a symbol that comes back when a scope closes must still be the table's;
`Policing` and `ConstantsKept` carry what the earlier passes found out (whether
there is one declaration statement, which names are reassigned) to the point where
an export or an assignment is judged by it. `Walking` is inductive only together
with `IInv` of the scope manager, and the scope manager's `IInv` is kept only
because `Walking` shows that each step of the walk is one it permits: the two are
proved in one induction (`WalkingHolds`), which gives the first theorem as well.

The last theorem has an invariant of its own, `Meaning`, on top of `Walking`. Its
centre is `Registered`: the global scope records the name of every item that
predeclaration is through with (`Past`). A later definition of such a name in the
global scope is refused, unless it is a variable that takes over a builtin, and a
predeclared name's symbol is not a builtin (`PredeclaredGlobal`); so two items of one
name have been reported (`Clashes`). The other parts hang on that. Qualified names
are always overwritten, but an enum's members only by the fields of a type of the
same name, which `Clashes` has reported; until the members are defined they are
`Promised` by `todo` (`MembersKept`), and no scope that is closed takes them away
(`MembersOutside`). Two functions of one name that are both in the dictionary or its
history cannot both be global and unreported, since the second would have been
refused: so parameters that are filed under the name alone are those of the function
it resolves to, or there is a diagnostic (`Callees`), also for a function that comes
back when a scope closes.

`AssignedVariablesNotConst` does not speak of names of builtin constants (`na`,
`true`, `false`): an assignment to such a name, where no variable of the program
has it, is refused as it should be. The attempt to prove the property without this
exception is what showed the need for it.

`LayoutProofs` proves, for any set of lines, any block width above 0 and any
number of lines (assumption `LayoutAssumption`):

- `LayoutLevelsAreBlocks`: `Spec => []LevelsAreBlocks`;
- `LayoutOffsideRule`: `Spec => []OffsideRule`;
- `LayoutTokens`: `Spec => []LayoutTokensMatch`.

The first is nearly inductive: a line whose indentation is no multiple of the
width and no level is always a continuation, except where an open bracket is
given up, and there `Recovers` bounds the indentation by the top level, so
nothing is pushed. The second needs more: that the levels are the open
indentations of `starts` is kept by a push and by a pop, and a line that is not
above the top level removes from `OpenByOffside` exactly what `Kept` pops. The
third rests on `TokensInv`: the INDENTs emitted are as many as the DEDENTs and the
levels but the lowest, every step emits as many DEDENTs as it pops levels, and
until the end the last token is that of a line, which a NEWLINE follows unless no
logical line was read before. `CountExtended` says what appending tokens does to
these numbers; that the recursion over the brackets of a line has a value, and one
that is not negative, is shown by the least place where it would not.

`PipelineProofs` proves, for any reports, options and limit (assumption
`PipelineAssumption`, which says which stages of the code issue FATAL
diagnostics):

- `PipelineFatalYieldsNoProgram`: `Spec => []FatalYieldsNoProgram`;
- `PipelineOnlyTheLimitDrops`: `Spec => []OnlyTheLimitDrops`;
- `PipelineGatesTellTheOutcome`: `Spec => []GatesTellTheOutcome`;
- `PipelineNothingLost`: `Spec => []NothingLost`.

The invariant follows what is fatal: up to the lexer's gate it is among the
diagnostics, after it there is none until the nodes are counted. The others
need to know what the deduplication keeps, the first diagnostic of every key in
the order of those firsts, and that it changes no verdict: what decides the gates
is the key and the severity, and diagnostics of one key have one severity
(`SeveritiesFixed`), from `PipelineAssumption` for the stages' reports and from the
code for the pipeline's own. What a limit may drop is followed by `Dropping`: the
parser and the analyzer cut off only their own reports, so that all others are in
the list in every state, and the deduplication keeps one of each key. `Reporting` says of every stage which of the
reports so far the list it leaves must have, as long as nothing was cut off, and
`Judging` holds the gates against the list they were taken from, through what is
appended and cut off after them.

`ParserProofs` proves, for any programs that end in their only EOF and any limit
(assumption `ParserAssumption`, which is what the layout processor delivers, the
EOF of `Layout.out` being its last token):

- `ParserTypeCorrect`: `Spec => []TypeOK`.

That the index stays on a token is a matter of what is *waiting*: `_expect`
advances after any token it was told to expect, so nobody in the call stack may
expect the EOF, which the type of tasks says; lists and blocks carry the names of
their items, which must be names of items. Every loop over tokens stops at the
EOF at the latest, and an INDENT is added in front of a token that exists, so the
EOF remains last. One lemma for each shape of step (`Moved`, `Failed`,
`Accepted`, `Optional`, `LinesStep`) keeps the steps of the 65 actions short.

`CallsProofs` proves, for any callables, parameters, types and arguments
(assumption `CallablesAssumption`, on what shape a callable has, and that the
names in a list of parameters differ: the registry refuses other lists when it is
loaded, and a declaration with the same name twice is reported; that a function of
a collection's namespace is one of its operations, or `clear`, is how the call was
told to be one):

- `CallsChoice`: `Spec => []ChoiceInvariant`;
- `AcceptedCallsAreBoundOnce`: `Spec => []AcceptedCallsBindOnce`;
- `BindersOfAcceptedCallsAgree`: `Spec => []BindersAgree`;
- `ConstructorFactsAreTheReport`: `Spec => []ConstructorFactsMatchDiagnostics`;
- `CollectionCallsJudgedRight`: `Spec => []CollectionCallsWellTyped`;
- `RowsOfAcceptedCalls`: `Spec => []CollectionRowsMatchCall`.

A builtin is rejected only if every overload rejects the arguments, and is
reported for one with the fewest structural errors. Scores are compared from the
left, which is a strict order; the candidate kept is minimal among those tried,
since a new one lower than it is lower than whatever is not below the old one. A
candidate without issues scores zero in the first three places, and these count
all issues, so the minimal one has none either.

An accepted call has no repeated, unknown or missing name, none that is also
given by place, and no positional argument beyond the parameters or behind a named
one, whichever of the loops and of the two passes it is that rejects each. Hence
the positional arguments come first; the place of one is its rank among them, so
the binders that count all arguments and those that count the positional ones mean
the same; and a name finds the one parameter that has it, which none of the places
taken is. `NamesInOrder` says this of the lists a callable may be bound by: the
active parameters of an entry, a signature, the fields of a type, the
specification of a collection operation. The lemma behind it, `Places`, is about
numbers only: members of a finite set of places are as many as the counts
up to them, one for each. What the constructor's facts list and what is reported
are the same sets of names and places computed in two ways, accepted or not.

Of collection operations nothing is objected to exactly if the arguments fit
(`Fits`: every argument has a parameter that takes it, no parameter two, none that
is required is left out, and names come last), for each list of parameters by
itself (`UnobjectedFit`, `FittingUnobjected`). Three lists have to be compared,
that of the signature, that of the registry and that of the operation as it is
meant (`IntendedSpecs`): they have the same names at the same places, so arguments
that fit one fit another if the types allow it (`FitLikewise`). The types of the
signature are the intended ones, because `FlattenSeq` adds one text after the other
(`FlattenAdds`) and replacing one letter after the other comes to replacing all at
once if no letter is put in (`SubstituteAtOnce`): an induction over texts
(`AllSequences`), by a least text that is lost. The registry asks nothing but the
kind of the id, where it is told the types of a map; an id of another kind is
rejected by whichever pass looks at it (`OtherKindUnfit`). For the rows, an accepted
call has a row from its resolution, except for `matrix.clear`, which resolves to
nothing and gets an empty one (`UnresolvedRows`); the two arguments of
`map.remove` can only be the map and the key, so counting them finds the same as
binding them does (`RemoveCall`).

`CallsProofs` also proves all that the run of `TypeFacts` checks, for any programs
(assumption `ItemsAssumption`: an item has one of the six forms, and its fields,
members, parameters, uses and arguments are listed):

- `TablesAreKept`: `FactsSpec => []TablesOK`;
- `TypesSurvive`: `FactsSpec => []TypesOutliveTheWalk`;
- `SectionsAlike`: `FactsSpec => []SectionsNameTheSameMethod`;
- `ReferencesFound`: `FactsSpec => []ReferencesKnown`.

The inductive invariant, `FactsInv`, has three layers. `ShapeInv` holds of every
program: a key of the table is a name or a member declared so far and has a
history of meanings, what is global is in the global scope and stays when a scope
ends, a type with fields has been visited. `NamesInv` holds as long as nothing has
been reported: every name is declared once and means what it was declared as, a
method's receiver is the kind it was declared for, the dotted keys of a visited
type have the types of its fields. `SightsInv` says of every use seen so far what
the table still says of it: a global owner means what it meant, and so does a
local one that shares its name with nothing (`Shared`). The second and third need
each other's silence: a type named like an enum, or a function that takes the name
of a variable, breaks both, and both are reported, so the layers are guarded by
`issues = {}`. A step changes the table in three ways only, which `Changed` sums
up (meanings pushed and popped again, meanings that stay, the type of a
function's result), and one lemma for each layer says what such a change
keeps (`TableKept`, `NamesKept`, `SightsKept`). What follows at the end is short:
a name is declared once, so each of the three ways of looking for a method finds
the same one or none, and the receiver check of the walk leaves only the two
instances of one generic type to tell apart.

The proof corrected the statements it is about, each time with a program that
TLC now has among its own: the methods section takes a user's method called `new`
for a constructor, the other two do not; the key of an enum's member is a field's
if something has been declared twice; a use of a local owner is not a read of the
enum it is named after.

`StaticRulesProofs` proves, for trees of any size (assumptions
`SignaturesAssumption`: the signatures of requests are lists of names;
`FieldsAssumption`: the fields of a type have different names, since the analysis
reports a repeated one; `MaxNodesAssumption` and `DynamicDefaultAssumption` on the
kind of the other constants):

- `BothWalksAgree`: `Spec => []WalkInvariant`;
- `CountsAreThoseOfTheRows`: `Spec => []CountsMatchRows`;
- `ReportAndRequestRowsAgree`: `Spec => []RequestsDisabledAreReported`;
- `AcceptedSortsSelectOneField`: `Spec => []SortsSelectOrderedFields`;
- `RowsCountIterations`: `Spec => []LoopRowsCountIterations`.

The explicit stack visits what the recursion visits because of what is *under* the
stack: `Walking` says that nodes under two places of the stack differ, that no call
under one has been found, that every call not found is under one, and that each
place carries the context the recursion gives its node. A visit replaces a node
by its children, and whatever is under the node is the node itself or under exactly
one child. So when the stack is empty every call has been found once. After that,
`RulesInv` says of the counters, of the issues and of each list of rows what they
are in terms of the program alone, whatever order the report and the extractors
went in: a counter is the number of nodes of its kind, and a rule's issues are
those of the calls it holds of. The properties compare two such descriptions.

Three lemmas carry the comparison. `NamesAgree`: the report names arguments by the
number of positional ones before them, the contract by their place, which is the
same of an accepted call, where named arguments come last. `SortAccepts`: the
rules on sorts are silent only if the selector stands for one field whose type has
an order. `IterationsCounted`: the quotient the rows are computed with is the
number of multiples of the step up to the end. The proof also found that two arms
of `ExportRules` overlapped, so that the module did not say which of them applies
to a declaration that is not exported; it now asks for the export first, as the
code does.

`ArtifactsProofs` proves all that the run checks, for any programs, results,
settings and commits (assumptions `ResultsAssumption` and `ArtifactsAssumption`, on
the shape of a result, on what git answers and on the bounds; `NamesAssumption`: a
payload has the name of a type where the code has a value of it, so no source may
be named after one):

- `ArtifactsSealed`: `Spec => []SealInvariant`;
- `ArtifactsRequirements`: `Spec => []RequirementsHaveRows`;
- `IdentityFollowsContext`: `Spec => []SeriesIdentityByContext`;
- `PayloadsAccepted`: `Spec => []PayloadsValidate`;
- `VerdictsSame`: `Spec => []VerdictsAgree`.

Clock and commit are read once and nothing is sealed before both are, so each
artifact has the same pair; a reference to the support profile is its hash, which
leaves the time out, so an artifact built again later refers to the same. What a
sealed artifact says of the program stays true, since program and result do not
change after the parse. The rows that the base lacks are rows of named features,
one for each, so no feature has two.

`ExpressionIsBound` is what the identities rest on: `_capability_usage` looks for
the expression by its name or as the third positional argument, the call binds by
place; where named arguments come last, the positional ones are the first
arguments (`LeadingPlaces`), and the two are the same node. For the payloads,
`PartsByHeads` shows that parts whose paths begin with different keys are found in
the whole as they are, so that what a validator asks for at a path is asked of one
part; below the key of an embedded payload its own paths are found again
(`EmbeddedIs`). `Judged` is the further invariant of the verdicts: the result is
one that parsing may come to, or that of a refused path, until the end, and what
the frontend says was computed from it.

`LexerProofs` proves, for texts of any length (assumption `LexerAssumption`: a
text is a sequence of atoms):

- `LexerFaithful`: `Spec => []TokensFaithful`.

Up to the position where the next token begins, or where the string being read
began, tokens and skipped positions divide the text, and a step adds a stretch
that begins there to one of the two. That a scan ends, and past what it began
with, is a matter of the least position outside its class. Where a number ends
depends on the text alone, and `NumberEnd` is shown to be the end of the longest
numeral. While a string is read the position is never escaped and nothing that
may end the string lies behind it, which is what stepping over a backslash and
the atom after it keeps. The line is the number of newlines passed that are not
escaped; those of a string move to its token when it is complete.

Only model-checked: of the parser all but its type correctness, that is
`TreeFollowsText` and `LaterLinesRecovered`, whose inductive invariants would have
to say, for each of the 65 actions, what the calls still open owe to the tree; and `Terminates`, for liveness under fairness is
not for this prover.

## Not modelled

- *What the nodes of the tree contain* (`parser/`, `ast/`): names, types,
  documentation and spans; which tokens a node is made of is modelled, and so are
  the walks over the tree.
- *Typing of expressions* (`semantic/inference.py`): arithmetic, conditionals and
  the return types the registry gives; they are functions without state. The
  narrowing of values that may be na keeps sets per scope, and is left out.
- *The registry's data* (`builtin_registry.py`, `signature_coverage.py`): entries
  are constants of `Calls`; loading them and reporting their coverage are tables.
- *Ids and spans of artifacts, snapshots, and the remaining extractors of
  `frontend/` and `facts.py`*: one record for each node of a kind.
- *Schemas of release artifacts, formatting of diagnostics, SARIF, language
  profiles, reference catalogue*: tables and functions from one JSON value to
  another.
- *Decoding and line ends* (`source/`): only what they report.
- *Command line, tooling, test support*: input and output around the library.

`components` in `PROJECT.json` lists each with its files.

## What is left

In the order of what it would add:

1. `Narrowing`: the non-na sets of scopes and how branches, loops and
   reassignments change them.
2. `Front`: `Lexer`, `Layout` and the parser's view of lines composed, with the
   contract between them (`WellFormed`) as an assumption of one and a promise of
   the other.
3. The allocation of ids in the artifacts, as a refinement of "one id per thing".
4. Proofs: that the parser's index never goes back.
