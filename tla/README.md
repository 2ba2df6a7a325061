# Pudl in TLA+

Pudl is a small, statically typed language; `pudl` compiles a source file
through LLVM and runs it, or writes an object file or an executable. This
directory holds TLA+ models of the compiler's own logic, TLC configurations
that check them on small instances, and TLAPS proofs of what holds for every
instance. Paths below are relative to `src/src/`.

## The system

One process, one thread. `main.cpp` calls the parts in this order, each to its
end: parse the whole file, generate IR for the whole AST, then compile, link or
run what was generated. The scanner runs inside the parser, a token at a time.
Several calls of `pudl` may run at once and share the directory they run in.

| Part | State it keeps | Operations | Used by |
|---|---|---|---|
| Lexer (`Lexer/Lexer.cpp`) | the file position, one pushed-back token | `lex`, `unlex` | Parser |
| Parser (`Parser/Parser.cpp`, `.h`) | current token, `scope`, `funcs`, the error flag, the C++ call stack | `parse` and one handler per grammar rule | main |
| AST and Arena (`Parser/AST/`) | nodes; the blocks they are allocated in | `construct`, `accept` | Parser, Codegen |
| Code generator (`Parser/Codegen.h`) | operand stack, `ScopeStack`, `funcs`, `astFuncs`, the insert block, the success flag | one `visit` per node type | main, through `accept` |
| Emission (`Parser/Codegen.h`) | temporary files | `compile`, `linkSource`, `linkObject`, `runSource`, `runObject`, `save` | main |
| Process, Linker (`Compiler/`) | a counter for file names; temporary files | `Run`, `Detect`, `UniqueTempPath`, `Link` | Emission |
| Driver, CLIManager (`main.cpp`, `Compiler/CLIManager.h`) | the options | decides which steps follow which | the user |
| Printer (`Parser/Printer.h`) | indentation | debug output | main |

Nothing runs concurrently inside one call; what is hard is elsewhere:

- **Failure in the middle of a recursion.** Every handler of the parser and
  every `visit` can fail, and says so by a null pointer or a flag that each
  caller has to look at. A caller that forgets goes on with half a result.
- **Tables that change when they are read.** `scope[name]` and `funcs[name]`
  insert a null entry for an unknown name, and `insert` never overwrites one.
- **Order.** A function is registered before its body is parsed; basic blocks
  are created detached and attached later; the insert block may be terminated
  by a `return` several calls further down.
- **Two views of scope.** The parser's is flat over a function, the code
  generator's is nested.
- **Not coming to an end.** The loop of `parse()` depends on every path below
  it consuming something. It once did not (the comment at `Parser.cpp:65`).
- **Counting.** Addresses, space and alignment in the arena; lines, columns and
  the one character too many in the scanner.
- **Outside the compiler:** external tools that fail or are missing, temporary
  files of concurrent calls, clean-up on the error paths, interrupted calls that
  leave files and whose process id is given again.

What makes each part correct:

- *Lexer*: every character is consumed once; a pushed-back token comes back
  once, before anything else is read.
- *Parser*: returns for every file; what it hands over after a clean parse has
  no null or untyped piece; the position in the file and the call stack stay in
  step; a failure is reported.
- *Arena*: objects are aligned, inside their block, disjoint, and destroyed once.
- *Code generator*: one value per expression; one terminator per block, at its
  end; definitions dominate uses; the scope stack follows the blocks on every
  path, after errors too.
- *Emission, Process, Linker, driver*: nothing is run or linked after parser or
  code generator have failed; what goes wrong later is reported; temporary files
  are removed; concurrent runs do not share one; the input survives.

## The modules

| Module | Models | Role |
|---|---|---|
| `Token` | `Lexer/Token.h`, `Compiler/Type.h` | the vocabulary |
| `TokenStream` | | abstract: what the parser relies on when it calls `lex` and `unlex` |
| `Lexer` | `Lexer/Lexer.cpp`, `Lexer/Lexer.h` | the scanner, one character at a time; implements `TokenStream` |
| `LexerProofs` | | the scanner's inductive invariants: lines and columns; the refinement |
| `Parser` | `Parser/Parser.cpp`, `Parser/Parser.h`, the pushback slot of the lexer | the parser as a pushdown machine |
| `ParserProofs` | | the parser's inductive invariant: what callers and callees owe each other |
| `ParserStackProofs` | | what the parser's call stack says about lookahead, brackets and functions |
| `Allocator` | | abstract: what the parser relies on when it asks for a node |
| `Arena` | `Parser/AST/Arena.h` | the bump allocator over addresses; implements `Allocator` |
| `ArenaProofs` | | the arena's inductive invariant and the refinement |
| `Codegen` | `Parser/Codegen.h` from `visit(VectorNode)` on, and `ScopeStack` | the code generator as a pushdown machine |
| `CodegenProofs` | | the generator's inductive invariant: types, operand stack, scope stack, names |
| `CodegenBlockProofs` | | the invariant of its basic blocks |
| `CodegenDominanceProofs` | | the invariant of definitions and uses: what a definition dominates |
| `Driver` | `Compiler/CLIManager.h`, the options in `main.cpp` | what a command line asks for |
| `Toolchain` | the rest of `main.cpp`, emission in `Codegen.h`, `Compiler/Linker`, `Compiler/Process.cpp` (POSIX) | concurrent calls of `pudl` in one directory |
| `ToolchainProofs` | | the inductive invariants of the calls: they do not disturb each other; who has written which file |
| `MCLexer`, `MCParser`, `MCArena`, `MCCodegen`, `MCToolchain` | | instances for TLC |

How they fit together: `Toolchain` uses `Driver` for every decision that depends
on the command line alone, and knows parser and code generator by their outcome:
a message and a failure; a message, an invalid module and a failure; a message
and no failure, which is what a complaint of `Parser::is()` is to `main()`; a
module, without a word.
`Parser` uses of the lexer what `TokenStream` promises, with the slot of `unlex`
spelled out, and `Codegen` visits what `Parser` can hand over after a clean
parse.

### Lexer

An action is a call of `fgetc` with what the scanner does with the character; a
look at the character after a token is `fgetc` and `ungetc` in one. The file is
not fixed beforehand: each read past what is known yields any character or the
end. `at` is the loop of `lex()` that runs. The spellings of operators and the
keyword test are those of the code, over a few letters, digits and marks; blanks
are the space and the newline, because `isspace()` treats the others like the
space.

`TokenStream` is the other view: it knows the text, the tokens found, the token
given last and whether it was given back. Its step says where the next token
lies: after blanks and whole comments, a maximal spelling of its type. It is
written with the set of spellings instead of branches, so that a branch of the
scanner that loses a character, or gives one back that it should keep, does not
fit.

### Parser

The recursive descent is made explicit: `stack` is the C++ call stack. A frame
has a label `at`, the point of a handler that runs next, and the locals still
needed there. `ret` is what the call that just returned produced: `NULL`,
`"Statement"`, a function's name, or the `TType` of an expression. An action is
one handler from one token read or call to the next; its disjuncts are the
handler's branches and early returns. Three ways of giving up are kept apart
because the code does: `Fail` (after `error()`, which sets the flag), `Reject`
(after a complaint of `is()`, which does not) and `GiveUp` (in silence).

The file is not fixed beforehand. A read past the pushed-back token yields any
member of `Tokens` or the end of the file, so all behaviours together are all
token sequences of up to `MaxTokens`. A token is its type and the part of the
lexeme the parser looks at; line numbers and wording are left out. The six
binary precedence levels are one frame that stands for their nested calls:
`Level(lo, hi)` are the levels still waiting for a left operand.

`complained`, `declared` and `nesting` are history variables that only properties read.

### Arena

Addresses are natural numbers, an object type is its size, its alignment and
whether its destructor is trivial. The heap may put a block anywhere apart from
the other blocks: `operator new[]` promises no more alignment than the arena
asks for by adding `alignof(T)` to the size. `AlignUp` and `Fits` are
`std::align`. Where the code ignores that `std::align` failed, `Place` does too.
`objects` is a history variable; `destructors` holds positions in it.

`Allocator` promises aligned storage shared with no other object, and one run of
each destructor that has something to do, youngest first, before storage goes.

### Codegen

The visitor's call stack is explicit in the same way as the parser's. IR is kept
as far as its validity depends on it: basic blocks (attached or not, how they
end, where they branch), the insert block, and for values and allocas their LLVM
type and the block they are defined in. Inserting into a block that is detached
or terminated, which LLVM answers with a crash or with invalid IR, marks the
block `"broken"`. LLVM's builder may fold an instruction on constants away; the
model always inserts it, which can only make more blocks broken.

The AST is chosen while it is visited, from the ASTs that a clean parse can
hand over: an expression is asked for by type, so that exactly the operand types
the parser lets through occur, and names come from the parser's tables as they
are at that point of the text (`scope`, flat; `sigs`, first definition). Where a
`return` makes the generator skip the rest of a block, the names declared in
that rest enter the parser's table all the same. Four forms that the parser lets
through although something in the generator does not expect them are named
(`OddForms`) and switched on by the runs that are about them; `odd` records
which of them the program has used.

After `error()` the handlers return one by one (`Unwind`), a block still pops
its scope, and `visit(VectorNode)` goes on with the next function.

### Driver and Toolchain

A command line is a sequence of arguments, one that `CLIManager` splits being
two strings long. `Driver` computes from it what the options mean: the value of
an option is the argument after its first occurrence, `argv[1]` is the input
even if it looks like an option, `Stem` and `ObjectName` are what `main()`
derives from the input's name.

In `Toolchain` a call is a process at a point `at` of the program; an action is
what it does between two points at which another call can be seen to interfere:
a file is created, written or removed, or a child started. The directory maps
files to contents; a content is its kind, the user's file with the program it
comes from, and the call that wrote it. A name of the user's is not a file:
`Resolve` says which file it leads to, so that `./foo` and `foo` are two strings
for `main()` and one file for the directory.

Every operation may fail the way the code provides for: a file cannot be opened
or removed, `compile()` gives up before or after its output was created, a tool
is missing, fails, or is killed. Where the code does not look, the model goes on
as well. The wrapper source of `Link()` goes through a stream that nobody asks
whether it is open: it may be written, cut short, or not be written at all, and
then the linker finds what is there under that name, which may be the wrapper of
a killed call with the same pid. `runObject()` executes after a failed link. A
probe of `Detect()` is one step, because nothing but its outcome matters. A call
can be interrupted at any point; its files stay, and its pid may be given to a
later call.

`linkFailed`, `failed`, `reported` and `made` are history variables. `failed`
and `reported` differ: `failed` is what `isFailed()` said when `main()` asked,
`reported` that some message was printed, by `is()` too.

What the properties say of it:

- `UsesOwnFiles`: the linker is given the object file, and `lli` the IR, of the
  program that the call itself has parsed, although other calls write files at
  the same time and killed ones have left theirs. What the code does not check
  is not promised: the wrapper and the executable may be old ones, after a
  failed write or a failed link. They are never those of a call that still runs.
  The property compares with what the parser has read, which another call may
  have written after `main()` had looked at the file.
- `NothingRunsAfterFailure`: a call for which `isFailed()` was true has no child
  and has written nothing but the IR that `-p` asked for. After a mere message
  of `is()` the code does go on, and the property does not deny it.
- `TempsRemoved`, `SilentMeansMade`: a call that ends without a message has left
  no temporary file and has made the file it was asked for.
- `InputSurvives`: a call writes over its input in three cases only, each of
  them an output that leads to the same file: of `-c`, of `-p`, and of `-o` if
  that one was derived or is the input by another name.

## The runs

| Run | Bounds | Shows |
|---|---|---|
| `parser_vocabulary` | all tokens, 8 of them | `TypeOK`; `Termination`: `parse()` returns |
| `parser_functions` | 15 tokens, two types, no statements but `return` | `NoScopeLeak`, `FuncsAreDefined`, `LookaheadConsumed`, `Monotone` |
| `parser_bodies` | 12 tokens, one name | `NullOnlyAfterError`, `BracketsMatch` |
| `lexer` | 5 characters from 12, any use of `unlex` | `TypeOK`, `PositionsTrue`, `ImplementsTokenStream`, `LexReturns` |
| `arena` | 5 objects of four types, blocks of 6 bytes, 28 addresses | `TypeOK`, `ObjectsInBlocks`, `SpaceIsFree`, `ImplementsAllocator` |
| `codegen` | 4 nodes, all types, all forms | `TypeOK`, `OperandsBalanced`, `ResultHasItsType`, `NamesResolve`, `NothingAfterTerminator`, `FunctionComplete`, `DefinitionsDominateUses`, `ScopesMatchBlocks` |
| `toolchain` | two calls, nine command lines, two pids, one interrupt | `TypeOK`, `UsesOwnFiles`, `TempsDiffer`, `TempsRemoved`, `NothingRunsAfterFailure`, `SilentMeansMade`, `InputSurvives`; `Termination`: every call ends |

Why these bounds:

- *Parser.* The shortest function takes six tokens, so eight tokens of the whole
  vocabulary already contain a function with a faulty body of each kind, and
  every way `parse()` can be left. Fifteen tokens of the function alphabet hold
  two functions, the second calling the first with an argument, or a function
  with a parameter that calls itself; there is no comma in it, and so no function
  of two parameters, which the vocabulary run meets only in their heads. Twelve
  tokens hold a function with a
  block, an `if` with a condition in parentheses and a nested statement.
- *Lexer.* There is a character for each branch: a keyword and a longer name, a
  number with dots, a mark by itself, one that may begin a pair, one that needs
  its second, and one that is no token. Five characters hold a token, a blank or
  a comment with its newline, and another token; the scanner remembers nothing
  else of what came before.
- *Arena.* The four types share a block with and without padding between them,
  fill it, and need a block larger than usual; five objects take up to four
  blocks, which the heap places at every alignment.
- *Codegen.* Nodes are blocks, branches, loops, operators and calls; literals,
  variables, `print`, `return` and assignments are free. Four nodes hold a loop
  over a branch in a block with a short-circuit condition, two statements after
  each other of which the first returns on one path, a call with a compound
  argument inside another expression, or a call of a function that was defined
  twice. One name is enough for a variable, a parameter and a function at once,
  for a variable that is declared again in an inner block, and for a name whose
  block has ended.
- *Toolchain.* The command lines run, compile and link from a source and from an
  object file, with given and with derived names, one of them the name of the
  input and one another name of the input's file, and include those that are
  refused. Two calls are the fewest that can interfere, and each interference is
  between two. An interrupt lets the second call get the pid, and meet the files,
  of a killed one. One linker and two interpreters make `Detect()` try again and
  give up.

Five runs refute a sentence of the documentation, of a comment or of a test. Each
is a disagreement between that sentence and the code:

| Run | Property | What happens |
|---|---|---|
| `parser_silent` | `FailuresAreReported` | `func f : int 5` fails without any message |
| `lexer_comment` | `CommentsEndWithLine` | a comment that is only a `#` takes the next line with it |
| `codegen_equality` | `ComparisonsAgree` | `True == 1` compares an `i1` with an `i32` |
| `codegen_leak` | `BodiesDoNotLeak` | the variable of a body without braces outlives it |
| `codegen_return` | `EndsAreDead` | a function need not return: the block that is completed as dead code can be reached |

The passing runs state the rest as exactly as the code allows, and their
exceptions are findings too: `PositionsTrue` excludes lines after an empty
comment and columns after a lone `&` or `|`; `InputSurvives` lists the outputs
that may overwrite the input; `TempsRemoved` holds of calls without a message;
`UsesOwnFiles` lets old files of the same name in where the code goes on without
looking; `NamesResolve` leaves out functions with two parameters of one name.

Each property of a passing run comes with a mutant: an operator defined just
before the definition it replaces, with the slip in its comment. With it TLC
finds the property violated.

**Fairness.** `Parser` assumes weak fairness of its next-state relation: the
parser is one thread, nothing blocks it, and it takes a step as long as there is
one. No fairness is assumed of the choice of tokens: the file ends because it
has at most `MaxTokens` tokens. `Lexer` assumes it of the steps inside a call of
`lex()`, for the same reason, and not of the parser calling it: `LexReturns`
says that every call comes back. `Toolchain` assumes it of each call's own
steps, the end of a child among them: the scheduler runs every process again,
and tools and compiled programs are assumed to end. No fairness is assumed of
calls being started or interrupted. Whether a step fails or
succeeds is left open; `Termination` holds either way. `Codegen` and `Arena` have no
liveness property: one visits a finite tree once, the other has no loop but over
its destructors.

Deadlock is checked in all runs but `arena`: a stuck handler, one whose cases do
not cover what it may find, would show. An arena stops after its destructor.

## The proofs

The theorems hold for every value of the constants that satisfies the
assumptions named in the modules.

`ParserProofs`, for every set of names, every vocabulary and every length of
file (`NamesAssumption`, `TokensAssumption`, `MaxTokensAssumption`):

| Theorem | Statement |
|---|---|
| `Invariance` | `Spec => []Inv` |
| `TypeCorrect` | `Spec => []TypeOK` |
| `NullsAreReported` | `Spec => []NullOnlyAfterError` |
| `ScopesAreLocal` | `Spec => []NoScopeLeak` |
| `NothingIsTakenBack` | `Spec => Monotone` |

`TypeOK` alone is not inductive. When a handler resumes it uses `ret` as the
thing it called for: a function's name in `parse.def`, an expression's type in
`assignment.rhs`. That this is what it gets follows from the order of the calls.
`Inv` therefore contains the call discipline: each label has a kind of result it
*yields* to the frame below it and a kind it *expects* from the one above
(`Yields`, `Expects`); adjacent frames of the stack agree (`StackOK`), and the
active frame finds in `ret` what it expects (`TopOK`). The other conjuncts are
the types of the lexer's part (`LexedOK`), of the tables (`TablesOK`, with
`NoScopeLeak`), and of the result (`ResultOK`), and that UNDEFINED types and
null entries imply the error flag (`ReportsOK`). A lemma for each action shows
that it preserves `Inv`; pushing and popping frames are lemmas of their own.

`ParserStackProofs` builds on `Inv` and proves what relates the stack to
everything that happened since its frames were pushed:

| Theorem | Statement |
|---|---|
| `NoLookaheadSurvives` | `Spec => []LookaheadConsumed` |
| `FunctionsAreDefined` | `Spec => []FuncsAreDefined` |
| `BracketsAreMatched` | `Spec => []BracketsMatch` |

`SlotOK` ties the slot of `unlex()` to the one handler that takes the token out
of it: the handlers that begin with a token their caller has looked at (`Takers`)
are called at once after the `unlex`. `FuncsOK` accounts for the functions that
are callable but not in the AST yet: there is at most the one whose `definition`
is under way (`Pending`). `BracketsOK` counts the brackets passed along the
frames: an open brace for each `blockStatement` frame, an open parenthesis for
each frame that waits inside a pair, one more or less according to the point the
active handler is at (`Balance`). Each is separate because each holds up to a
different event: an error, a complaint of `is()`, a failed return. That no
parenthesis is open below a statement (`LowCallers`) would be an induction over
the stack, which is out of the prover's reach; it is shown by a least
counterexample over the positions of the stack (`WFMin` of
`WellFoundedInduction`).

`ArenaProofs`, for every memory, block size and set of object types
(`MemoryAssumption`, `BlockSizeAssumption`, `KindsAssumption`,
`MaxObjectsAssumption`); alignments need not be powers of two:

| Theorem | Statement |
|---|---|
| `ArenaInvariance` | `Spec => []Inv` |
| `ArenaTypeCorrect` | `Spec => []TypeOK` |
| `StorageStays` | `Spec => []ObjectsInBlocks` |
| `SpaceStaysFree` | `Spec => []SpaceIsFree` |
| `ArenaImplementsAllocator` | `Spec => ImplementsAllocator` |

A new object overlaps no other because it lies in the free space, and the space
is free because blocks are apart and every object is inside one: so `Inv` adds
to the checked invariants that blocks come from the heap and are disjoint. The
one arithmetic fact is that the first aligned address of a block lies less than
an alignment after its start (`AlignUpRange`), which is why `sizeof(T) +
alignof(T)` bytes are enough for the second `std::align` to succeed. The
refinement is a step lemma for each action; `construct()` is `Allocate`, whose
guards are these invariants.

`ToolchainProofs`, for any number of calls, pids, command lines, files and
interrupts (`NamesAssumption`, `ListsAssumption`, `MaxInterruptsAssumption`):

| Theorem | Statement |
|---|---|
| `CallsInvariance` | `Spec => []Inv` |
| `TempFilesDiffer` | `Spec => []TempsDiffer` |
| `SilenceIsSuccess` | `Spec => []SilentMeansMade` |

Live calls have different pids (`PidsDiffer`), and a call's names hold its pid
and a counter it has not used yet (`TempsOK`, `CounterOK`); so what a call
writes to is a user's file or a file of its own, and the files of the others
stay (`OthersUndisturbed`). With that, what must be in the files at each point
of the program (`FilesOK`) is a matter of one call, as are the points reachable
with each command line (`ControlOK`) and whether the output was made or its
absence reported (`ReportsOK`). `FilesOK` speaks of the object file, the IR and
an executable that was linked. Of the wrapper it says nothing, since nobody
knows whether it was written.

The second part of `ToolchainProofs` asks who has written the files. For that the
outputs that the command lines name must be among the files of the instance
(`CommandLinesAssumption`), and the calls be told from the user
(`InvocationsAssumption`):

| Theorem | Statement |
|---|---|
| `FilesInvariance` | `Spec => []FilesInv` |
| `TypesAreKept` | `Spec => []TypeOK` |
| `NoTempIsLeft` | `Spec => []TempsRemoved` |
| `ToolsReadOwnFiles` | `Spec => []UsesOwnFiles` |
| `FailureStopsCall` | `Spec => []NothingRunsAfterFailure` |
| `InputIsKept` | `Spec => []InputSurvives` |

`TempsRemoved` only speaks of calls that ended, `InputSurvives` only of one
file. `FilesInv` says for every file and every point of the program what a call
may have written there: under a user's name only the output of its command line
(`OutputsOnly`, over files, for any `Resolve`), under a temporary name only one
with the call's own pid (`OwnOnly`) and only what the steps that are left will
remove (`Tidy`), unless the call was interrupted or has printed a message. Before
its parser and code generator have come through, and after one of them has
failed, it has written nothing at all, the IR for `-p` excepted (`Clean`). Two
live calls have different pids, so that `OwnOnly` keeps the wrapper and the
executable that a call meets from being another live call's: this is all that
holds of them after a write or a link that failed.

`LexerProofs`, for every set of letters, digits and marks, every keyword table
and every length of file (`CharsAssumption`, `PunctuationAssumption`,
`KeywordAssumption`, `MaxCharsAssumption`):

| Theorem | Statement |
|---|---|
| `ScanInvariance` | `Spec => []ScanInv` |
| `TypesAreKept` | `Spec => []TypeOK` |
| `TokensKnowTheirPlace` | `Spec => []PositionsTrue` |
| `StreamInvariance` | `Spec => []StreamOK` |
| `LexerImplementsTokenStream` | `Spec => ImplementsTokenStream` |

The line of the scanner is a count over the text read so far, which the next
character changes: the count is therefore restated as a function of the text
(`LineIn`, `ColIn`), with lemmas that a longer text has the same lines and
columns in its beginning. `ScanInv` adds to the types where the loop of `lex()`
stands in the text (`PlacesOK`), that `line` and `column` are those of the
next character up to the two slips that `PositionsTrue` names (`PositionOK`),
and the same for the tokens handed out (`TokensOK`).

A step of `TokenStream` is a whole token: blanks and comments, then the longest
spelling. The scanner takes many steps for it, all but the last of which are
`Read`. `StreamOK` keeps what the last one needs: which blanks and comments were
passed since the last token (`SkipOK`), that the spelling read so far is one of
a name or a number (`SpellOK`), and that what the client got last, and what it
gave back, is the last token found (`ClientOK`). A comment in a text that is
still read has to be over, or it would grow with the text: `Passed` is
`Skipped` with that condition, `PassedStays`, `PassBlank` and `PassComment` are
its steps. The lemmas on spellings (`MarkType`, `PairIs`, `NameType`,
`NumberType`, `MarksEnd`, `OneTooMany`) show that the branches of the scanner
cut the text where `TypeOf` and `Longest` do. They need that no punctuation is
a letter or a digit (`PunctuationAssumption`), as `isalpha()` and `isdigit()`
see to. `unlex()` of the end of the file gives nothing back, because the empty
slot is marked by that very type; the next `lex()` finds the end again.

`CodegenProofs`, for every finite set of names, every subset of the forms and
ASTs of any size (`IdentifiersAssumption`, `MaxNodesAssumption`,
`MaxParamsAssumption`, `UsedTypesAssumption`, `FormsAssumption`):

| Theorem | Statement |
|---|---|
| `GeneratorInvariance` | `Spec => []Inv` |
| `CodegenTypes` | `Spec => []TypeOK` |
| `Balance` | `Spec => []OperandsBalanced` |
| `Scopes` | `Spec => []ScopesMatchBlocks` |
| `ResultTypes` | `Spec => []ResultHasItsType` |
| `NamesInvariance` | `Spec => []NamesOK` |
| `NamesAreFound` | `Spec => []NamesResolve` |

As in the parser, `TypeOK` is not inductive: a handler takes a value from the
operand stack and trusts that there is one, of its type. `Inv` begins with the
call discipline (`StackOK`): what a frame yields is what the frame below it
expects, and an expression yields the type it was asked for. From it follow how
many operands there are and of which types (`Results`), as long as there was no
error, and how many scopes (`Scoped`), also after one. Once a function is
defined twice, or a name is used for two parameters, the generator's tables and
the parser's disagree; `Known` is where the types still hold.

`NamesOK` relates the parser's flat table to the nested scopes (`NamesAgree`): a
slot in any scope has the type the parser knows, and a name the parser knows has
a slot unless its block has ended. An assignment looks its name up before it
visits the right side and stores afterwards; `Assigns` says that what it found
stays true meanwhile. That a lookup finds the innermost slot rests on a nonempty
set of positions having a last one, again by a least counterexample
(`LastPlace`, `FirstPlace`).

`CodegenBlockProofs`, for the same instances:

| Theorem | Statement |
|---|---|
| `BlocksInvariance` | `Spec => []BlocksOK` |
| `TerminatorsAreLast` | `Spec => []NothingAfterTerminator` |
| `FunctionsAreComplete` | `Spec => []FunctionComplete` |

A handler of a branch, a loop or a short-circuit operator makes its blocks first
and enters them after other handlers have run. `BlocksOK` says whose each block
is: it is the insert block, or kept by exactly one frame (`Reserved`) and then
still open, or attached and terminated (`Laid`); and whether the active frame
finds the insert block open (`Goes`): it always does when an expression or a
statement begins, and after a statement that may have returned it need not. The
lemmas follow the four ways the code moves on: staying in the block (`InPlace`),
adding blocks and entering the first (`InNew`), entering a kept block and
keeping the rest (`InKept`), and ending in the last kept block (`EndsInKept`).

`CodegenDominanceProofs`, for the same instances:

| Theorem | Statement |
|---|---|
| `DominanceInvariance` | `Spec => []DominanceOK` |
| `DefinitionsComeFirst` | `Spec => []DefinitionsDominateUses` |

Dominance is a statement about all paths of a graph that is still growing, so it
cannot be kept as it stands. In its place the invariant keeps a set of blocks
for each definition: the set leaves out the entry block, and no branch leads
into it but to the block of the definition (`Sealed`). What was defined in the
entry block needs no set, as nothing is reached without passing it. A
definition is `Alive` for the frames whose rank in the call stack is at least
that of the first frame entered since: as long as one of them runs, the insert
block and every block that these frames keep are in the set, so that new blocks
and branches stay in it; the frames below may branch to the definition's block,
but not past it. When
control goes back to a lower frame and on in a block that this one has kept, the
set is left for good (`Gone`), and stays sealed because no frame holds a block
of it any more, the definition's own excepted.

`Owned` says that everything a handler may still use is alive for as long as it
may use it: the left operands on the operand stack for the frames that wait for
them, the temporary slot of a short-circuit operator, the slot of an assignment,
the arguments of a call, and the variables of each scope for the frame that
will pop the scope. So the innermost scope is the one whose variables live
shortest, and a lookup that finds a name in an outer scope finds a definition
that lives longer. A recorded use lies in a sealed set of its definition
(`Recorded`). That the blocks reached without the definition stay out of such a
set is an induction over the length of paths: `ReachedAvoiding` is shown to
denote the function it describes (`StepsExist`), and then never to enter the set
(`SealedAvoided`), each by a least counterexample.

The property has a condition, and needs it: a body without braces that declares
a variable binds it in the enclosing scope (`BodiesDoNotLeak`), where it is still
bound after control has left the blocks that its alloca dominates. A use of it
there is invalid IR; without the condition TLC finds one in a program of five
nodes. `Placed` is where the proof uses it.

Only model-checked is liveness (`Termination` of parser and calls,
`LexReturns`), which the prover does not reach. Every safety property of the
passing runs, and both refinements, are theorems.

## What is not modelled

- *The Windows side* of `Process.cpp` and the branch for `cl.exe`: other system
  calls for the same outcomes.
- *Characters above 127* in the scanner: `main()` takes a file with one for an
  object file; the byte 255 would look like `EOF`.
- *Optimisation passes*, the options `-O`, and everything else inside LLVM:
  external code and its configuration.
- *Printer* and the debug output: they change nothing that is read.
- *Messages*: only whether there is one, and whether `isFailed()` knows of it.
- *Values*: literals are a type and whether `std::stoi`/`std::stof` accept them;
  arithmetic is LLVM's.
- *Destructors themselves*, and exceptions such as `std::bad_alloc`: the program
  ends.
- *Fuzz harness and tests.*

Known from modelling, without a run of their own. Where the code and a sentence
about it differ:

- `LANGUAGE.md:88` says that the types of arguments are checked at the call
  site; the parser looks at no argument, and `visit(FuncallNode)` checks how many
  there are and casts each to the type of its parameter, an int to a bool as
  well (`Codegen.h:850`).
- `Process.h:50` calls the temporary files ones "that are created and removed
  within a single call"; a failed link leaves its wrapper source behind
  (`Linker.h:86`), a failed `compile()` may leave a part of an object file.
  `TempsRemoved` holds because both print a message.
- `main.cpp:141` means to refuse an output of `-o` that is the input, but
  compares names, and before the output is derived: `pudl ./foo -o`, `pudl foo
  -o` and `pudl foo.o -o ./foo.o` link over their input. These are the last case
  of `InputSurvives`.
- Without a value `-c` drops the directory of the input (`main.cpp:116`); line
  178 of the repository's `README.md` says that `./examples/main.pudl` becomes
  `./examples/main.o`.

And where nothing is said: a complaint of `is()` leaves `isFailed()` false, so
that `f(1 2)` compiles; two parameters of one name are accepted; `main()` does
not learn that `save()` failed or that there is no `lli`; the exit code is 0
after failures.

## Plan

**Pudl**: the composition of parser and code generator over one stream of
tokens, so that the forms that `Codegen` assumes of a clean parse are derived.
