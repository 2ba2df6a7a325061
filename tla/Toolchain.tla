----------------------------- MODULE Toolchain -----------------------------
(***************************************************************************)
(* Several calls of pudl at once in one directory: main.cpp, the part of   *)
(* Parser/Codegen.h that emits, links and runs, Compiler/Linker/Linker.h   *)
(* and Compiler/Process.cpp (its POSIX side).                              *)
(*                                                                         *)
(* A call is a process; `at` is the point of the program that it has       *)
(* reached.  What they share is the directory, a function from file names  *)
(* to contents.  The external tools are child processes that the call      *)
(* waits for; they may be missing, fail to start, fail, or be killed.  A   *)
(* call may be interrupted with its child at any point, and its pid be     *)
(* given again.                                                            *)
(*                                                                         *)
(* Parser and code generator are known by their outcome.                   *)
(***************************************************************************)
EXTENDS Driver

CONSTANTS
    Invocations,    \* the calls of pudl
    Pids,           \* the process ids the system gives out
    CommandLines,   \* the command lines, as sequences of arguments
    SourceFiles,    \* the user's files in the directory at the beginning:
    ObjectFiles,    \* ASCII ones and others
    OutputFiles,    \* other names a command line may give a file
    Resolve,        \* what a name leads to: ./foo and foo are one file
    Linkers,        \* the candidates of Linker::DetectDefault(), in order
    Interpreters,   \* the candidates of runSource(), in order
    MaxInterrupts   \* a bound on the number of interrupted calls

NULL == "NULL"

\* The calls are told from the user, who wrote what nobody else has written.
ASSUME InvocationsAssumption == NULL \notin Invocations
ASSUME ListsAssumption == Linkers # <<>> /\ Interpreters # <<>>
ASSUME MaxInterruptsAssumption == MaxInterrupts \in Nat

VARIABLES
    files,      \* the directory
    at,         \* the point a call has reached
    argv,       \* its command line
    pid,        \* its process id
    counter,    \* the counter of UniqueTempPath()
    isSource,   \* main()'s isSourceFile
    program,    \* what the open input file holds for the call
    probe,      \* the loop index of Detect()
    linker,     \* main()'s linker; in runSource() its lliCmd
    scratch,    \* the temporary file of runSource(), runObject(), linkSource()
    wrapper,    \* the temporary source of Link()
    child,      \* the child process the call waits for
    result,     \* what Run() returned last
    linkFailed, \* history: a call of Link() returned 1
    failed,     \* history: isFailed() was true when main() asked for it
    reported,   \* history: a message about a failure was printed
    made,       \* history: the file that was asked for was written
    interrupts  \* how many calls may still be interrupted

options == <<argv, pid, isSource>>
temps == <<counter, scratch, wrapper>>
children == <<child, result>>
history == <<linkFailed, failed, reported, made>>
vars == <<files, at, options, program, probe, linker, temps, children, history, interrupts>>
-----------------------------------------------------------------------------
(* The directory                                                           *)

\* The file that a name of the user's leads to, and the one that a name of
\* UniqueTempPath() does.
File(name) == <<Resolve[name]>>
Temp(prefix, p, n) == <<prefix, p, n>>

Prefixes == {"temp", "out", "pudl_run", "TempLinker"}
TempFiles == {Temp(prefix, p, n) : prefix \in Prefixes, p \in Pids, n \in 0..1}
Sources == {File(name) : name \in SourceFiles}
Objects == {File(name) : name \in ObjectFiles}
UserFiles == Sources \cup Objects \cup {File(name) : name \in OutputFiles}
FileNames == UserFiles \cup TempFiles

ASSUME NamesAssumption == Sources \cap Objects = {}

\* The outputs of a call that gets as far as the parser are among the names.
ASSUME CommandLinesAssumption ==
    \A args \in CommandLines :
        ~Informs(args) /\ File(Input(args)) \in UserFiles /\ ~Refuses(args) =>
            /\ Compiles(args) => File(CompileOut(args)) \in UserFiles
            /\ Links(args) => File(LinkOut(args)) \in UserFiles

\* What a file holds: `of` is the user's file with the program it comes from,
\* `by` the call that wrote it, NULL for the user.
Content(kind, of, by) == [kind |-> kind, of |-> of, by |-> by]
NoFile == <<>>
Nothing == Content("nothing", NoFile, NULL)
Kinds == {"source", "object", "ir", "wrapper", "executable", "truncated"}

\* The ASCII files; main() takes them for source files.
IsText(content) == content.kind \in {"source", "ir", "wrapper", "truncated"}

Exists(name) == name \in FileNames /\ files[name] # Nothing
Write(name, content) == files' = [files EXCEPT ![name] = content]
Remove(name) == files' = [files EXCEPT ![name] = Nothing]
-----------------------------------------------------------------------------
(* Processes                                                               *)

Ended == {"done", "refused", "interrupted"}
Live(i) == at[i] \notin Ended \cup {"new"}

At(i, point) == at[i] = point
Goto(i, point) == at' = [at EXCEPT ![i] = point]
Report(i) == reported' = [reported EXCEPT ![i] = TRUE]

\* Mutant: fixed names, as before.
FixedTempPath(i, prefix) == Temp(prefix, CHOOSE p \in Pids : TRUE, counter[i])

UniqueTempPath(i, prefix) == Temp(prefix, pid[i], counter[i])

\* Process::Run() up to waitpid(): a child, or -1 at once.
Spawn(i, what, there, running, after) ==
    \/ /\ there
       /\ child' = [child EXCEPT ![i] = what]
       /\ Goto(i, running)
       /\ UNCHANGED result
    \/ /\ result' = [result EXCEPT ![i] = -1]
       /\ Goto(i, after)
       /\ UNCHANGED child

\* waitpid() returns: the exit code, or -1 for a child that was killed.
Wait(i, code, after) ==
    /\ child' = [child EXCEPT ![i] = NULL]
    /\ result' = [result EXCEPT ![i] = code]
    /\ Goto(i, after)

\* The lists that Detect() goes through, and what comes after it.
Detection == [detectLinker  |-> [list |-> Linkers, then |-> "options"],
              detectRunner  |-> [list |-> Linkers, then |-> "runObject"],
              detectLli     |-> [list |-> Interpreters, then |-> "execute"]]

\* Mutant: after the last candidate the search begins again.
DetectAgain(i) ==
    /\ at[i] \in DOMAIN Detection
    /\ LET list == Detection[at[i]].list
           k == probe[i]
       IN \/ /\ linker' = [linker EXCEPT ![i] = list[k]]
             /\ probe' = [probe EXCEPT ![i] = 1]
             /\ Goto(i, Detection[at[i]].then)
          \/ /\ probe' = [probe EXCEPT ![i] = (k % Len(list)) + 1]
             /\ UNCHANGED <<linker, at>>
    /\ UNCHANGED <<files, options, program, temps, children, history, interrupts>>

\* One turn of Detect().  A candidate that can be started is taken, and its
\* exit code is not looked at; one that is killed passes for one that could
\* not be started.  After the last one the first is taken all the same.
Detect(i) ==
    /\ at[i] \in DOMAIN Detection
    /\ LET list == Detection[at[i]].list
           k == probe[i]
           Take(tool) == /\ linker' = [linker EXCEPT ![i] = tool]
                         /\ probe' = [probe EXCEPT ![i] = 1]
                         /\ Goto(i, Detection[at[i]].then)
       IN \/ k <= Len(list) /\ Take(list[k])
          \/ /\ k <= Len(list)
             /\ probe' = [probe EXCEPT ![i] = k + 1]
             /\ UNCHANGED <<linker, at>>
          \/ k > Len(list) /\ Take(list[1])
    /\ UNCHANGED <<files, options, program, temps, children, history, interrupts>>
-----------------------------------------------------------------------------
(* main() up to the parser                                                 *)

\* The process starts; it ends again if it is only asked for information, or
\* cannot open the file.  A file is a source file if it is ASCII.
Start(i) ==
    /\ At(i, "new")
    /\ \E args \in CommandLines, p \in Pids \ {pid[j] : j \in {k \in Invocations : Live(k)}} :
         LET opens == ~Informs(args) /\ Exists(File(Input(args)))
             asks == Links(args) /\ LinkerGiven(args) = ""
         IN /\ argv' = [argv EXCEPT ![i] = args]
            /\ pid' = [pid EXCEPT ![i] = p]
            /\ isSource' =
                 [isSource EXCEPT ![i] = opens /\ IsText(files[File(Input(args))])]
            /\ linker' = [linker EXCEPT ![i] = IF Informs(args) THEN "" ELSE LinkerGiven(args)]
            /\ program' =
                 [program EXCEPT ![i] = IF opens THEN files[File(Input(args))] ELSE Nothing]
            /\ reported' = [reported EXCEPT ![i] = ~opens /\ ~Informs(args)]
            /\ Goto(i, IF ~opens THEN "refused" ELSE IF asks THEN "detectLinker" ELSE "options")
    /\ UNCHANGED <<files, probe, temps, children, linkFailed, failed, made, interrupts>>

Options(i) ==
    /\ At(i, "options")
    /\ \/ Refuses(argv[i]) /\ Report(i) /\ Goto(i, "refused")
       \/ ~Refuses(argv[i]) /\ UNCHANGED reported /\ Goto(i, "parse")
    /\ UNCHANGED <<files, options, program, probe, linker, temps, children, linkFailed, failed,
                   made, interrupts>>

\* What main() does next for a program without an error.
NextStep(i) ==
    CASE Compiles(argv[i]) -> "compile"
      [] Links(argv[i]) -> IF isSource[i] THEN "linkSource" ELSE "linkObject"
      [] OTHER -> IF isSource[i] THEN "runSource"
                  ELSE IF linker[i] = "" THEN "detectRunner" ELSE "runObject"

\* The file was open all the time; a file that was removed still is.
Reread(i) ==
    LET input == File(Input(argv[i]))
    IN program' = [program EXCEPT ![i] = IF Exists(input) THEN files[input] ELSE @]

Fails(i) == failed' = [failed EXCEPT ![i] = TRUE]

\* Mutant: for a DummyNode there is nothing to do.
GenerateSkipsDummy(i) ==
    /\ At(i, "parse")
    /\ Reread(i)
    /\ \/ IsText(program'[i]) /\ Report(i) /\ Fails(i) /\ Goto(i, "done")
       \/ IsText(program'[i]) /\ Report(i) /\ Fails(i) /\ Goto(i, "print")
       \/ IsText(program'[i]) /\ Report(i) /\ UNCHANGED failed /\ Goto(i, "print")
       \/ UNCHANGED <<reported, failed>> /\ Goto(i, "print")
       \/ IsText(program'[i]) /\ UNCHANGED <<reported, failed>> /\ Goto(i, NextStep(i))
    /\ UNCHANGED <<files, options, probe, linker, temps, children, linkFailed, made,
                   interrupts>>

\* Mutant: what isFailed() of the code generator says is not looked at.
GenerateRegardless(i) ==
    /\ At(i, "parse")
    /\ Reread(i)
    /\ \/ IsText(program'[i]) /\ Report(i) /\ Fails(i) /\ Goto(i, "done")
       \/ IsText(program'[i]) /\ Report(i) /\ Fails(i) /\ Goto(i, NextStep(i))
       \/ IsText(program'[i]) /\ Report(i) /\ UNCHANGED failed /\ Goto(i, NextStep(i))
       \/ UNCHANGED <<reported, failed>> /\ Goto(i, NextStep(i))
    /\ UNCHANGED <<files, options, probe, linker, temps, children, linkFailed, made,
                   interrupts>>

\* The parser fails with a message; or the code generator does, and then the
\* IR may still be printed.  A complaint of is() is a message too, but it is
\* not a failure: what the parser makes of the program, a DummyNode or a tree
\* without the definition in question or even with it, goes all the way.  So
\* does a program about which nothing is said.  The bytes of an object file
\* pass the same parser: the first is no symbol of the language, which gives
\* a DummyNode and no message.
Generate(i) ==
    /\ At(i, "parse")
    /\ Reread(i)
    /\ \/ IsText(program'[i]) /\ Report(i) /\ Fails(i) /\ Goto(i, "done")
       \/ IsText(program'[i]) /\ Report(i) /\ Fails(i) /\ Goto(i, "print")
       \/ IsText(program'[i]) /\ Report(i) /\ UNCHANGED failed /\ Goto(i, NextStep(i))
       \/ UNCHANGED <<reported, failed>> /\ Goto(i, NextStep(i))
    /\ UNCHANGED <<files, options, probe, linker, temps, children, linkFailed, made,
                   interrupts>>
-----------------------------------------------------------------------------
(* Codegen::compile, Linker::Link                                          *)

Object(i) == Content("object", program[i].of, i)

\* compile() to a file: written; or given up with a message, before or after
\* the file was created.
Emits(i, name) == Write(name, Object(i)) /\ UNCHANGED reported
EmitsNot(i, name) ==
    /\ Report(i)
    /\ UNCHANGED files \/ Write(name, Content("truncated", program[i].of, i))

\* pudl foo.pudl -c: main() does not look at what compile() returns.
Compile(i) ==
    /\ At(i, "compile")
    /\ LET out == File(CompileOut(argv[i]))
       IN \/ Emits(i, out) /\ made' = [made EXCEPT ![i] = TRUE]
          \/ EmitsNot(i, out) /\ UNCHANGED made
    /\ Goto(i, "print")
    /\ UNCHANGED <<options, program, probe, linker, temps, children, linkFailed,
                   failed, interrupts>>

\* linkSource() compiles to a temporary object file.
LinkSource(i) ==
    /\ At(i, "linkSource")
    /\ LET temp == UniqueTempPath(i, "temp")
       IN /\ scratch' = [scratch EXCEPT ![i] = temp]
          /\ \/ Emits(i, temp) /\ Goto(i, "linkObject")
             \/ EmitsNot(i, temp) /\ Goto(i, "print")
    /\ counter' = [counter EXCEPT ![i] = @ + 1]
    /\ UNCHANGED <<options, program, probe, linker, wrapper, children, linkFailed, failed,
                   made, interrupts>>

\* runObject() links to a temporary executable.
RunObject(i) ==
    /\ At(i, "runObject")
    /\ scratch' = [scratch EXCEPT ![i] = UniqueTempPath(i, "pudl_run")]
    /\ counter' = [counter EXCEPT ![i] = @ + 1]
    /\ Goto(i, "linkObject")
    /\ UNCHANGED <<files, options, program, probe, linker, wrapper, children, history,
                   interrupts>>

\* Mutant: linkObject() is always given the temporary object file.
InPathOfSource(i) == scratch[i]

\* What Link() is called with.
InPath(i) == IF isSource[i] THEN scratch[i] ELSE File(Input(argv[i]))
OutPath(i) == IF Links(argv[i]) THEN File(LinkOut(argv[i])) ELSE scratch[i]

\* Link(): the wrapper is written and the linker started.  Nobody asks the
\* stream whether it was opened or has written all: the linker may find a part
\* of the wrapper, none, or one that a killed call has left.
Link(i) ==
    /\ At(i, "linkObject")
    /\ LET temp == UniqueTempPath(i, "TempLinker")
       IN /\ wrapper' = [wrapper EXCEPT ![i] = temp]
          /\ \/ \E kind \in {"wrapper", "truncated"} : Write(temp, Content(kind, NoFile, i))
             \/ UNCHANGED files
    /\ counter' = [counter EXCEPT ![i] = @ + 1]
    /\ Spawn(i, "linker", TRUE, "linking", "linked")
    /\ UNCHANGED <<options, program, probe, linker, scratch, history, interrupts>>

\* The linker comes to its end.  It succeeds only on a whole wrapper, whoever
\* wrote it, and an object file; if it fails it leaves the old output or none.
LinkerEnds(i) ==
    /\ At(i, "linking")
    /\ \/ /\ files[wrapper[i]].kind = "wrapper" /\ files[InPath(i)].kind = "object"
          /\ Write(OutPath(i), Content("executable", files[InPath(i)].of, i))
          /\ Wait(i, 0, "linked")
       \/ /\ UNCHANGED files \/ Remove(OutPath(i))
          /\ \E code \in {1, -1} : Wait(i, code, "linked")
    /\ UNCHANGED <<options, program, probe, linker, temps, history, interrupts>>

\* Mutant: the wrapper is not removed.
LinkedLeaves(i) ==
    /\ At(i, "linked")
    /\ \/ /\ result[i] = 0
          /\ made' = [made EXCEPT ![i] = Links(argv[i])]
          /\ UNCHANGED <<files, linkFailed, reported>>
       \/ /\ linkFailed' = [linkFailed EXCEPT ![i] = TRUE]
          /\ Report(i)
          /\ UNCHANGED <<files, made>>
    /\ Goto(i, IF ~Links(argv[i]) THEN "execute" ELSE IF isSource[i] THEN "cleanup" ELSE "print")
    /\ UNCHANGED <<options, program, probe, linker, temps, children, failed, interrupts>>

\* The rest of Link(): the wrapper is removed only after a success.  A link
\* that failed, and a wrapper that cannot be removed, are both a failure.
Linked(i) ==
    /\ At(i, "linked")
    /\ \/ /\ result[i] = 0
          /\ Remove(wrapper[i])
          /\ made' = [made EXCEPT ![i] = Links(argv[i])]
          /\ UNCHANGED <<linkFailed, reported>>
       \/ /\ linkFailed' = [linkFailed EXCEPT ![i] = TRUE]
          /\ Report(i)
          /\ UNCHANGED <<files, made>>
    /\ Goto(i, IF ~Links(argv[i]) THEN "execute" ELSE IF isSource[i] THEN "cleanup" ELSE "print")
    /\ UNCHANGED <<options, program, probe, linker, temps, children, failed, interrupts>>
-----------------------------------------------------------------------------
(* Codegen::runSource, Codegen::runObject                                  *)

\* runSource(): the IR goes to a temporary file, unless it cannot be opened.
\* That a main() is appended to it nobody checks either; without one lli fails,
\* and how lli ends makes no difference.
RunSource(i) ==
    /\ At(i, "runSource")
    /\ LET temp == UniqueTempPath(i, "out")
       IN /\ scratch' = [scratch EXCEPT ![i] = temp]
          /\ \/ /\ Write(temp, Content("ir", program[i].of, i))
                /\ Goto(i, "detectLli")
                /\ UNCHANGED reported
             \/ Report(i) /\ Goto(i, "print") /\ UNCHANGED files
    /\ counter' = [counter EXCEPT ![i] = @ + 1]
    /\ UNCHANGED <<options, program, probe, linker, wrapper, children, linkFailed, failed,
                   made, interrupts>>

\* lli on the IR, or the executable, whether or not it was linked.
Execute(i) ==
    /\ At(i, "execute")
    /\ IF isSource[i]
         THEN Spawn(i, "lli", TRUE, "executing", "cleanup")
         ELSE Spawn(i, "executable", files[scratch[i]].kind = "executable",
                    "executing", "cleanup")
    /\ UNCHANGED <<files, options, program, probe, linker, temps, history, interrupts>>

\* The program ends.  Nobody looks at its exit code.
ProgramEnds(i) ==
    /\ At(i, "executing")
    /\ \E code \in {0, 1, -1} : Wait(i, code, "cleanup")
    /\ UNCHANGED <<files, options, program, probe, linker, temps, history, interrupts>>

\* remove() of the temporary file, or a message that it failed.
Cleanup(i) ==
    /\ At(i, "cleanup")
    /\ \/ Exists(scratch[i]) /\ Remove(scratch[i]) /\ UNCHANGED reported
       \/ Report(i) /\ UNCHANGED files
    /\ Goto(i, "print")
    /\ UNCHANGED <<options, program, probe, linker, temps, children, linkFailed, failed, made,
                   interrupts>>
-----------------------------------------------------------------------------
(* The end of main()                                                       *)

\* save() to a file, without a look at whether it could be opened, or dump().
PrintIR(i) ==
    /\ At(i, "print")
    /\ \/ /\ Prints(argv[i])
          /\ PrintOut(argv[i]) # ""
          /\ Write(File(PrintOut(argv[i])), Content("ir", program[i].of, i))
       \/ UNCHANGED files
    /\ Goto(i, "done")
    /\ UNCHANGED <<options, program, probe, linker, temps, children, history,
                   interrupts>>

\* The user interrupts the call and the child it waits for.
Interrupt(i) ==
    /\ Live(i)
    /\ interrupts > 0
    /\ interrupts' = interrupts - 1
    /\ child' = [child EXCEPT ![i] = NULL]
    /\ Goto(i, "interrupted")
    /\ UNCHANGED <<files, options, program, probe, linker, temps, result, history>>
-----------------------------------------------------------------------------
Init ==
    /\ files = [f \in FileNames |->
                  IF f \in Sources THEN Content("source", f, NULL)
                  ELSE IF f \in Objects THEN Content("object", f, NULL)
                  ELSE Nothing]
    /\ at = [i \in Invocations |-> "new"]
    /\ argv = [i \in Invocations |-> <<>>]
    /\ pid = [i \in Invocations |-> NULL]
    /\ counter = [i \in Invocations |-> 0]
    /\ isSource = [i \in Invocations |-> FALSE]
    /\ program = [i \in Invocations |-> Nothing]
    /\ probe = [i \in Invocations |-> 1]
    /\ linker = [i \in Invocations |-> ""]
    /\ scratch = [i \in Invocations |-> NoFile]
    /\ wrapper = [i \in Invocations |-> NoFile]
    /\ child = [i \in Invocations |-> NULL]
    /\ result = [i \in Invocations |-> 0]
    /\ linkFailed = [i \in Invocations |-> FALSE]
    /\ failed = [i \in Invocations |-> FALSE]
    /\ reported = [i \in Invocations |-> FALSE]
    /\ made = [i \in Invocations |-> FALSE]
    /\ interrupts = MaxInterrupts

\* One call goes on, or the child it waits for ends.
Step(i) ==
    \/ Detect(i) \/ Options(i) \/ Generate(i)
    \/ Compile(i) \/ LinkSource(i) \/ RunObject(i) \/ Link(i) \/ LinkerEnds(i) \/ Linked(i)
    \/ RunSource(i) \/ Execute(i) \/ ProgramEnds(i) \/ Cleanup(i) \/ PrintIR(i)

Over == (\A i \in Invocations : at[i] \in Ended) /\ UNCHANGED vars

Next == (\E i \in Invocations : Start(i) \/ Step(i) \/ Interrupt(i)) \/ Over

\* A call that was started is scheduled again and again, and a child comes to
\* its end.
Spec == Init /\ [][Next]_vars /\ \A i \in Invocations : WF_vars(Step(i))
-----------------------------------------------------------------------------
(* Properties                                                              *)

Points == {"new", "options", "parse", "compile", "linkSource", "linkObject", "linking",
           "linked", "runSource", "runObject", "execute", "executing", "cleanup", "print"}
             \cup DOMAIN Detection \cup Ended

\* The variables hold values of their types, and the files that a call is
\* about to write or to hand to the linker have a name.
TypeOK ==
    /\ files \in [FileNames -> {Nothing} \cup [kind : Kinds, of : UserFiles \cup {NoFile},
                                               by : Invocations \cup {NULL}]]
    /\ at \in [Invocations -> Points]
    /\ \A i \in Invocations :
         /\ argv[i] \in CommandLines \cup {<<>>}
         /\ pid[i] \in Pids \cup {NULL}
         /\ counter[i] \in 0..2
         /\ program[i] \in {Nothing} \cup [kind : Kinds, of : UserFiles \cup {NoFile},
                                           by : Invocations \cup {NULL}]
         /\ {scratch[i], wrapper[i]} \subseteq TempFiles \cup {NoFile}
         /\ child[i] \in {NULL, "linker", "lli", "executable"}
         /\ result[i] \in {0, 1, -1}
         /\ At(i, "compile") => File(CompileOut(argv[i])) \in UserFiles
         /\ At(i, "linking") => OutPath(i) \in FileNames /\ InPath(i) \in FileNames
    /\ interrupts \in 0..MaxInterrupts

\* What a tool reads from a temporary file is the program that its own call
\* has parsed, whatever other calls do at the same time or have left behind.
\* Only where a call goes on without looking, after a wrapper that could not be
\* written and after a link that failed, may there be an older file of the same
\* name; and never one of a call that still runs.
UsesOwnFiles ==
    \A i \in Invocations :
        LET Foreign(f) == \E j \in Invocations \ {i} : Live(j) /\ files[f].by = j
        IN /\ child[i] = "linker" =>
                /\ isSource[i] => files[scratch[i]] = Object(i)
                /\ ~Foreign(wrapper[i])
           /\ child[i] = "lli" => files[scratch[i]] = Content("ir", program[i].of, i)
           /\ child[i] = "executable" =>
                files[scratch[i]].by = i \/ (linkFailed[i] /\ ~Foreign(scratch[i]))

\* Two calls that run at the same time never use the same temporary file.
TempsDiffer ==
    \A i, j \in Invocations : i # j /\ Live(i) /\ Live(j) =>
        {scratch[i], wrapper[i]} \cap {scratch[j], wrapper[j]} \subseteq {NoFile}

Leftovers(i) == {f \in TempFiles : files[f].by = i}

\* A call that comes to its end without a word about a failure has removed
\* its temporary files.
TempsRemoved ==
    \A i \in Invocations : At(i, "done") /\ ~reported[i] => Leftovers(i) = {}

\* A call whose parser or code generator has failed, so that main() finds
\* isFailed() true, starts no tool and no program and makes no file, but for
\* the IR that -p asks for.
NothingRunsAfterFailure ==
    \A i \in Invocations : failed[i] =>
        /\ child[i] = NULL
        /\ \A f \in FileNames : files[f].by = i =>
             Prints(argv[i]) /\ PrintOut(argv[i]) # "" /\ f = File(PrintOut(argv[i]))

\* A call that was to write a file, and ends without a word about a failure,
\* has written it.
SilentMeansMade ==
    \A i \in Invocations :
        At(i, "done") /\ ~reported[i] /\ (Compiles(argv[i]) \/ Links(argv[i])) => made[i]

\* A call writes over its input only by an output that leads to the same file:
\* given to -c or -p or derived for -c, or given to -o by another name, or
\* derived for -o.
InputSurvives ==
    \A i \in Invocations : argv[i] # <<>> /\ ~Informs(argv[i]) =>
        LET input == File(Input(argv[i]))
        IN input \in FileNames /\ files[input].by = i =>
             \/ Compiles(argv[i]) /\ File(CompileOut(argv[i])) = input
             \/ /\ Prints(argv[i]) /\ PrintOut(argv[i]) # ""
                /\ File(PrintOut(argv[i])) = input
             \/ /\ Links(argv[i]) /\ OutputGiven(argv[i]) # Input(argv[i])
                /\ File(LinkOut(argv[i])) = input

\* A call that was started comes to its end, if the tools and the program do.
Termination == \A i \in Invocations : Live(i) ~> at[i] \in Ended
=============================================================================
