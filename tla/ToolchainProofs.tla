-------------------------- MODULE ToolchainProofs --------------------------
(***************************************************************************)
(* Concurrent calls of pudl do not get into each other's way, for any      *)
(* number of calls, process ids, command lines and files: the temporary    *)
(* files of live calls differ, and an output that is missing has been      *)
(* reported.                                                               *)
(*                                                                         *)
(* Then who has written which file.  Every file that a call i has written, *)
(* by = i, is accounted for: one of the user's is an output that i was     *)
(* given, whatever name leads to it, and a temporary one holds the pid of  *)
(* i and is still needed.  From that follow the types of the variables,    *)
(* that a tool reads the program of its own call and nothing of another    *)
(* live one, that a call without a message leaves no temporary file        *)
(* behind, that one for which isFailed() was true has written nothing but  *)
(* IR, and when a call overwrites its input.                               *)
(***************************************************************************)
EXTENDS Toolchain, TLAPS
-----------------------------------------------------------------------------
(* The inductive invariant                                                 *)

\* The variables are functions over the calls, and over the file names.
Domains ==
    /\ DOMAIN files = FileNames
    /\ DOMAIN at = Invocations
    /\ DOMAIN argv = Invocations
    /\ DOMAIN pid = Invocations
    /\ DOMAIN counter = Invocations
    /\ DOMAIN isSource = Invocations
    /\ DOMAIN program = Invocations
    /\ DOMAIN scratch = Invocations
    /\ DOMAIN wrapper = Invocations
    /\ DOMAIN child = Invocations
    /\ DOMAIN result = Invocations
    /\ DOMAIN linkFailed = Invocations
    /\ DOMAIN failed = Invocations
    /\ DOMAIN reported = Invocations
    /\ DOMAIN made = Invocations

\* Two live calls have different process ids.
PidsDiffer ==
    \A i, j \in Invocations : i # j /\ Live(i) /\ Live(j) => pid[i] # pid[j]

Scratches(p) == {Temp(prefix, p, n) : prefix \in Prefixes \ {"TempLinker"}, n \in 0..1}
Wrappers(p) == {Temp("TempLinker", p, n) : n \in 0..1}

Linking == {"linkObject", "linking", "linked"}
Running == {"detectLli", "execute", "executing"}

\* The names of a call's temporary files hold its process id, and it has them
\* when it needs them.
TempsOK(i) ==
    /\ Live(i) => pid[i] \in Pids
    /\ at[i] = "new" => scratch[i] = NoFile /\ wrapper[i] = NoFile
    /\ scratch[i] \in Scratches(pid[i]) \cup {NoFile}
    /\ wrapper[i] \in Wrappers(pid[i]) \cup {NoFile}
    /\ at[i] \in Running => scratch[i] # NoFile
    /\ at[i] \in Linking /\ (isSource[i] \/ ~Links(argv[i])) => scratch[i] # NoFile
    /\ at[i] = "linking" => wrapper[i] # NoFile

\* UniqueTempPath() has been called at most once before a point where it is
\* called.
CounterOK(i) ==
    /\ at[i] \in {"new", "detectLinker", "options", "parse", "linkSource", "runSource",
                  "detectRunner", "runObject"} => counter[i] = 0
    /\ at[i] = "linkObject" => counter[i] \in 0..1

\* Which command lines and files lead to which points.
ControlOK(i) ==
    /\ at[i] = "parse" => ~(Compiles(argv[i]) /\ Links(argv[i]))
    /\ at[i] = "linkSource" => isSource[i] /\ Links(argv[i])
    /\ at[i] \in {"runSource", "detectLli"} => isSource[i]
    /\ at[i] \in {"runObject", "detectRunner"} => ~isSource[i]
    /\ at[i] \in {"runSource", "runObject", "detectRunner"} \cup Running =>
         ~Compiles(argv[i]) /\ ~Links(argv[i])
    /\ at[i] \in Linking => Links(argv[i]) \/ (~isSource[i] /\ ~Compiles(argv[i]))
    /\ child[i] # NULL =>
         \/ child[i] = "linker" /\ at[i] = "linking"
         \/ child[i] = "lli" /\ at[i] = "executing" /\ isSource[i]
         \/ child[i] = "executable" /\ at[i] = "executing" /\ ~isSource[i]

\* At the end the output is there, or its absence was reported.
ReportsOK(i) ==
    at[i] \in {"cleanup", "print", "done"} =>
         reported[i] \/ made[i] \/ ~(Compiles(argv[i]) \/ Links(argv[i]))

\* What the temporary files hold that a call has written before it goes on.
FilesOK(i) ==
    /\ isSource[i] /\ at[i] \in {"linkObject", "linking"} => files[scratch[i]] = Object(i)
    /\ isSource[i] /\ at[i] \in Running =>
         files[scratch[i]] = Content("ir", program[i].of, i)
    /\ ~isSource[i] /\ at[i] = "linked" /\ result[i] = 0 /\ ~Links(argv[i]) =>
         files[scratch[i]].by = i
    /\ ~isSource[i] /\ at[i] \in Running => files[scratch[i]].by = i \/ linkFailed[i]

CallOK(i) == TempsOK(i) /\ CounterOK(i) /\ ControlOK(i) /\ ReportsOK(i) /\ FilesOK(i)

Inv == Domains /\ PidsDiffer /\ \A i \in Invocations : CallOK(i)
-----------------------------------------------------------------------------
(* File names                                                              *)

LEMMA TempsAreFiles ==
  ASSUME NEW p \in Pids
  PROVE  /\ Scratches(p) \subseteq TempFiles
         /\ Wrappers(p) \subseteq TempFiles
         /\ TempFiles \subseteq FileNames
         /\ NoFile \notin TempFiles
         /\ Scratches(p) \cap Wrappers(p) = {}
BY DEF Scratches, Wrappers, TempFiles, FileNames, Prefixes, Temp, NoFile

LEMMA TempsHavePids ==
  ASSUME NEW p, NEW q, p # q
  PROVE  (Scratches(p) \cup Wrappers(p)) \cap (Scratches(q) \cup Wrappers(q)) = {}
BY DEF Scratches, Wrappers, Temp

LEMMA UsersNoTemps ==
  ASSUME NEW name, NEW p
  PROVE  File(name) \notin Scratches(p) \cup Wrappers(p)
BY DEF File, Scratches, Wrappers, Temp
-----------------------------------------------------------------------------
(* What one call may do to another                                         *)

\* Only the call i moves, and of the temporary files only its own change.
Own(i) == Scratches(pid[i]) \cup Wrappers(pid[i])

Frame(i) ==
    /\ Domains'
    /\ \A j \in Invocations \ {i} :
         /\ at'[j] = at[j] /\ argv'[j] = argv[j] /\ pid'[j] = pid[j]
         /\ counter'[j] = counter[j] /\ isSource'[j] = isSource[j]
         /\ program'[j] = program[j] /\ scratch'[j] = scratch[j]
         /\ wrapper'[j] = wrapper[j] /\ child'[j] = child[j] /\ result'[j] = result[j]
         /\ linkFailed'[j] = linkFailed[j] /\ failed'[j] = failed[j]
         /\ reported'[j] = reported[j]
         /\ made'[j] = made[j]
    /\ \A j \in Invocations \ {i} : Live(j) => \A f \in Own(j) : files'[f] = files[f]

LEMMA OthersUndisturbed ==
  ASSUME Inv, NEW i \in Invocations, Frame(i), NEW j \in Invocations \ {i}
  PROVE  CallOK(j)'
<1>1. CallOK(j)
  BY DEF Inv
<1>2. TempsOK(j)' /\ CounterOK(j)' /\ ControlOK(j)' /\ ReportsOK(j)'
  BY <1>1 DEF CallOK, TempsOK, CounterOK, ControlOK, ReportsOK, Frame, Live
<1>3. ASSUME Live(j), NEW f \in {scratch[j], wrapper[j]} \ {NoFile}
      PROVE  files'[f] = files[f]
  BY <1>1, <1>3 DEF CallOK, TempsOK, Frame, Own
<1>4. FilesOK(j)'
  <2>1. CASE Live(j)
    BY <1>1, <1>3, <2>1 DEF CallOK, FilesOK, TempsOK, Frame, Object, Linking, Running, ControlOK
  <2>2. CASE ~Live(j)
    BY <2>2 DEF FilesOK, Frame, Live, Ended, Running
  <2>3. QED
    BY <2>1, <2>2
<1>5. QED
  BY <1>2, <1>4 DEF CallOK

\* An action keeps the invariant if it keeps it for the call that moves.
LEMMA Local ==
  ASSUME Inv, NEW i \in Invocations, Live(i), Frame(i), pid' = pid, CallOK(i)'
  PROVE  Inv'
<1>1. PidsDiffer'
  BY DEF Inv, PidsDiffer, Frame, Live
<1>2. \A j \in Invocations : CallOK(j)'
  BY OthersUndisturbed
<1>3. QED
  BY <1>1, <1>2 DEF Inv, Frame
-----------------------------------------------------------------------------
(* The actions                                                             *)

\* A file that is the user's or the call's own is nobody else's temporary file.
LEMMA WriteApart ==
  ASSUME Inv, NEW i \in Invocations, Live(i), NEW c, NEW f,
         f \in Own(i) \cup {NoFile} \/ \E name : f = File(name),
         files' = [files EXCEPT ![f] = c]
  PROVE  /\ DOMAIN files' = FileNames
         /\ \A j \in Invocations \ {i} : Live(j) => \A g \in Own(j) : files'[g] = files[g]
<1>1. DOMAIN files = FileNames
  BY DEF Inv, Domains
<1>2. ASSUME NEW j \in Invocations \ {i}, Live(j), NEW g \in Own(j)
      PROVE  g # f /\ g \in FileNames
  <2>1. pid[i] # pid[j] /\ pid[j] \in Pids
    BY <1>2 DEF Inv, PidsDiffer, CallOK, TempsOK
  <2>2. g \in TempFiles /\ g \in FileNames
    BY <1>2, <2>1, TempsAreFiles DEF Own
  <2>3. g \notin Own(i)
    BY <1>2, <2>1, TempsHavePids DEF Own
  <2>4. \A name : g # File(name)
    BY <1>2, UsersNoTemps DEF Own
  <2>5. g # NoFile
    BY <2>1, <2>2, TempsAreFiles
  <2>6. QED
    BY <2>2, <2>3, <2>4, <2>5
<1>3. QED
  BY <1>1, <1>2

\* The next temporary name of a call.
LEMMA NextTemp ==
  ASSUME NEW i \in Invocations, pid[i] \in Pids, counter[i] \in 0..1, NEW prefix \in Prefixes
  PROVE  /\ UniqueTempPath(i, prefix) \in Own(i) \cap FileNames
         /\ UniqueTempPath(i, prefix) # NoFile
         /\ prefix = "TempLinker" => UniqueTempPath(i, prefix) \in Wrappers(pid[i])
         /\ prefix # "TempLinker" => UniqueTempPath(i, prefix) \in Scratches(pid[i])
BY TempsAreFiles DEF UniqueTempPath, Own, Scratches, Wrappers, Temp, NoFile

\* The temporary files that a call has are in the directory's range of names,
\* and are two.
LEMMA OwnTemps ==
  ASSUME Inv, NEW i \in Invocations, Live(i)
  PROVE  /\ pid[i] \in Pids
         /\ scratch[i] # NoFile => scratch[i] \in FileNames
         /\ wrapper[i] # NoFile => wrapper[i] \in FileNames
         /\ {scratch[i], wrapper[i]} \subseteq Own(i) \cup {NoFile}
         /\ scratch[i] # NoFile => scratch[i] # wrapper[i]
<1>1. TempsOK(i) /\ pid[i] \in Pids
  BY DEF Inv, CallOK, TempsOK
<1>2. QED
  BY <1>1, TempsAreFiles DEF TempsOK, Own

\* A turn of Detect().
LEMMA DetectKeeps ==
  ASSUME Inv, NEW i \in Invocations, Detect(i)
  PROVE  Inv'
<1> USE DEF Detect, Detection, Goto, options, temps, children, history
<1>1. Live(i)
  BY DEF Live, Ended
<1>2. Frame(i)
  BY DEF Inv, Domains, Frame
<1>3. CallOK(i)
  BY DEF Inv
<1>4. pid' = pid /\ Domains
  BY DEF Inv
<1>5. TempsOK(i)'
  BY <1>1, <1>3, <1>4 DEF Domains, CallOK, TempsOK, Live, Ended, Linking, Running
<1>6. CounterOK(i)'
  BY <1>1, <1>3, <1>4 DEF Domains, CallOK, CounterOK
<1>7. ControlOK(i)'
  BY <1>1, <1>3, <1>4 DEF Domains, CallOK, ControlOK, Linking, Running
<1>8. ReportsOK(i)'
  BY <1>1, <1>3, <1>4 DEF Domains, CallOK, ReportsOK, ControlOK, Linking, Running
<1>9. FilesOK(i)'
  BY <1>1, <1>3, <1>4 DEF Domains, CallOK, FilesOK, ControlOK, Object, Linking, Running
<1>10. QED
  BY <1>1, <1>2, <1>4, <1>5, <1>6, <1>7, <1>8, <1>9, Local DEF CallOK

\* The checks of the options.
LEMMA OptionsKeeps ==
  ASSUME Inv, NEW i \in Invocations, Options(i)
  PROVE  Inv'
<1> USE DEF Options, At, Goto, Report, Refuses, options, temps, children, history
<1>1. Live(i)
  BY DEF Live, Ended
<1>2. Frame(i)
  BY DEF Inv, Domains, Frame
<1>3. CallOK(i)
  BY DEF Inv
<1>4. pid' = pid /\ Domains
  BY DEF Inv
<1>5. TempsOK(i)'
  BY <1>1, <1>3, <1>4 DEF Domains, CallOK, TempsOK, Live, Ended, Linking, Running
<1>6. CounterOK(i)'
  BY <1>1, <1>3, <1>4 DEF Domains, CallOK, CounterOK
<1>7. ControlOK(i)'
  BY <1>1, <1>3, <1>4 DEF Domains, CallOK, ControlOK, Linking, Running
<1>8. ReportsOK(i)'
  BY <1>1, <1>3, <1>4 DEF Domains, CallOK, ReportsOK, ControlOK, Linking, Running
<1>9. FilesOK(i)'
  BY <1>1, <1>3, <1>4 DEF Domains, CallOK, FilesOK, ControlOK, Object, Linking, Running
<1>10. QED
  BY <1>1, <1>2, <1>4, <1>5, <1>6, <1>7, <1>8, <1>9, Local DEF CallOK

\* What parser and code generator come to.
LEMMA GenerateKeeps ==
  ASSUME Inv, NEW i \in Invocations, Generate(i)
  PROVE  Inv'
<1> USE DEF Generate, At, Goto, Report, Fails, Reread, options, temps, children, history
<1>1. Live(i)
  BY DEF Live, Ended
<1>2. Frame(i)
  BY DEF Inv, Domains, Frame
<1>3. CallOK(i)
  BY DEF Inv
<1>4. pid' = pid /\ Domains
  BY DEF Inv
<1>5. TempsOK(i)'
  BY <1>1, <1>3, <1>4 DEF Domains, CallOK, TempsOK, Live, Ended, Linking, Running, NextStep
<1>6. CounterOK(i)'
  <2>1. counter'[i] = 0
    BY <1>3 DEF CallOK, CounterOK
  <2>2. QED
    BY <2>1 DEF CounterOK
<1>7. ControlOK(i)'
  BY <1>1, <1>3, <1>4 DEF Domains, CallOK, ControlOK, Linking, Running, NextStep
<1>8. ReportsOK(i)'
  BY <1>1, <1>3, <1>4 DEF Domains, CallOK, ReportsOK, ControlOK, Linking, Running, NextStep
<1>9. FilesOK(i)'
  BY <1>1, <1>3, <1>4 DEF Domains, CallOK, FilesOK, ControlOK, Object, Linking, Running, NextStep
<1>10. QED
  BY <1>1, <1>2, <1>4, <1>5, <1>6, <1>7, <1>8, <1>9, Local DEF CallOK

\* runObject() names its executable.
LEMMA RunObjectKeeps ==
  ASSUME Inv, NEW i \in Invocations, RunObject(i)
  PROVE  Inv'
<1> USE DEF RunObject, At, Goto, UniqueTempPath, options, temps, children, history
<1>1. Live(i)
  BY DEF Live, Ended
<1>2. Frame(i)
  BY DEF Inv, Domains, Frame
<1>3. CallOK(i)
  BY DEF Inv
<1>4. pid' = pid /\ Domains
  BY DEF Inv
<1>5. TempsOK(i)'
  BY <1>1, <1>3, <1>4 DEF Domains, CallOK, TempsOK, Live, Ended, Linking, Running, CounterOK, Scratches, Wrappers, Prefixes, Temp, NoFile
<1>6. CounterOK(i)'
  BY <1>1, <1>3, <1>4 DEF Domains, CallOK, CounterOK
<1>7. ControlOK(i)'
  BY <1>1, <1>3, <1>4 DEF Domains, CallOK, ControlOK, Linking, Running
<1>8. ReportsOK(i)'
  BY <1>1, <1>3, <1>4 DEF Domains, CallOK, ReportsOK, ControlOK, Linking, Running
<1>9. FilesOK(i)'
  BY <1>1, <1>3, <1>4 DEF Domains, CallOK, FilesOK, ControlOK, Object, Linking, Running
<1>10. QED
  BY <1>1, <1>2, <1>4, <1>5, <1>6, <1>7, <1>8, <1>9, Local DEF CallOK

\* A program is started or not.
LEMMA ExecuteKeeps ==
  ASSUME Inv, NEW i \in Invocations, Execute(i)
  PROVE  Inv'
<1> USE DEF Execute, At, Goto, Spawn, options, temps, children, history
<1>1. Live(i)
  BY DEF Live, Ended
<1>2. Frame(i)
  BY DEF Inv, Domains, Frame
<1>3. CallOK(i)
  BY DEF Inv
<1>4. pid' = pid /\ Domains
  BY DEF Inv
<1>5. TempsOK(i)'
  BY <1>1, <1>3, <1>4 DEF Domains, CallOK, TempsOK, Live, Ended, Linking, Running
<1>6. CounterOK(i)'
  BY <1>1, <1>3, <1>4 DEF Domains, CallOK, CounterOK
<1>7. ControlOK(i)'
  BY <1>1, <1>3, <1>4 DEF Domains, CallOK, ControlOK, Linking, Running
<1>8. ReportsOK(i)'
  BY <1>1, <1>3, <1>4 DEF Domains, CallOK, ReportsOK, ControlOK, Linking, Running
<1>9. FilesOK(i)'
  BY <1>1, <1>3, <1>4 DEF Domains, CallOK, FilesOK, ControlOK, Object, Linking, Running
<1>10. QED
  BY <1>1, <1>2, <1>4, <1>5, <1>6, <1>7, <1>8, <1>9, Local DEF CallOK

\* The program ends.
LEMMA ProgramEndsKeeps ==
  ASSUME Inv, NEW i \in Invocations, ProgramEnds(i)
  PROVE  Inv'
<1> USE DEF ProgramEnds, At, Goto, Wait, options, temps, children, history
<1>1. Live(i)
  BY DEF Live, Ended
<1>2. Frame(i)
  BY DEF Inv, Domains, Frame
<1>3. CallOK(i)
  BY DEF Inv
<1>4. pid' = pid /\ Domains
  BY DEF Inv
<1>5. TempsOK(i)'
  BY <1>1, <1>3, <1>4 DEF Domains, CallOK, TempsOK, Live, Ended, Linking, Running
<1>6. CounterOK(i)'
  BY <1>1, <1>3, <1>4 DEF Domains, CallOK, CounterOK
<1>7. ControlOK(i)'
  BY <1>1, <1>3, <1>4 DEF Domains, CallOK, ControlOK, Linking, Running
<1>8. ReportsOK(i)'
  BY <1>1, <1>3, <1>4 DEF Domains, CallOK, ReportsOK, ControlOK, Linking, Running
<1>9. FilesOK(i)'
  BY <1>1, <1>3, <1>4 DEF Domains, CallOK, FilesOK, ControlOK, Object, Linking, Running
<1>10. QED
  BY <1>1, <1>2, <1>4, <1>5, <1>6, <1>7, <1>8, <1>9, Local DEF CallOK

\* A call is interrupted.
LEMMA InterruptKeeps ==
  ASSUME Inv, NEW i \in Invocations, Interrupt(i)
  PROVE  Inv'
<1> USE DEF Interrupt, At, Goto, options, temps, children, history
<1>1. Live(i)
  BY DEF Live, Ended
<1>2. Frame(i)
  BY DEF Inv, Domains, Frame
<1>3. CallOK(i)
  BY DEF Inv
<1>4. pid' = pid /\ Domains
  BY DEF Inv
<1>5. TempsOK(i)'
  BY <1>1, <1>3, <1>4 DEF Domains, CallOK, TempsOK, Live, Ended, Linking, Running
<1>6. CounterOK(i)'
  BY <1>1, <1>3, <1>4 DEF Domains, CallOK, CounterOK
<1>7. ControlOK(i)'
  BY <1>1, <1>3, <1>4 DEF Domains, CallOK, ControlOK, Linking, Running
<1>8. ReportsOK(i)'
  BY <1>1, <1>3, <1>4 DEF Domains, CallOK, ReportsOK, ControlOK, Linking, Running
<1>9. FilesOK(i)'
  BY <1>1, <1>3, <1>4 DEF Domains, CallOK, FilesOK, ControlOK, Object, Linking, Running
<1>10. QED
  BY <1>1, <1>2, <1>4, <1>5, <1>6, <1>7, <1>8, <1>9, Local DEF CallOK

\* compile() to the output.
LEMMA CompileKeeps ==
  ASSUME Inv, NEW i \in Invocations, Compile(i)
  PROVE  Inv'
<1> USE DEF Compile, At, Goto, Report, Emits, EmitsNot, Write, options, temps, children, history
<1>1. Live(i)
  BY DEF Live, Ended
<1>2. Frame(i)
  <2> DEFINE out == File(CompileOut(argv[i]))
  <2>1. out \in Own(i) \cup {NoFile} \/ \E name : out = File(name)
    OBVIOUS
  <2>2. files' = files \/ \E c : files' = [files EXCEPT ![out] = c]
    BY DEF Object
  <2>3. /\ DOMAIN files' = FileNames
        /\ \A j \in Invocations \ {i} : Live(j) => \A g \in Own(j) : files'[g] = files[g]
    <3>1. CASE files' = files
      BY <3>1 DEF Inv, Domains
    <3> HIDE DEF out
    <3>2. CASE \E c : files' = [files EXCEPT ![out] = c]
      BY <1>1, <2>1, <3>2, WriteApart
    <3>3. QED
      BY <2>2, <3>1, <3>2
  <2>4. QED
    BY <2>3 DEF Inv, Domains, Frame
<1>3. CallOK(i)
  BY DEF Inv
<1>4. pid' = pid /\ Domains
  BY DEF Inv
<1>5. TempsOK(i)'
  BY <1>1, <1>3, <1>4 DEF Domains, CallOK, TempsOK, Live, Ended, Linking, Running
<1>6. CounterOK(i)'
  BY <1>1, <1>3, <1>4 DEF Domains, CallOK, CounterOK
<1>7. ControlOK(i)'
  BY <1>1, <1>3, <1>4 DEF Domains, CallOK, ControlOK, Linking, Running
<1>8. ReportsOK(i)'
  BY <1>1, <1>3, <1>4 DEF Domains, CallOK, ReportsOK, ControlOK, Linking, Running
<1>9. FilesOK(i)'
  BY <1>1, <1>3, <1>4 DEF Domains, CallOK, FilesOK, ControlOK, Object, Linking, Running
<1>10. QED
  BY <1>1, <1>2, <1>4, <1>5, <1>6, <1>7, <1>8, <1>9, Local DEF CallOK

\* The IR is saved.
LEMMA PrintKeeps ==
  ASSUME Inv, NEW i \in Invocations, PrintIR(i)
  PROVE  Inv'
<1> USE DEF PrintIR, At, Goto, Write, options, temps, children, history
<1>1. Live(i)
  BY DEF Live, Ended
<1>2. Frame(i)
  <2> DEFINE out == File(PrintOut(argv[i]))
  <2>1. out \in Own(i) \cup {NoFile} \/ \E name : out = File(name)
    OBVIOUS
  <2>2. files' = files \/ \E c : files' = [files EXCEPT ![out] = c]
    OBVIOUS
  <2>3. /\ DOMAIN files' = FileNames
        /\ \A j \in Invocations \ {i} : Live(j) => \A g \in Own(j) : files'[g] = files[g]
    <3>1. CASE files' = files
      BY <3>1 DEF Inv, Domains
    <3> HIDE DEF out
    <3>2. CASE \E c : files' = [files EXCEPT ![out] = c]
      BY <1>1, <2>1, <3>2, WriteApart
    <3>3. QED
      BY <2>2, <3>1, <3>2
  <2>4. QED
    BY <2>3 DEF Inv, Domains, Frame
<1>3. CallOK(i)
  BY DEF Inv
<1>4. pid' = pid /\ Domains
  BY DEF Inv
<1>5. TempsOK(i)'
  BY <1>1, <1>3, <1>4 DEF Domains, CallOK, TempsOK, Live, Ended, Linking, Running
<1>6. CounterOK(i)'
  BY <1>1, <1>3, <1>4 DEF Domains, CallOK, CounterOK
<1>7. ControlOK(i)'
  BY <1>1, <1>3, <1>4 DEF Domains, CallOK, ControlOK, Linking, Running
<1>8. ReportsOK(i)'
  BY <1>1, <1>3, <1>4 DEF Domains, CallOK, ReportsOK, ControlOK, Linking, Running
<1>9. FilesOK(i)'
  BY <1>1, <1>3, <1>4 DEF Domains, CallOK, FilesOK, ControlOK, Object, Linking, Running
<1>10. QED
  BY <1>1, <1>2, <1>4, <1>5, <1>6, <1>7, <1>8, <1>9, Local DEF CallOK

\* The temporary file is removed.
LEMMA CleanupKeeps ==
  ASSUME Inv, NEW i \in Invocations, Cleanup(i)
  PROVE  Inv'
<1> USE DEF Cleanup, At, Goto, Report, Remove, options, temps, children, history
<1>1. Live(i)
  BY DEF Live, Ended
<1>2. Frame(i)
  <2> DEFINE temp == scratch[i]
  <2>1. temp \in Own(i) \cup {NoFile} \/ \E name : temp = File(name)
    BY <1>1, OwnTemps
  <2>2. files' = files \/ \E c : files' = [files EXCEPT ![temp] = c]
    OBVIOUS
  <2>3. /\ DOMAIN files' = FileNames
        /\ \A j \in Invocations \ {i} : Live(j) => \A g \in Own(j) : files'[g] = files[g]
    <3>1. CASE files' = files
      BY <3>1 DEF Inv, Domains
    <3> HIDE DEF temp
    <3>2. CASE \E c : files' = [files EXCEPT ![temp] = c]
      BY <1>1, <2>1, <3>2, WriteApart
    <3>3. QED
      BY <2>2, <3>1, <3>2
  <2>4. QED
    BY <2>3 DEF Inv, Domains, Frame
<1>3. CallOK(i)
  BY DEF Inv
<1>4. pid' = pid /\ Domains
  BY DEF Inv
<1>5. TempsOK(i)'
  BY <1>1, <1>3, <1>4 DEF Domains, CallOK, TempsOK, Live, Ended, Linking, Running
<1>6. CounterOK(i)'
  BY <1>1, <1>3, <1>4 DEF Domains, CallOK, CounterOK
<1>7. ControlOK(i)'
  BY <1>1, <1>3, <1>4 DEF Domains, CallOK, ControlOK, Linking, Running
<1>8. ReportsOK(i)'
  BY <1>1, <1>3, <1>4 DEF Domains, CallOK, ReportsOK, ControlOK, Linking, Running
<1>9. FilesOK(i)'
  BY <1>1, <1>3, <1>4 DEF Domains, CallOK, FilesOK, ControlOK, Object, Linking, Running
<1>10. QED
  BY <1>1, <1>2, <1>4, <1>5, <1>6, <1>7, <1>8, <1>9, Local DEF CallOK

\* linkSource() compiles to its temporary object file.
LEMMA LinkSourceKeeps ==
  ASSUME Inv, NEW i \in Invocations, LinkSource(i)
  PROVE  Inv'
<1> USE DEF LinkSource, At, Goto, Report, Emits, EmitsNot, Write, options, temps, children, history
<1>1. Live(i)
  BY DEF Live, Ended
<1> DEFINE temp == UniqueTempPath(i, "temp")
<1>0. /\ temp \in Own(i) \cap FileNames /\ temp # NoFile /\ temp \in Scratches(pid[i])
      /\ counter[i] \in 0..1
  <2>1. pid[i] \in Pids /\ counter[i] \in 0..1
    BY <1>1, OwnTemps DEF Inv, CallOK, CounterOK
  <2>2. QED
    BY <2>1, NextTemp DEF Prefixes
<1> HIDE DEF temp
<1>2. Frame(i)
  <2>1. temp \in Own(i) \cup {NoFile} \/ \E name : temp = File(name)
    BY <1>0
  <2>2. files' = files \/ \E c : files' = [files EXCEPT ![temp] = c]
    BY DEF temp, Object
  <2>3. /\ DOMAIN files' = FileNames
        /\ \A j \in Invocations \ {i} : Live(j) => \A g \in Own(j) : files'[g] = files[g]
    <3>1. CASE files' = files
      BY <3>1 DEF Inv, Domains
    <3>2. CASE \E c : files' = [files EXCEPT ![temp] = c]
      BY <1>1, <2>1, <3>2, WriteApart
    <3>3. QED
      BY <2>2, <3>1, <3>2
  <2>4. QED
    BY <2>3 DEF Inv, Domains, Frame
<1>3. CallOK(i)
  BY DEF Inv
<1>4. pid' = pid /\ Domains
  BY DEF Inv
<1>5. TempsOK(i)'
  BY <1>0, <1>1, <1>3, <1>4 DEF temp, Domains, CallOK, TempsOK, Live, Ended, Linking, Running
<1>6. CounterOK(i)'
  BY <1>1, <1>3, <1>4 DEF Domains, CallOK, CounterOK
<1>7. ControlOK(i)'
  BY <1>1, <1>3, <1>4 DEF Domains, CallOK, ControlOK, Linking, Running
<1>8. ReportsOK(i)'
  BY <1>1, <1>3, <1>4 DEF Domains, CallOK, ReportsOK, ControlOK, Linking, Running
<1>9. FilesOK(i)'
  BY <1>0, <1>1, <1>3, <1>4 DEF temp, Domains, CallOK, FilesOK, ControlOK, Object, Linking, Running
<1>10. QED
  BY <1>1, <1>2, <1>4, <1>5, <1>6, <1>7, <1>8, <1>9, Local DEF CallOK

\* runSource() writes its temporary file.
LEMMA RunSourceKeeps ==
  ASSUME Inv, NEW i \in Invocations, RunSource(i)
  PROVE  Inv'
<1> USE DEF RunSource, At, Goto, Report, Write, options, temps, children, history
<1>1. Live(i)
  BY DEF Live, Ended
<1> DEFINE temp == UniqueTempPath(i, "out")
<1>0. /\ temp \in Own(i) \cap FileNames /\ temp # NoFile /\ temp \in Scratches(pid[i])
      /\ counter[i] \in 0..1
  <2>1. pid[i] \in Pids /\ counter[i] \in 0..1
    BY <1>1, OwnTemps DEF Inv, CallOK, CounterOK
  <2>2. QED
    BY <2>1, NextTemp DEF Prefixes
<1> HIDE DEF temp
<1>2. Frame(i)
  <2>1. temp \in Own(i) \cup {NoFile} \/ \E name : temp = File(name)
    BY <1>0
  <2>2. files' = files \/ \E c : files' = [files EXCEPT ![temp] = c]
    BY DEF temp, Object
  <2>3. /\ DOMAIN files' = FileNames
        /\ \A j \in Invocations \ {i} : Live(j) => \A g \in Own(j) : files'[g] = files[g]
    <3>1. CASE files' = files
      BY <3>1 DEF Inv, Domains
    <3>2. CASE \E c : files' = [files EXCEPT ![temp] = c]
      BY <1>1, <2>1, <3>2, WriteApart
    <3>3. QED
      BY <2>2, <3>1, <3>2
  <2>4. QED
    BY <2>3 DEF Inv, Domains, Frame
<1>3. CallOK(i)
  BY DEF Inv
<1>4. pid' = pid /\ Domains
  BY DEF Inv
<1>5. TempsOK(i)'
  BY <1>0, <1>1, <1>3, <1>4 DEF temp, Domains, CallOK, TempsOK, Live, Ended, Linking, Running
<1>6. CounterOK(i)'
  BY <1>1, <1>3, <1>4 DEF Domains, CallOK, CounterOK
<1>7. ControlOK(i)'
  BY <1>1, <1>3, <1>4 DEF Domains, CallOK, ControlOK, Linking, Running
<1>8. ReportsOK(i)'
  BY <1>1, <1>3, <1>4 DEF Domains, CallOK, ReportsOK, ControlOK, Linking, Running
<1>9. FilesOK(i)'
  BY <1>0, <1>1, <1>3, <1>4 DEF temp, Domains, CallOK, FilesOK, ControlOK, Object, Linking, Running
<1>10. QED
  BY <1>1, <1>2, <1>4, <1>5, <1>6, <1>7, <1>8, <1>9, Local DEF CallOK

\* Link() writes the wrapper and starts the linker.
LEMMA LinkKeeps ==
  ASSUME Inv, NEW i \in Invocations, Link(i)
  PROVE  Inv'
<1> USE DEF Link, At, Goto, Spawn, Write, options, temps, children, history
<1>1. Live(i)
  BY DEF Live, Ended
<1> DEFINE temp == UniqueTempPath(i, "TempLinker")
<1>0. /\ temp \in Own(i) \cap FileNames /\ temp # NoFile /\ temp \in Wrappers(pid[i])
      /\ counter[i] \in 0..1
  <2>1. pid[i] \in Pids /\ counter[i] \in 0..1
    BY <1>1, OwnTemps DEF Inv, CallOK, CounterOK
  <2>2. QED
    BY <2>1, NextTemp DEF Prefixes
<1> HIDE DEF temp
<1>2. Frame(i)
  <2>1. temp \in Own(i) \cup {NoFile} \/ \E name : temp = File(name)
    BY <1>0
  <2>2. files' = files \/ \E c : files' = [files EXCEPT ![temp] = c]
    BY DEF temp, Object
  <2>3. /\ DOMAIN files' = FileNames
        /\ \A j \in Invocations \ {i} : Live(j) => \A g \in Own(j) : files'[g] = files[g]
    <3>1. CASE files' = files
      BY <3>1 DEF Inv, Domains
    <3>2. CASE \E c : files' = [files EXCEPT ![temp] = c]
      BY <1>1, <2>1, <3>2, WriteApart
    <3>3. QED
      BY <2>2, <3>1, <3>2
  <2>4. QED
    BY <2>3 DEF Inv, Domains, Frame
<1>3. CallOK(i)
  BY DEF Inv
<1>4. pid' = pid /\ Domains
  BY DEF Inv
<1>K. scratch[i] # NoFile => files'[scratch[i]] = files[scratch[i]]
  <2>1. scratch[i] # NoFile => scratch[i] # temp /\ scratch[i] \in FileNames
    BY <1>0, <1>1, <1>3, OwnTemps, TempsAreFiles DEF CallOK, TempsOK
  <2>2. files' = files \/ \E c : files' = [files EXCEPT ![temp] = c]
    BY DEF temp
  <2>3. QED
    BY <1>4, <2>1, <2>2 DEF Domains
<1>5. TempsOK(i)'
  BY <1>0, <1>1, <1>3, <1>4 DEF temp, Domains, CallOK, TempsOK, Live, Ended, Linking, Running
<1>6. CounterOK(i)'
  BY <1>1, <1>3, <1>4 DEF Domains, CallOK, CounterOK
<1>7. ControlOK(i)'
  BY <1>1, <1>3, <1>4 DEF Domains, CallOK, ControlOK, Linking, Running
<1>8. ReportsOK(i)'
  BY <1>1, <1>3, <1>4 DEF Domains, CallOK, ReportsOK, ControlOK, Linking, Running
<1>9. FilesOK(i)'
  <2>1. /\ at[i] = "linkObject"
        /\ at'[i] = "linking" \/ (at'[i] = "linked" /\ result'[i] # 0)
        /\ UNCHANGED <<isSource, program, scratch>>
    BY <1>4 DEF Domains
  <2>2. FilesOK(i) /\ TempsOK(i)
    BY <1>3 DEF CallOK
  <2>3. isSource[i] => files'[scratch[i]] = Object(i)
    BY <1>K, <2>1, <2>2 DEF FilesOK, TempsOK, Linking
  <2>4. Object(i)' = Object(i)
    BY <2>1 DEF Object
  <2>5. QED
    BY <2>1, <2>3, <2>4 DEF FilesOK, Running
<1>10. QED
  BY <1>1, <1>2, <1>4, <1>5, <1>6, <1>7, <1>8, <1>9, Local DEF CallOK

\* The linker ends.
LEMMA LinkerEndsKeeps ==
  ASSUME Inv, NEW i \in Invocations, LinkerEnds(i)
  PROVE  Inv'
<1> USE DEF LinkerEnds, At, Goto, Wait, Write, Remove, OutPath, options, temps, children, history
<1>1. Live(i)
  BY DEF Live, Ended
<1>K. /\ wrapper[i] # NoFile => scratch[i] # wrapper[i]
      /\ scratch[i] # NoFile => scratch[i] \in FileNames
  BY <1>1, OwnTemps
<1>2. Frame(i)
  <2> DEFINE out == OutPath(i)
  <2>1. out \in Own(i) \cup {NoFile} \/ \E name : out = File(name)
    BY <1>1, OwnTemps DEF OutPath
  <2>2. files' = files \/ \E c : files' = [files EXCEPT ![out] = c]
    BY DEF OutPath
  <2>3. /\ DOMAIN files' = FileNames
        /\ \A j \in Invocations \ {i} : Live(j) => \A g \in Own(j) : files'[g] = files[g]
    <3>1. CASE files' = files
      BY <3>1 DEF Inv, Domains
    <3> HIDE DEF out
    <3>2. CASE \E c : files' = [files EXCEPT ![out] = c]
      BY <1>1, <2>1, <3>2, WriteApart
    <3>3. QED
      BY <2>2, <3>1, <3>2
  <2>4. QED
    BY <2>3 DEF Inv, Domains, Frame
<1>3. CallOK(i)
  BY DEF Inv
<1>4. pid' = pid /\ Domains
  BY DEF Inv
<1>5. TempsOK(i)'
  BY <1>1, <1>3, <1>4 DEF Domains, CallOK, TempsOK, Live, Ended, Linking, Running
<1>6. CounterOK(i)'
  BY <1>1, <1>3, <1>4 DEF Domains, CallOK, CounterOK
<1>7. ControlOK(i)'
  BY <1>1, <1>3, <1>4 DEF Domains, CallOK, ControlOK, Linking, Running
<1>8. ReportsOK(i)'
  BY <1>1, <1>3, <1>4 DEF Domains, CallOK, ReportsOK, ControlOK, Linking, Running
<1>9. FilesOK(i)'
  BY <1>K, <1>1, <1>3, <1>4 DEF Domains, CallOK, TempsOK, FilesOK, ControlOK, Object, Linking, Running, InPath, Content
<1>10. QED
  BY <1>1, <1>2, <1>4, <1>5, <1>6, <1>7, <1>8, <1>9, Local DEF CallOK

\* The rest of Link().
LEMMA LinkedKeeps ==
  ASSUME Inv, NEW i \in Invocations, Linked(i)
  PROVE  Inv'
<1> USE DEF Linked, At, Goto, Report, Remove, options, temps, children, history
<1>1. Live(i)
  BY DEF Live, Ended
<1>K. /\ wrapper[i] # NoFile => scratch[i] # wrapper[i]
      /\ scratch[i] # NoFile => scratch[i] \in FileNames
  BY <1>1, OwnTemps
<1>2. Frame(i)
  <2> DEFINE temp == wrapper[i]
  <2>1. temp \in Own(i) \cup {NoFile} \/ \E name : temp = File(name)
    BY <1>1, OwnTemps
  <2>2. files' = files \/ \E c : files' = [files EXCEPT ![temp] = c]
    OBVIOUS
  <2>3. /\ DOMAIN files' = FileNames
        /\ \A j \in Invocations \ {i} : Live(j) => \A g \in Own(j) : files'[g] = files[g]
    <3>1. CASE files' = files
      BY <3>1 DEF Inv, Domains
    <3> HIDE DEF temp
    <3>2. CASE \E c : files' = [files EXCEPT ![temp] = c]
      BY <1>1, <2>1, <3>2, WriteApart
    <3>3. QED
      BY <2>2, <3>1, <3>2
  <2>4. QED
    BY <2>3 DEF Inv, Domains, Frame
<1>3. CallOK(i)
  BY DEF Inv
<1>4. pid' = pid /\ Domains
  BY DEF Inv
<1>5. TempsOK(i)'
  BY <1>1, <1>3, <1>4 DEF Domains, CallOK, TempsOK, Live, Ended, Linking, Running
<1>6. CounterOK(i)'
  BY <1>1, <1>3, <1>4 DEF Domains, CallOK, CounterOK
<1>7. ControlOK(i)'
  BY <1>1, <1>3, <1>4 DEF Domains, CallOK, ControlOK, Linking, Running
<1>8. ReportsOK(i)'
  BY <1>1, <1>3, <1>4 DEF Domains, CallOK, ReportsOK, ControlOK, Linking, Running
<1>9. FilesOK(i)'
  BY <1>K, <1>1, <1>3, <1>4 DEF Domains, CallOK, TempsOK, FilesOK, ControlOK, Object, Linking, Running
<1>10. QED
  BY <1>1, <1>2, <1>4, <1>5, <1>6, <1>7, <1>8, <1>9, Local DEF CallOK

\* A call starts with a process id that no live call has.
LEMMA StartKeeps ==
  ASSUME Inv, NEW i \in Invocations, Start(i)
  PROVE  Inv'
<1>1. Domains /\ CallOK(i)
  BY DEF Inv
<1>2. PICK p \in Pids \ {pid[j] : j \in {k \in Invocations : Live(k)}} :
        pid' = [pid EXCEPT ![i] = p]
  BY DEF Start
<1>3. /\ at[i] = "new"
      /\ UNCHANGED <<files, counter, scratch, wrapper, child, result, linkFailed, failed, made>>
      /\ DOMAIN argv' = Invocations /\ DOMAIN isSource' = Invocations
      /\ DOMAIN program' = Invocations /\ DOMAIN reported' = Invocations
      /\ DOMAIN at' = Invocations
      /\ \A j \in Invocations \ {i} :
           /\ argv'[j] = argv[j] /\ isSource'[j] = isSource[j] /\ program'[j] = program[j]
           /\ reported'[j] = reported[j] /\ at'[j] = at[j]
      /\ at'[i] \in {"refused", "detectLinker", "options"}
  BY <1>1 DEF Start, temps, children, At, Goto, Domains
<1>4. Domains'
  BY <1>1, <1>2, <1>3 DEF Domains
<1>5. CallOK(i)'
  <2>1. pid'[i] \in Pids
    BY <1>1, <1>2 DEF Domains
  <2>2. counter'[i] = 0 /\ scratch'[i] = NoFile /\ wrapper'[i] = NoFile /\ child'[i] = NULL
    BY <1>1, <1>3 DEF CallOK, TempsOK, CounterOK, ControlOK
  <2>3. TempsOK(i)' /\ CounterOK(i)'
    BY <1>3, <2>1, <2>2 DEF TempsOK, CounterOK, Running, Linking
  <2>4. ControlOK(i)' /\ ReportsOK(i)'
    BY <1>3, <2>2 DEF ControlOK, ReportsOK, Running, Linking
  <2>5. FilesOK(i)'
    BY <1>3 DEF FilesOK, Running, Linking
  <2>6. QED
    BY <2>3, <2>4, <2>5 DEF CallOK
<1>6. Frame(i)
  <2>1. \A j \in Invocations \ {i} : pid'[j] = pid[j]
    BY <1>1, <1>2 DEF Domains
  <2>2. QED
    BY <1>3, <1>4, <2>1 DEF Frame
<1>7. PidsDiffer'
  <2>1. \A j \in Invocations \ {i} : at'[j] = at[j] /\ pid'[j] = pid[j] /\ Live(j)' = Live(j)
    BY <1>6 DEF Frame, Live
  <2>2. ASSUME NEW j \in Invocations \ {i}, Live(j)'
        PROVE  pid'[i] # pid'[j]
    <3>1. Live(j) /\ pid'[j] = pid[j] /\ pid'[i] = p
      BY <1>1, <1>2, <2>1, <2>2 DEF Domains
    <3>2. pid[j] \in {pid[k] : k \in {l \in Invocations : Live(l)}}
      BY <3>1
    <3>3. QED
      BY <1>2, <3>1, <3>2
  <2>3. ASSUME NEW j \in Invocations \ {i}, NEW k \in Invocations \ {i}, j # k, Live(j)', Live(k)'
        PROVE  pid'[j] # pid'[k]
    BY <2>1, <2>3 DEF Inv, PidsDiffer
  <2>4. QED
    BY <2>2, <2>3 DEF PidsDiffer
<1>8. \A j \in Invocations : CallOK(j)'
  BY <1>5, <1>6, OthersUndisturbed
<1>9. QED
  BY <1>4, <1>7, <1>8 DEF Inv
-----------------------------------------------------------------------------
(* The invariant holds                                                     *)

LEMMA InitOK == ASSUME Init PROVE Inv
<1>1. Domains
  BY DEF Init, Domains
<1>2. ASSUME NEW i \in Invocations PROVE CallOK(i)
  BY <1>2 DEF Init, CallOK, TempsOK, CounterOK, ControlOK, ReportsOK, FilesOK, Live, Ended,
              Linking, Running
<1>3. PidsDiffer
  BY DEF Init, PidsDiffer, Live
<1>4. QED
  BY <1>1, <1>2, <1>3 DEF Inv

LEMMA NextKeeps == ASSUME Inv, [Next]_vars PROVE Inv'
<1>1. ASSUME NEW i \in Invocations, Step(i) PROVE Inv'
  BY <1>1, DetectKeeps, OptionsKeeps, GenerateKeeps, CompileKeeps, LinkSourceKeeps,
     RunObjectKeeps, LinkKeeps, LinkerEndsKeeps, LinkedKeeps, RunSourceKeeps, ExecuteKeeps,
     ProgramEndsKeeps, CleanupKeeps, PrintKeeps DEF Step
<1>2. ASSUME NEW i \in Invocations, Start(i) \/ Interrupt(i) PROVE Inv'
  BY <1>2, StartKeeps, InterruptKeeps
<1>3. ASSUME UNCHANGED vars PROVE Inv'
  <2>1. \A i \in Invocations : CallOK(i)'
    BY <1>3 DEF Inv, CallOK, TempsOK, CounterOK, ControlOK, ReportsOK, FilesOK, Object, Live, vars,
                options, temps, children, history
  <2>2. Domains' /\ PidsDiffer'
    BY <1>3 DEF Inv, Domains, PidsDiffer, Live, vars, options, temps, children, history
  <2>3. QED
    BY <2>1, <2>2 DEF Inv
<1>4. QED
  BY <1>1, <1>2, <1>3 DEF Next, Over

\* What is true of every call and between each two of them, at every step.
THEOREM CallsInvariance == Spec => []Inv
<1>1. Init => Inv
  BY InitOK
<1>2. Inv /\ [Next]_vars => Inv'
  BY NextKeeps
<1>3. QED
  BY <1>1, <1>2, PTL DEF Spec
-----------------------------------------------------------------------------
(* The properties                                                          *)

\* Live calls never share a temporary file, whatever process ids are reused.
THEOREM TempFilesDiffer == Spec => []TempsDiffer
<1>1. ASSUME Inv, NEW i \in Invocations, NEW j \in Invocations, i # j, Live(i), Live(j)
      PROVE  {scratch[i], wrapper[i]} \cap {scratch[j], wrapper[j]} \subseteq {NoFile}
  <2>1. pid[i] # pid[j]
    BY <1>1 DEF Inv, PidsDiffer
  <2>2. TempsOK(i) /\ TempsOK(j)
    BY <1>1 DEF Inv, CallOK
  <2>3. QED
    BY <2>1, <2>2, TempsHavePids DEF TempsOK
<1>2. Inv => TempsDiffer
  BY <1>1 DEF TempsDiffer
<1>3. QED
  BY <1>2, CallsInvariance, PTL

\* A call that ends in silence has written the file it was asked for.
THEOREM SilenceIsSuccess == Spec => []SilentMeansMade
<1>1. Inv => SilentMeansMade
  BY DEF Inv, CallOK, ReportsOK, SilentMeansMade, At
<1>2. QED
  BY <1>1, CallsInvariance, PTL
-----------------------------------------------------------------------------
(* The inductive invariant of the directory                                *)

Contents == {Nothing} \cup [kind : Kinds, of : UserFiles \cup {NoFile},
                            by : Invocations \cup {NULL}]

Typed ==
    /\ files \in [FileNames -> Contents]
    /\ at \in [Invocations -> Points]
    /\ interrupts \in 0..MaxInterrupts

\* The points before a call makes a temporary file of its own.
Early == {"new", "detectLinker", "options", "parse", "compile", "linkSource", "runSource",
          "detectRunner", "runObject"}

\* The values of a call's variables, and what its command line is known to be.
CallTyped(i) ==
    /\ counter[i] \in 0..2
    /\ program[i] \in Contents
    /\ result[i] \in {0, 1, -1}
    /\ at[i] = "new" => argv[i] = <<>> /\ pid[i] = NULL /\ ~reported[i]
    /\ at[i] # "new" => argv[i] \in CommandLines /\ pid[i] \in Pids
    /\ Live(i) => ~Informs(argv[i]) /\ File(Input(argv[i])) \in UserFiles
    /\ Live(i) /\ at[i] \notin {"detectLinker", "options"} => ~Refuses(argv[i])
    /\ at[i] = "compile" => Compiles(argv[i])

\* The files that a command line gives to outputs.
Outputs(args, f) ==
    \/ Compiles(args) /\ File(CompileOut(args)) = f
    \/ Prints(args) /\ PrintOut(args) # "" /\ File(PrintOut(args)) = f
    \/ Links(args) /\ ~Refuses(args) /\ File(LinkOut(args)) = f

\* What a call has written of the user's files is an output of it, and of the
\* temporary files one that has its process id.
OutputsOnly(i) ==
    \A f \in UserFiles : files[f].by = i => at[i] # "new" /\ Outputs(argv[i], f)
OwnOnly(i) == Leftovers(i) \subseteq Own(i)

\* Up to the parser a call has written nothing, and after a failure nothing
\* but the IR.
Unwritten == {"new", "detectLinker", "options", "parse"}

Clean(i) ==
    /\ at[i] \in Unwritten => \A f \in FileNames : files[f].by # i
    /\ failed[i] =>
         /\ at[i] \in {"print", "done", "interrupted"}
         /\ \A f \in FileNames : files[f].by = i =>
              Prints(argv[i]) /\ PrintOut(argv[i]) # "" /\ f = File(PrintOut(argv[i]))

\* The temporary files that a call has not removed yet.
Kept(i) ==
    CASE at[i] \in {"linking", "linked"} -> {scratch[i], wrapper[i]}
      [] at[i] \in {"linkObject", "cleanup"} \cup Running -> {scratch[i]}
      [] OTHER -> {}

Tidy(i) ==
    /\ at[i] # "interrupted" /\ ~reported[i] => Leftovers(i) \subseteq Kept(i)
    /\ at[i] \in Early => scratch[i] = NoFile
    /\ at[i] \in Linking /\ ~isSource[i] /\ Links(argv[i]) => scratch[i] = NoFile

FilesInv ==
    Typed /\ \A i \in Invocations :
                CallTyped(i) /\ OutputsOnly(i) /\ OwnOnly(i) /\ Tidy(i) /\ Clean(i)
-----------------------------------------------------------------------------
(* What a step of one call does to the directory                           *)

\* The call i removes a file or writes one: its own temporary one, or an output.
Touches(i, f, c) ==
    /\ files' = [files EXCEPT ![f] = c]
    /\ \/ c = Nothing
       \/ /\ c \in Contents /\ c.by = i
          /\ f \in TempFiles => f \in Own(i)
          /\ f \in UserFiles => Outputs(argv[i], f)

Effect(i) == files' = files \/ \E f, c : Touches(i, f, c)

\* Nothing was written by nobody, and the user's files are no temporary ones.
LEMMA Names ==
    /\ Nothing \in Contents
    /\ \A i \in Invocations : Nothing.by # i
    /\ \A name : File(name) \notin TempFiles \cup {NoFile}
    /\ \A f \in UserFiles : f \notin TempFiles
<1>1. Nothing \in Contents
  BY DEF Contents
<1>2. \A i \in Invocations : Nothing.by # i
  BY InvocationsAssumption DEF Nothing, Content
<1>3. \A name : File(name) \notin TempFiles \cup {NoFile}
  BY DEF File, TempFiles, Temp, NoFile
<1>4. \A f \in UserFiles : f \notin TempFiles
  BY <1>3 DEF UserFiles, Sources, Objects
<1> QED BY <1>1, <1>2, <1>3, <1>4

LEMMA EffectTyped ==
    ASSUME Typed, NEW i \in Invocations, Effect(i)
    PROVE  files' \in [FileNames -> Contents]
<1>1. files \in [FileNames -> Contents]
  BY DEF Typed
<1> QED BY <1>1, Names DEF Effect, Touches

\* A step of i adds to the files of i alone, of the user's outputs only, and
\* of the temporary ones its own.
LEMMA EffectOnOwners ==
    ASSUME Typed, NEW i \in Invocations, Effect(i), NEW j \in Invocations,
           NEW g \in FileNames, files'[g].by = j
    PROVE  \/ files[g].by = j
           \/ /\ j = i
              /\ g \in TempFiles => g \in Own(i)
              /\ g \in UserFiles => Outputs(argv[i], g)
<1>1. files \in [FileNames -> Contents]
  BY DEF Typed
<1>2. CASE files' = files
  BY <1>2
<1>3. ASSUME NEW f, NEW c, Touches(i, f, c), f = g
      PROVE  /\ j = i
             /\ g \in TempFiles => g \in Own(i)
             /\ g \in UserFiles => Outputs(argv[i], g)
  <2>1. files'[g] = c
    BY <1>1, <1>3 DEF Touches
  <2>2. c # Nothing
    BY <2>1, Names
  <2> QED BY <1>3, <2>1, <2>2 DEF Touches
<1>4. ASSUME NEW f, NEW c, Touches(i, f, c), f # g
      PROVE  files[g].by = j
  BY <1>1, <1>4 DEF Touches
<1> QED BY <1>2, <1>3, <1>4 DEF Effect

\* What that means for the temporary files of i.
LEMMA EffectOnLeftovers ==
    ASSUME Typed, NEW i \in Invocations
    PROVE  /\ files' = files => Leftovers(i)' = Leftovers(i)
           /\ \A f, c : Touches(i, f, c) => Leftovers(i)' \subseteq Leftovers(i) \cup {f}
           /\ \A f, c : Touches(i, f, c) /\ f \notin TempFiles
                => Leftovers(i)' \subseteq Leftovers(i)
           /\ \A f : Touches(i, f, Nothing) => Leftovers(i)' \subseteq Leftovers(i) \ {f}
<1>1. files \in [FileNames -> Contents] /\ TempFiles \subseteq FileNames
  BY DEF Typed, FileNames
<1>2. files' = files => Leftovers(i)' = Leftovers(i)
  BY DEF Leftovers
<1>3. ASSUME NEW f, NEW c, Touches(i, f, c)
      PROVE  Leftovers(i)' \subseteq Leftovers(i) \cup {f}
  BY <1>1, <1>3 DEF Touches, Leftovers
<1>4. ASSUME NEW f, NEW c, Touches(i, f, c), f \notin TempFiles
      PROVE  Leftovers(i)' \subseteq Leftovers(i)
  BY <1>1, <1>4 DEF Touches, Leftovers
<1>5. ASSUME NEW f, Touches(i, f, Nothing)
      PROVE  Leftovers(i)' \subseteq Leftovers(i) \ {f}
  BY <1>1, <1>5, Names DEF Touches, Leftovers
<1> QED BY <1>2, <1>3, <1>4, <1>5

\* Only the call i moves.
Apart(i) ==
    /\ at' \in [Invocations -> Points]
    /\ interrupts' \in 0..MaxInterrupts
    /\ \A j \in Invocations \ {i} :
         /\ at'[j] = at[j] /\ argv'[j] = argv[j] /\ pid'[j] = pid[j]
         /\ counter'[j] = counter[j] /\ isSource'[j] = isSource[j]
         /\ program'[j] = program[j] /\ scratch'[j] = scratch[j]
         /\ wrapper'[j] = wrapper[j] /\ result'[j] = result[j]
         /\ reported'[j] = reported[j] /\ failed'[j] = failed[j]

\* An action keeps the invariant if it keeps it for the call that moves.
LEMMA LocalFiles ==
    ASSUME FilesInv, NEW i \in Invocations, Apart(i), Effect(i),
           argv'[i] = argv[i], pid'[i] = pid[i], at'[i] # "new",
           CallTyped(i)', Tidy(i)', Clean(i)'
    PROVE  FilesInv'
<1>1. Typed'
  BY EffectTyped DEF FilesInv, Typed, Apart
<1>2. OutputsOnly(i)'
  <2>1. OutputsOnly(i) /\ Typed
    BY DEF FilesInv
  <2> SUFFICES ASSUME NEW f \in UserFiles, files'[f].by = i
               PROVE  Outputs(argv'[i], f)
    BY DEF OutputsOnly
  <2>2. files[f].by = i \/ Outputs(argv[i], f)
    BY <2>1, EffectOnOwners DEF FileNames
  <2> QED BY <2>1, <2>2 DEF OutputsOnly
<1>3. OwnOnly(i)'
  <2>1. OwnOnly(i) /\ Typed
    BY DEF FilesInv
  <2> SUFFICES ASSUME NEW f \in TempFiles, files'[f].by = i
               PROVE  f \in Own(i)
    BY DEF OwnOnly, Leftovers, Own
  <2>2. files[f].by = i \/ f \in Own(i)
    BY <2>1, EffectOnOwners DEF FileNames
  <2> QED BY <2>1, <2>2 DEF OwnOnly, Leftovers
<1>4. ASSUME NEW j \in Invocations \ {i}
      PROVE  CallTyped(j)' /\ OutputsOnly(j)' /\ OwnOnly(j)' /\ Tidy(j)' /\ Clean(j)'
  <2>1. Typed /\ CallTyped(j) /\ OutputsOnly(j) /\ OwnOnly(j) /\ Tidy(j) /\ Clean(j)
    BY DEF FilesInv
  <2>2. \A g \in FileNames : files'[g].by = j => files[g].by = j
    BY <2>1, EffectOnOwners
  <2>3. CallTyped(j)'
    BY <2>1 DEF CallTyped, Live, Apart
  <2>4. OutputsOnly(j)'
    BY <2>1, <2>2 DEF OutputsOnly, Apart, FileNames
  <2>5. Leftovers(j)' \subseteq Leftovers(j)
    BY <2>2 DEF Leftovers, FileNames
  <2>6. OwnOnly(j)'
    BY <2>1, <2>5 DEF OwnOnly, Own, Apart
  <2>7. Kept(j)' = Kept(j)
    BY DEF Kept, Apart
  <2>8. Tidy(j)'
    BY <2>1, <2>5, <2>7 DEF Tidy, Apart
  <2>9. Clean(j)'
    BY <2>1, <2>2 DEF Clean, Apart
  <2> QED BY <2>3, <2>4, <2>6, <2>8, <2>9
<1> QED BY <1>1, <1>2, <1>3, <1>4 DEF FilesInv

\* A call that did not fail before the step has not failed after it.
LEMMA CleanStays ==
    ASSUME FilesInv, NEW i \in Invocations, UNCHANGED failed,
           at[i] \notin {"print", "done", "interrupted"},
           at'[i] \in Unwritten => at[i] \in Unwritten /\ UNCHANGED files
    PROVE  Clean(i)'
BY DEF FilesInv, Clean
-----------------------------------------------------------------------------
(* The steps that leave the directory alone                                *)

\* A call goes from a point to one where it holds the same files.
LEMMA QuietTidy ==
    ASSUME FilesInv, NEW i \in Invocations, UNCHANGED files,
           reported[i] => reported'[i],
           UNCHANGED scratch, UNCHANGED wrapper, UNCHANGED isSource, UNCHANGED argv,
           at[i] # "interrupted",
           \/ at'[i] = "interrupted"
           \/ at[i] \in Early /\ at'[i] \in Early \cup {"done", "print", "refused"}
           \/ at[i] = "linking" /\ at'[i] = "linked"
           \/ at[i] \in Running /\ at'[i] \in Running \cup {"cleanup"}
           \/ at[i] = "parse" /\ at'[i] = "linkObject" /\ Links(argv[i])
    PROVE  Tidy(i)'
<1>1. Tidy(i) /\ Leftovers(i)' = Leftovers(i)
  BY EffectOnLeftovers DEF FilesInv
<1> QED BY <1>1 DEF Tidy, Kept, Early, Running, Linking

\* A turn of Detect().
LEMMA DetectFiles ==
    ASSUME Inv, FilesInv, NEW i \in Invocations, Detect(i)
    PROVE  FilesInv'
<1> USE DEF Detect, Detection, Goto, options, temps, children, history
<1>1. Domains /\ Typed /\ CallTyped(i)
  BY DEF Inv, FilesInv
<1>2. \/ at[i] = "detectLinker" /\ at'[i] \in {"detectLinker", "options"}
      \/ at[i] = "detectRunner" /\ at'[i] \in {"detectRunner", "runObject"}
      \/ at[i] = "detectLli" /\ at'[i] \in {"detectLli", "execute"}
  BY <1>1 DEF Domains
<1>3. Apart(i)
  BY <1>1, <1>2 DEF Domains, Typed, Apart, Points
<1>4. CallTyped(i)'
  BY <1>1, <1>2 DEF CallTyped, Live, Ended
<1>5. Tidy(i)' /\ Clean(i)'
  BY <1>2, QuietTidy, CleanStays DEF Early, Running, Unwritten
<1> QED BY <1>2, <1>3, <1>4, <1>5, LocalFiles DEF Effect

\* The checks of the options.
LEMMA OptionsFiles ==
    ASSUME Inv, FilesInv, NEW i \in Invocations, Options(i)
    PROVE  FilesInv'
<1> USE DEF Options, At, Goto, Report, options, temps, children, history
<1>1. Domains /\ Typed /\ CallTyped(i)
  BY DEF Inv, FilesInv
<1>2. /\ at[i] = "options"
      /\ at'[i] \in {"refused", "parse"}
      /\ at'[i] = "parse" => ~Refuses(argv[i])
      /\ reported[i] => reported'[i]
  BY <1>1 DEF Domains
<1>3. Apart(i)
  BY <1>1, <1>2 DEF Domains, Typed, Apart, Points, Ended
<1>4. CallTyped(i)'
  BY <1>1, <1>2 DEF CallTyped, Live, Ended
<1>5. Tidy(i)' /\ Clean(i)'
  BY <1>2, QuietTidy, CleanStays DEF Early, Unwritten
<1> QED BY <1>2, <1>3, <1>4, <1>5, LocalFiles DEF Effect

\* What parser and code generator come to.
LEMMA GenerateFiles ==
    ASSUME Inv, FilesInv, NEW i \in Invocations, Generate(i)
    PROVE  FilesInv'
<1> USE DEF Generate, At, Goto, Report, Fails, options, temps, children, history
<1>1. Domains /\ Typed /\ CallTyped(i) /\ Clean(i) /\ Reread(i)
  BY DEF Inv, FilesInv
<1>2. /\ at[i] = "parse" /\ at'[i] \in {"done", "print", NextStep(i)}
      /\ failed'[i] => failed[i] \/ at'[i] \in {"done", "print"}
      /\ reported[i] => reported'[i]
  BY <1>1 DEF Domains
<1>3. /\ NextStep(i) \in (Early \ {"new"}) \cup {"linkObject"}
      /\ NextStep(i) = "linkObject" => Links(argv[i])
      /\ NextStep(i) = "compile" => Compiles(argv[i])
  BY DEF NextStep, Early
<1>4. Apart(i)
  <2>1. at'[i] \in Points
    BY <1>2, <1>3 DEF Points, Early, Ended, Detection
  <2> QED BY <1>1, <2>1 DEF Domains, Typed, Apart, Reread
<1>5. program'[i] \in Contents
  BY <1>1 DEF Reread, Exists, Typed, CallTyped, Domains
<1>6. CallTyped(i)'
  BY <1>1, <1>2, <1>3, <1>5 DEF CallTyped, Live, Ended, Early
<1>7. Tidy(i)'
  BY <1>2, <1>3, QuietTidy DEF Early
<1>8. at'[i] # "new" /\ argv'[i] = argv[i]
  BY <1>2, <1>3 DEF Early
<1>9. Clean(i)'
  <2>1. /\ ~failed[i]
        /\ \A f \in FileNames : files[f].by # i
    BY <1>1, <1>2 DEF Clean, Unwritten
  <2> QED BY <1>2, <2>1 DEF Clean
<1> QED BY <1>4, <1>6, <1>7, <1>8, <1>9, LocalFiles DEF Effect

\* A program is started or not, and ends.
LEMMA ExecuteFiles ==
    ASSUME Inv, FilesInv, NEW i \in Invocations, Execute(i) \/ ProgramEnds(i)
    PROVE  FilesInv'
<1> USE DEF Execute, ProgramEnds, At, Goto, Spawn, Wait, options, temps, children, history
<1>1. Domains /\ Typed /\ CallTyped(i)
  BY DEF Inv, FilesInv
<1>2. /\ at[i] \in {"execute", "executing"} /\ at'[i] \in {"executing", "cleanup"}
      /\ result'[i] \in {0, 1, -1}
  BY <1>1 DEF Domains, CallTyped
<1>3. Apart(i)
  BY <1>1, <1>2 DEF Domains, Typed, Apart, Points
<1>4. CallTyped(i)'
  BY <1>1, <1>2 DEF CallTyped, Live, Ended
<1>5. Tidy(i)' /\ Clean(i)'
  BY <1>2, QuietTidy, CleanStays DEF Running, Unwritten
<1> QED BY <1>2, <1>3, <1>4, <1>5, LocalFiles DEF Effect

\* A call is interrupted: what it has written stays.
LEMMA InterruptFiles ==
    ASSUME Inv, FilesInv, NEW i \in Invocations, Interrupt(i)
    PROVE  FilesInv'
<1> USE DEF Interrupt, Goto, options, temps, children, history
<1>1. Domains /\ Typed /\ CallTyped(i)
  BY DEF Inv, FilesInv
<1>2. Live(i) /\ at[i] # "interrupted" /\ at'[i] = "interrupted"
  BY <1>1 DEF Domains, Live, Ended
<1>3. interrupts' \in 0..MaxInterrupts
  BY <1>1, MaxInterruptsAssumption DEF Typed
<1>4. Apart(i)
  BY <1>1, <1>2, <1>3 DEF Domains, Typed, Apart, Points, Ended
<1>5. CallTyped(i)'
  BY <1>1, <1>2 DEF CallTyped, Live, Ended
<1>6. Tidy(i)' /\ Clean(i)'
  <2>1. Clean(i)
    BY DEF FilesInv
  <2> QED BY <1>2, <2>1, QuietTidy DEF Clean, Unwritten
<1> QED BY <1>2, <1>4, <1>5, <1>6, LocalFiles DEF Effect
-----------------------------------------------------------------------------
(* The steps that write or remove a file                                   *)

\* What a call writes comes from a program or from nowhere.
LEMMA Products ==
    ASSUME NEW i \in Invocations, NEW kind \in Kinds
    PROVE  /\ program[i] \in Contents =>
                /\ Content(kind, program[i].of, i) \in Contents
                /\ Content(kind, program[i].of, i).by = i
           /\ Content(kind, NoFile, i) \in Contents
           /\ Content(kind, NoFile, i).by = i
BY DEF Contents, Content, Nothing

\* compile() to the output that was given or derived.
LEMMA CompileFiles ==
    ASSUME Inv, FilesInv, NEW i \in Invocations, Compile(i)
    PROVE  FilesInv'
<1> USE DEF Compile, At, Goto, Report, options, temps, children, history
<1>1. Domains /\ Typed /\ CallTyped(i) /\ Tidy(i)
  BY DEF Inv, FilesInv
<1>2. /\ at[i] = "compile" /\ at'[i] = "print"
      /\ reported[i] => reported'[i]
  BY <1>1 DEF Domains, Emits, EmitsNot
<1>3. Apart(i)
  BY <1>1, <1>2 DEF Domains, Typed, Apart, Points, Emits, EmitsNot
<1>4. CallTyped(i)'
  BY <1>1, <1>2 DEF CallTyped, Live, Ended
<1> DEFINE out == File(CompileOut(argv[i]))
<1>5. Effect(i) /\ Leftovers(i)' \subseteq Leftovers(i)
  <2>1. \/ files' = files
        \/ \E kind \in {"object", "truncated"} :
             files' = [files EXCEPT ![out] = Content(kind, program[i].of, i)]
    BY DEF Emits, EmitsNot, Object, Write
  <2>2. CASE files' = files
    BY <1>1, <2>2, EffectOnLeftovers DEF Effect
  <2>3. ASSUME NEW kind \in {"object", "truncated"},
               files' = [files EXCEPT ![out] = Content(kind, program[i].of, i)]
        PROVE  Effect(i) /\ Leftovers(i)' \subseteq Leftovers(i)
    <3> DEFINE c == Content(kind, program[i].of, i)
    <3>1. c \in Contents /\ c.by = i
      BY <1>1, Products DEF CallTyped, Kinds
    <3>2. Outputs(argv[i], out)
      BY <1>1, <1>2 DEF CallTyped, Outputs
    <3>3. out \notin TempFiles
      BY Names
    <3> HIDE DEF c
    <3>4. Touches(i, out, c)
      BY <2>3, <3>1, <3>2, <3>3 DEF Touches, c
    <3> QED BY <1>1, <3>3, <3>4, EffectOnLeftovers DEF Effect
  <2> QED BY <2>1, <2>2, <2>3
<1>6. Tidy(i)' /\ Clean(i)'
  BY <1>1, <1>2, <1>5, CleanStays DEF Tidy, Kept, Early, Running, Linking, Unwritten
<1> QED BY <1>2, <1>3, <1>4, <1>5, <1>6, LocalFiles

\* The IR is saved under the name that was given.
LEMMA PrintFiles ==
    ASSUME Inv, FilesInv, NEW i \in Invocations, PrintIR(i)
    PROVE  FilesInv'
<1> USE DEF PrintIR, At, Goto, options, temps, children, history
<1>1. Domains /\ Typed /\ CallTyped(i) /\ Tidy(i)
  BY DEF Inv, FilesInv
<1>2. at[i] = "print" /\ at'[i] = "done" /\ reported'[i] = reported[i]
  BY <1>1 DEF Domains
<1>3. Apart(i)
  BY <1>1, <1>2 DEF Domains, Typed, Apart, Points, Ended
<1>4. CallTyped(i)'
  BY <1>1, <1>2 DEF CallTyped, Live, Ended
<1>5. Effect(i) /\ Leftovers(i)' \subseteq Leftovers(i)
  <2>1. CASE files' = files
    BY <1>1, <2>1, EffectOnLeftovers DEF Effect
  <2>2. CASE files' # files
    <3> DEFINE out == File(PrintOut(argv[i]))
               c == Content("ir", program[i].of, i)
    <3>1. files' = [files EXCEPT ![out] = c] /\ Outputs(argv[i], out)
      BY <2>2 DEF Outputs, Write
    <3>2. c \in Contents /\ c.by = i
      BY <1>1, Products DEF CallTyped, Kinds
    <3>3. out \notin TempFiles
      BY Names
    <3> HIDE DEF c
    <3>4. Touches(i, out, c)
      BY <3>1, <3>2, <3>3 DEF Touches
    <3> QED BY <1>1, <3>3, <3>4, EffectOnLeftovers DEF Effect
  <2> QED BY <2>1, <2>2
<1>6. Tidy(i)'
  BY <1>1, <1>2, <1>5 DEF Tidy, Kept, Early, Running, Linking
<1>7. Clean(i)'
  <2>1. Clean(i)
    BY DEF FilesInv
  <2>2. /\ UNCHANGED <<argv, failed>>
        /\ \/ files' = files
           \/ /\ Prints(argv[i]) /\ PrintOut(argv[i]) # ""
              /\ \E c : files' = [files EXCEPT ![File(PrintOut(argv[i]))] = c]
    BY DEF Write
  <2>3. \A f \in FileNames :
          \/ files'[f] = files[f]
          \/ Prints(argv[i]) /\ PrintOut(argv[i]) # "" /\ f = File(PrintOut(argv[i]))
    BY <1>1, <2>2 DEF Typed
  <2> QED BY <1>2, <2>1, <2>2, <2>3 DEF Clean, Unwritten
<1> QED BY <1>2, <1>3, <1>4, <1>5, <1>6, <1>7, LocalFiles

\* The name of no file is no name of a temporary one.
LEMMA NoTempIsNoFile == NoFile \notin TempFiles
BY DEF NoFile, TempFiles, Temp

\* The next temporary file of a call is in the directory's range of names.
LEMMA NewTemp ==
    ASSUME Inv, NEW i \in Invocations, NEW prefix \in Prefixes,
           at[i] \in {"linkSource", "runSource", "runObject", "linkObject"}
    PROVE  UniqueTempPath(i, prefix) \in TempFiles \cap Own(i) /\ counter[i] \in 0..1
<1>1. Live(i)
  BY DEF Live, Ended
<1>2. pid[i] \in Pids /\ counter[i] \in 0..1
  BY <1>1, OwnTemps DEF Inv, CallOK, CounterOK
<1> QED BY <1>2, NextTemp, TempsAreFiles

\* A call that writes its own temporary file.
LEMMA WritesTemp ==
    ASSUME Typed, NEW i \in Invocations, NEW f \in TempFiles \cap Own(i),
           NEW c \in Contents, c.by = i, Write(f, c)
    PROVE  Effect(i) /\ Leftovers(i)' \subseteq Leftovers(i) \cup {f}
<1>1. Touches(i, f, c)
  BY Names DEF Touches, Write
<1> QED BY <1>1, EffectOnLeftovers DEF Effect

\* A call that removes one.
LEMMA RemovesTemp ==
    ASSUME Typed, NEW i \in Invocations, NEW f \in TempFiles \cup {NoFile}, Remove(f)
    PROVE  Effect(i) /\ Leftovers(i)' \subseteq Leftovers(i) \ {f}
<1>1. Touches(i, f, Nothing)
  BY DEF Touches, Remove
<1> QED BY <1>1, EffectOnLeftovers DEF Effect

\* linkSource() compiles to a temporary file.
LEMMA LinkSourceFiles ==
    ASSUME Inv, FilesInv, NEW i \in Invocations, LinkSource(i)
    PROVE  FilesInv'
<1> USE DEF LinkSource, At, Goto, Report, options, temps, children, history
<1>1. Domains /\ Typed /\ CallTyped(i) /\ Tidy(i) /\ ControlOK(i)
  BY DEF Inv, FilesInv, CallOK
<1> DEFINE temp == UniqueTempPath(i, "temp")
<1>2. temp \in TempFiles \cap Own(i) /\ counter[i] \in 0..1
  BY NewTemp DEF Prefixes
<1>3. /\ at[i] = "linkSource"
      /\ scratch'[i] = temp
      /\ \/ at'[i] = "linkObject" /\ reported'[i] = reported[i]
         \/ at'[i] = "print" /\ reported'[i]
  BY <1>1 DEF Domains, Emits, EmitsNot
<1>4. \/ files' = files
      \/ \E kind \in {"object", "truncated"} : Write(temp, Content(kind, program[i].of, i))
  BY DEF Emits, EmitsNot, Object
<1>5. Apart(i)
  BY <1>1, <1>3 DEF Domains, Typed, Apart, Points, Emits, EmitsNot
<1>6. CallTyped(i)'
  <2>1. counter'[i] \in 0..2
    BY <1>1, <1>2 DEF Domains
  <2> QED BY <1>1, <1>3, <2>1 DEF CallTyped, Live, Ended
<1> HIDE DEF temp
<1>7. Effect(i) /\ Leftovers(i)' \subseteq Leftovers(i) \cup {temp}
  <2>1. CASE files' = files
    BY <1>1, <2>1, EffectOnLeftovers DEF Effect
  <2>2. ASSUME NEW kind \in {"object", "truncated"},
               Write(temp, Content(kind, program[i].of, i))
        PROVE  Effect(i) /\ Leftovers(i)' \subseteq Leftovers(i) \cup {temp}
    BY <1>1, <1>2, <2>2, Products, WritesTemp DEF CallTyped, Kinds
  <2> QED BY <1>4, <2>1, <2>2
<1>8. Tidy(i)' /\ Clean(i)'
  BY <1>1, <1>3, <1>7, CleanStays
     DEF Tidy, Kept, Early, Running, Linking, ControlOK, Unwritten
<1> QED BY <1>3, <1>5, <1>6, <1>7, <1>8, LocalFiles

\* runObject() has a name for its executable.
LEMMA RunObjectFiles ==
    ASSUME Inv, FilesInv, NEW i \in Invocations, RunObject(i)
    PROVE  FilesInv'
<1> USE DEF RunObject, At, Goto, options, temps, children, history
<1>1. Domains /\ Typed /\ CallTyped(i) /\ Tidy(i) /\ ControlOK(i)
  BY DEF Inv, FilesInv, CallOK
<1>2. counter[i] \in 0..1
  BY NewTemp DEF Prefixes
<1>3. at[i] = "runObject" /\ at'[i] = "linkObject" /\ reported'[i] = reported[i]
  BY <1>1 DEF Domains
<1>4. Apart(i)
  BY <1>1, <1>3 DEF Domains, Typed, Apart, Points
<1>5. CallTyped(i)'
  <2>1. counter'[i] \in 0..2
    BY <1>1, <1>2 DEF Domains
  <2> QED BY <1>1, <1>3, <2>1 DEF CallTyped, Live, Ended
<1>6. Effect(i) /\ Leftovers(i)' = Leftovers(i)
  BY <1>1, EffectOnLeftovers DEF Effect
<1>7. Tidy(i)' /\ Clean(i)'
  BY <1>1, <1>3, <1>6, CleanStays
     DEF Tidy, Kept, Early, Running, Linking, ControlOK, Unwritten
<1> QED BY <1>3, <1>4, <1>5, <1>6, <1>7, LocalFiles

\* Link() writes the wrapper.
LEMMA LinkFiles ==
    ASSUME Inv, FilesInv, NEW i \in Invocations, Link(i)
    PROVE  FilesInv'
<1> USE DEF Link, At, Goto, Spawn, options, temps, children, history
<1>1. Domains /\ Typed /\ CallTyped(i) /\ Tidy(i)
  BY DEF Inv, FilesInv
<1> DEFINE temp == UniqueTempPath(i, "TempLinker")
<1>2. temp \in TempFiles \cap Own(i) /\ counter[i] \in 0..1
  BY NewTemp DEF Prefixes
<1>3. /\ at[i] = "linkObject" /\ at'[i] \in {"linking", "linked"}
      /\ wrapper'[i] = temp
      /\ result'[i] \in {0, 1, -1}
      /\ UNCHANGED <<scratch, isSource, argv, reported>>
  BY <1>1 DEF Domains, CallTyped
<1>4. Apart(i)
  BY <1>1, <1>3 DEF Domains, Typed, Apart, Points
<1>5. CallTyped(i)'
  <2>1. counter'[i] \in 0..2
    BY <1>1, <1>2 DEF Domains
  <2> QED BY <1>1, <1>3, <2>1 DEF CallTyped, Live, Ended
<1> HIDE DEF temp
<1>6. Effect(i) /\ Leftovers(i)' \subseteq Leftovers(i) \cup {temp}
  <2>1. \/ files' = files
        \/ \E kind \in {"wrapper", "truncated"} : Write(temp, Content(kind, NoFile, i))
    BY DEF temp
  <2>2. CASE files' = files
    BY <1>1, <2>2, EffectOnLeftovers DEF Effect
  <2>3. ASSUME NEW kind \in {"wrapper", "truncated"}, Write(temp, Content(kind, NoFile, i))
        PROVE  Effect(i) /\ Leftovers(i)' \subseteq Leftovers(i) \cup {temp}
    BY <1>1, <1>2, <2>3, Products, WritesTemp DEF Kinds
  <2> QED BY <2>1, <2>2, <2>3
<1>7. Tidy(i)' /\ Clean(i)'
  BY <1>1, <1>3, <1>6, CleanStays
     DEF Tidy, Kept, Early, Running, Linking, Unwritten
<1> QED BY <1>3, <1>4, <1>5, <1>6, <1>7, LocalFiles

\* Where the linker reads and writes.
LEMMA LinkerFiles ==
    ASSUME Inv, FilesInv, NEW i \in Invocations, at[i] = "linking"
    PROVE  /\ OutPath(i) \in FileNames /\ InPath(i) \in FileNames
           /\ \/ OutPath(i) \in TempFiles \cap Own(i) /\ OutPath(i) = scratch[i]
              \/ OutPath(i) \notin TempFiles /\ Outputs(argv[i], OutPath(i))
<1>1. Live(i) /\ CallTyped(i) /\ TempsOK(i) /\ ControlOK(i)
  BY DEF Inv, FilesInv, CallOK, Live, Ended
<1>2. /\ argv[i] \in CommandLines /\ ~Informs(argv[i]) /\ ~Refuses(argv[i])
      /\ File(Input(argv[i])) \in UserFiles
  BY <1>1 DEF CallTyped, Live
<1>3. isSource[i] \/ ~Links(argv[i]) => scratch[i] \in TempFiles \cap Own(i)
  BY <1>1, TempsAreFiles DEF TempsOK, Linking, Own
<1>4. CASE Links(argv[i])
  <2>1. OutPath(i) = File(LinkOut(argv[i]))
    BY <1>4 DEF OutPath
  <2>2. OutPath(i) \in UserFiles
    BY <1>2, <1>4, <2>1, CommandLinesAssumption
  <2>3. Outputs(argv[i], OutPath(i)) /\ OutPath(i) \notin TempFiles
    BY <1>2, <1>4, <2>1, Names DEF Outputs
  <2>4. InPath(i) \in FileNames
    BY <1>2, <1>3 DEF InPath, FileNames
  <2> QED BY <2>1, <2>2, <2>3, <2>4 DEF FileNames
<1>5. CASE ~Links(argv[i])
  BY <1>2, <1>3, <1>5 DEF OutPath, InPath, FileNames
<1> QED BY <1>4, <1>5

\* The linker writes the output or the temporary executable, or spoils it.
LEMMA LinkerEndsFiles ==
    ASSUME Inv, FilesInv, NEW i \in Invocations, LinkerEnds(i)
    PROVE  FilesInv'
<1> USE DEF LinkerEnds, At, Goto, Wait, options, temps, children, history
<1>1. Domains /\ Typed /\ CallTyped(i) /\ Tidy(i)
  BY DEF Inv, FilesInv
<1>2. /\ at[i] = "linking" /\ at'[i] = "linked"
      /\ result'[i] \in {0, 1, -1}
      /\ UNCHANGED <<scratch, wrapper, isSource, argv, reported, counter, program, pid>>
  BY <1>1 DEF Domains, CallTyped
<1>3. Apart(i)
  BY <1>1, <1>2 DEF Domains, Typed, Apart, Points
<1>4. CallTyped(i)'
  BY <1>1, <1>2 DEF CallTyped, Live, Ended
<1> DEFINE out == OutPath(i)
           origin == files[InPath(i)].of
           c == Content("executable", origin, i)
<1>5. Effect(i) /\ Leftovers(i)' \subseteq Leftovers(i) \cup {scratch[i]}
  <2>1. \/ files' = files
        \/ files' = [files EXCEPT ![out] = Nothing]
        \/ files[InPath(i)].kind = "object" /\ files' = [files EXCEPT ![out] = c]
    BY DEF Write, Remove
  <2>2. files[InPath(i)].kind = "object" => c \in Contents /\ c.by = i
    <3>1. files[InPath(i)] \in Contents
      BY <1>1, <1>2, LinkerFiles DEF Typed
    <3>2. files[InPath(i)].kind = "object" => origin \in UserFiles \cup {NoFile}
      BY <3>1 DEF Contents, Nothing, Content
    <3> HIDE DEF origin
    <3> QED BY <3>2 DEF Contents, Content, Kinds
  <2>3. \/ out \in TempFiles \cap Own(i) /\ out = scratch[i]
        \/ out \notin TempFiles /\ Outputs(argv[i], out)
    BY <1>2, LinkerFiles
  <2> HIDE DEF out, c
  <2>4. CASE files' = files
    BY <1>1, <2>4, EffectOnLeftovers DEF Effect
  <2>5. ASSUME NEW d \in {Nothing, c}, d = Nothing \/ (d \in Contents /\ d.by = i),
               files' = [files EXCEPT ![out] = d]
        PROVE  Effect(i) /\ Leftovers(i)' \subseteq Leftovers(i) \cup {scratch[i]}
    <3>1. Touches(i, out, d)
      BY <2>3, <2>5, Names DEF Touches
    <3>2. out \in TempFiles => out = scratch[i]
      BY <2>3
    <3> QED BY <1>1, <3>1, <3>2, EffectOnLeftovers DEF Effect
  <2> QED BY <2>1, <2>2, <2>4, <2>5
<1>6. Tidy(i)' /\ Clean(i)'
  BY <1>1, <1>2, <1>5, CleanStays
     DEF Tidy, Kept, Early, Running, Linking, Unwritten
<1> QED BY <1>2, <1>3, <1>4, <1>5, <1>6, LocalFiles

\* The wrapper of a link that succeeded is removed; with an input that is an
\* object file and -o there was no other temporary file.
LEMMA LinkedFiles ==
    ASSUME Inv, FilesInv, NEW i \in Invocations, Linked(i)
    PROVE  FilesInv'
<1> USE DEF Linked, At, Goto, Report, options, temps, children, history
<1>1. Domains /\ Typed /\ CallTyped(i) /\ Tidy(i) /\ ControlOK(i) /\ TempsOK(i)
  BY DEF Inv, FilesInv, CallOK
<1>2. /\ at[i] = "linked"
      /\ at'[i] = IF ~Links(argv[i]) THEN "execute"
                  ELSE IF isSource[i] THEN "cleanup" ELSE "print"
      /\ UNCHANGED <<scratch, wrapper, isSource, argv, counter, program, pid, result>>
  BY <1>1 DEF Domains
<1>3. Apart(i)
  BY <1>1, <1>2 DEF Domains, Typed, Apart, Points
<1>4. CallTyped(i)'
  BY <1>1, <1>2 DEF CallTyped, Live, Ended
<1>5. /\ Effect(i)
      /\ ~reported'[i] => ~reported[i] /\ Leftovers(i)' \subseteq Leftovers(i) \ {wrapper[i]}
  <2>1. Live(i)
    BY <1>2 DEF Live, Ended
  <2>2. wrapper[i] \in TempFiles \cup {NoFile}
    BY <1>1, <2>1, TempsAreFiles DEF TempsOK
  <2>3. CASE Remove(wrapper[i]) /\ UNCHANGED reported
    BY <1>1, <2>2, <2>3, RemovesTemp
  <2>4. CASE files' = files /\ Report(i)
    BY <1>1, <2>4 DEF Effect, Domains
  <2> QED BY <2>3, <2>4
<1>6. Leftovers(i) \subseteq TempFiles
  BY DEF Leftovers
<1>7. Tidy(i)' /\ Clean(i)'
  BY <1>1, <1>2, <1>5, <1>6, Names, NoTempIsNoFile, CleanStays
     DEF Tidy, Kept, Early, Running, Linking, Unwritten
<1> QED BY <1>2, <1>3, <1>4, <1>5, <1>7, LocalFiles

\* runSource() writes the IR to its temporary file.
LEMMA RunSourceFiles ==
    ASSUME Inv, FilesInv, NEW i \in Invocations, RunSource(i)
    PROVE  FilesInv'
<1> USE DEF RunSource, At, Goto, Report, options, temps, children, history
<1>1. Domains /\ Typed /\ CallTyped(i) /\ Tidy(i) /\ ControlOK(i)
  BY DEF Inv, FilesInv, CallOK
<1> DEFINE temp == UniqueTempPath(i, "out")
<1>2. temp \in TempFiles \cap Own(i) /\ counter[i] \in 0..1
  BY NewTemp DEF Prefixes
<1>3. /\ at[i] = "runSource"
      /\ scratch'[i] = temp
      /\ \/ at'[i] = "detectLli" /\ reported'[i] = reported[i]
         \/ at'[i] = "print" /\ reported'[i]
  BY <1>1 DEF Domains
<1>4. files' = files \/ Write(temp, Content("ir", program[i].of, i))
  OBVIOUS
<1>5. Apart(i)
  BY <1>1, <1>3 DEF Domains, Typed, Apart, Points, Detection
<1>6. CallTyped(i)'
  <2>1. counter'[i] \in 0..2
    BY <1>1, <1>2 DEF Domains
  <2> QED BY <1>1, <1>3, <2>1 DEF CallTyped, Live, Ended
<1> HIDE DEF temp
<1>7. Effect(i) /\ Leftovers(i)' \subseteq Leftovers(i) \cup {temp}
  <2>1. CASE files' = files
    BY <1>1, <2>1, EffectOnLeftovers DEF Effect
  <2>2. CASE Write(temp, Content("ir", program[i].of, i))
    BY <1>1, <1>2, <2>2, Products, WritesTemp DEF CallTyped, Kinds
  <2> QED BY <1>4, <2>1, <2>2
<1>8. Tidy(i)' /\ Clean(i)'
  BY <1>1, <1>3, <1>7, CleanStays
     DEF Tidy, Kept, Early, Running, Linking, ControlOK, Unwritten
<1> QED BY <1>3, <1>5, <1>6, <1>7, <1>8, LocalFiles

\* The temporary file is removed in the end, or there is a message.
LEMMA CleanupFiles ==
    ASSUME Inv, FilesInv, NEW i \in Invocations, Cleanup(i)
    PROVE  FilesInv'
<1> USE DEF Cleanup, At, Goto, Report, options, temps, children, history
<1>1. Domains /\ Typed /\ CallTyped(i) /\ Tidy(i) /\ TempsOK(i)
  BY DEF Inv, FilesInv, CallOK
<1>2. /\ at[i] = "cleanup" /\ at'[i] = "print"
      /\ UNCHANGED <<scratch, wrapper, isSource, argv, counter, program, pid, result>>
  BY <1>1 DEF Domains
<1>3. Apart(i)
  BY <1>1, <1>2 DEF Domains, Typed, Apart, Points
<1>4. CallTyped(i)'
  BY <1>1, <1>2 DEF CallTyped, Live, Ended
<1>5. /\ Effect(i)
      /\ ~reported'[i] => ~reported[i] /\ Leftovers(i)' \subseteq Leftovers(i) \ {scratch[i]}
  <2>1. Live(i)
    BY <1>2 DEF Live, Ended
  <2>2. scratch[i] \in TempFiles \cup {NoFile}
    BY <1>1, <2>1, TempsAreFiles DEF TempsOK
  <2>3. CASE Remove(scratch[i]) /\ UNCHANGED reported
    BY <1>1, <2>2, <2>3, RemovesTemp
  <2>4. CASE files' = files /\ Report(i)
    BY <1>1, <2>4 DEF Effect, Domains
  <2> QED BY <2>3, <2>4
<1>6. Tidy(i)' /\ Clean(i)'
  BY <1>1, <1>2, <1>5, CleanStays
     DEF Tidy, Kept, Early, Running, Linking, Unwritten
<1> QED BY <1>2, <1>3, <1>4, <1>5, <1>6, LocalFiles

\* A call that starts has written nothing.
LEMMA StartFiles ==
    ASSUME Inv, FilesInv, NEW i \in Invocations, Start(i)
    PROVE  FilesInv'
<1>1. Domains /\ Typed /\ CallTyped(i) /\ OutputsOnly(i) /\ Tidy(i) /\ Clean(i)
  BY DEF Inv, FilesInv
<1>2. PICK args \in CommandLines, p \in Pids :
        LET opens == ~Informs(args) /\ Exists(File(Input(args)))
            asks == Links(args) /\ LinkerGiven(args) = ""
        IN /\ argv' = [argv EXCEPT ![i] = args]
           /\ pid' = [pid EXCEPT ![i] = p]
           /\ isSource' = [isSource EXCEPT ![i] = opens /\ IsText(files[File(Input(args))])]
           /\ program' =
                [program EXCEPT ![i] = IF opens THEN files[File(Input(args))] ELSE Nothing]
           /\ reported' = [reported EXCEPT ![i] = ~opens /\ ~Informs(args)]
           /\ Goto(i, IF ~opens THEN "refused" ELSE IF asks THEN "detectLinker" ELSE "options")
  BY DEF Start
<1>3. /\ at[i] = "new"
      /\ UNCHANGED <<files, counter, scratch, wrapper, result, failed, interrupts>>
  BY DEF Start, At, temps, children
<1>4. /\ argv'[i] = args /\ pid'[i] = p
      /\ at'[i] \in {"refused", "detectLinker", "options"}
      /\ at'[i] # "refused" => ~Informs(args) /\ Exists(File(Input(args)))
      /\ program'[i] = Nothing \/ (Exists(File(Input(args))) /\ program'[i] = files[File(Input(args))])
  BY <1>1, <1>2 DEF Domains, Goto
<1>5. program'[i] \in Contents
  BY <1>1, <1>4, Names DEF Typed, Exists
<1>6. Apart(i)
  <2>1. at'[i] \in Points
    BY <1>4 DEF Points, Ended, Detection
  <2>2. interrupts' \in 0..MaxInterrupts
    BY <1>1, <1>3 DEF Typed
  <2>3. \A j \in Invocations \ {i} :
          /\ at'[j] = at[j] /\ argv'[j] = argv[j] /\ pid'[j] = pid[j]
          /\ isSource'[j] = isSource[j] /\ program'[j] = program[j]
          /\ reported'[j] = reported[j]
    BY <1>1, <1>2 DEF Domains, Goto
  <2>4. at' \in [Invocations -> Points]
    BY <1>1, <1>2, <2>1 DEF Typed, Goto
  <2> QED BY <1>3, <2>2, <2>3, <2>4 DEF Apart
<1>7. CallTyped(i)'
  <2>1. Exists(File(Input(args))) => File(Input(args)) \in UserFiles
    BY Names DEF Exists, FileNames
  <2> QED BY <1>1, <1>3, <1>4, <1>5, <2>1 DEF CallTyped, Live, Ended
<1>8. OutputsOnly(i)'
  BY <1>1, <1>3 DEF OutputsOnly
<1>9. Tidy(i)' /\ OwnOnly(i)' /\ Clean(i)'
  <2>1. /\ Leftovers(i) = {} /\ ~failed[i]
        /\ \A f \in FileNames : files[f].by # i
    BY <1>1, <1>3 DEF Clean, Unwritten, Leftovers, FileNames
  <2>2. Tidy(i)'
    BY <1>1, <1>3, <1>4, <2>1, EffectOnLeftovers DEF Tidy, Kept, Early, Running, Linking
  <2>3. OwnOnly(i)'
    BY <1>1, <1>3, <2>1, EffectOnLeftovers DEF OwnOnly
  <2>4. Clean(i)'
    BY <1>3, <1>4, <2>1 DEF Clean
  <2> QED BY <2>2, <2>3, <2>4
<1>10. ASSUME NEW j \in Invocations \ {i}
       PROVE  CallTyped(j)' /\ OutputsOnly(j)' /\ OwnOnly(j)' /\ Tidy(j)' /\ Clean(j)'
  <2>1. CallTyped(j) /\ OutputsOnly(j) /\ OwnOnly(j) /\ Tidy(j) /\ Clean(j)
    BY DEF FilesInv
  <2>2. CallTyped(j)'
    BY <1>6, <2>1 DEF CallTyped, Live, Apart
  <2>3. OutputsOnly(j)' /\ Leftovers(j)' = Leftovers(j) /\ Kept(j)' = Kept(j)
    BY <1>3, <1>6, <2>1 DEF OutputsOnly, Apart, Leftovers, Kept
  <2>4. OwnOnly(j)' /\ Clean(j)'
    BY <1>3, <1>6, <2>1, <2>3 DEF OwnOnly, Own, Clean, Apart
  <2> QED BY <1>6, <2>1, <2>2, <2>3, <2>4 DEF Tidy, Apart
<1> QED BY <1>3, <1>5, <1>6, <1>7, <1>8, <1>9, <1>10, EffectTyped
        DEF FilesInv, Typed, Apart, Effect
-----------------------------------------------------------------------------
(* The invariant holds                                                     *)

\* In the beginning everything in the directory is the user's.
LEMMA InitFiles == ASSUME Init PROVE FilesInv
<1>1. \A f \in FileNames : files[f] \in Contents /\ files[f].by = NULL
  <2>1. ASSUME NEW f \in FileNames
        PROVE  \/ f \in UserFiles /\ files[f] = Content("source", f, NULL)
               \/ f \in UserFiles /\ files[f] = Content("object", f, NULL)
               \/ files[f] = Nothing
    BY DEF Init, UserFiles
  <2>2. ASSUME NEW f \in UserFiles, NEW kind \in Kinds
        PROVE  Content(kind, f, NULL) \in Contents /\ Content(kind, f, NULL).by = NULL
    BY DEF Contents, Content
  <2>3. Nothing \in Contents /\ Nothing.by = NULL
    BY DEF Contents, Content, Nothing
  <2> QED BY <2>1, <2>2, <2>3 DEF Kinds
<1>2. Typed
  <2>1. files \in [FileNames -> Contents]
    BY <1>1 DEF Init
  <2>2. at \in [Invocations -> Points]
    BY DEF Init, Points
  <2>3. interrupts \in 0..MaxInterrupts
    <3>1. interrupts = MaxInterrupts /\ MaxInterrupts \in Nat
      BY MaxInterruptsAssumption DEF Init
    <3> QED BY <3>1
  <2> QED BY <2>1, <2>2, <2>3 DEF Typed
<1>3. ASSUME NEW i \in Invocations
      PROVE  CallTyped(i) /\ OutputsOnly(i) /\ OwnOnly(i) /\ Tidy(i) /\ Clean(i)
  <2>1. CallTyped(i)
    <3>1. /\ at[i] = "new" /\ argv[i] = <<>> /\ pid[i] = NULL /\ counter[i] = 0
          /\ program[i] = Nothing /\ result[i] = 0 /\ reported[i] = FALSE
      BY DEF Init
    <3> QED BY <3>1, Names DEF CallTyped, Live
  <2>2. \A f \in FileNames : files[f].by # i
    BY <1>1, InvocationsAssumption
  <2>3. OutputsOnly(i)
    BY <2>2 DEF OutputsOnly, FileNames
  <2>4. Leftovers(i) = {}
    BY <2>2 DEF Leftovers, FileNames
  <2>5. Tidy(i)
    BY <2>4 DEF Init, Tidy, Linking
  <2>6. OwnOnly(i) /\ Clean(i)
    BY <2>2, <2>4 DEF Init, OwnOnly, Clean
  <2> QED BY <2>1, <2>3, <2>5, <2>6
<1> QED BY <1>2, <1>3 DEF FilesInv

LEMMA NextFiles == ASSUME Inv, FilesInv, [Next]_vars PROVE FilesInv'
<1>1. ASSUME NEW i \in Invocations, Step(i) PROVE FilesInv'
  BY <1>1, DetectFiles, OptionsFiles, GenerateFiles, CompileFiles, LinkSourceFiles,
     RunObjectFiles, LinkFiles, LinkerEndsFiles, LinkedFiles, RunSourceFiles, ExecuteFiles,
     CleanupFiles, PrintFiles DEF Step
<1>2. ASSUME NEW i \in Invocations, Start(i) \/ Interrupt(i) PROVE FilesInv'
  BY <1>2, StartFiles, InterruptFiles
<1>3. ASSUME UNCHANGED vars PROVE FilesInv'
  <2>1. Typed'
    BY <1>3 DEF FilesInv, Typed, vars
  <2>2. ASSUME NEW i \in Invocations
        PROVE  CallTyped(i)' /\ OutputsOnly(i)' /\ OwnOnly(i)' /\ Tidy(i)' /\ Clean(i)'
    <3>1. CallTyped(i) /\ OutputsOnly(i) /\ OwnOnly(i) /\ Tidy(i) /\ Clean(i)
      BY DEF FilesInv
    <3>2. CallTyped(i)'
      BY <1>3, <3>1 DEF CallTyped, Live, vars, options, temps, children, history
    <3>3. OutputsOnly(i)' /\ Tidy(i)'
      BY <1>3, <3>1 DEF OutputsOnly, Tidy, Leftovers, Kept, vars, options, temps, children, history
    <3>4. OwnOnly(i)' /\ Clean(i)'
      BY <1>3, <3>1 DEF OwnOnly, Own, Leftovers, Clean, vars, options, temps, children, history
    <3> QED BY <3>2, <3>3, <3>4
  <2> QED BY <2>1, <2>2 DEF FilesInv
<1> QED BY <1>1, <1>2, <1>3 DEF Next, Over

\* Every file that a call has written is one it may have, at every step.
THEOREM FilesInvariance == Spec => []FilesInv
<1>1. Init => FilesInv
  BY InitFiles
<1>2. Inv /\ FilesInv /\ [Next]_vars => FilesInv'
  BY NextFiles
<1> QED BY <1>1, <1>2, CallsInvariance, PTL DEF Spec
-----------------------------------------------------------------------------
(* The properties                                                          *)

\* The variables keep their types, and compile() and the linker always have a
\* file name to write to.
THEOREM TypesAreKept == Spec => []TypeOK
<1>1. ASSUME Inv, FilesInv, NEW i \in Invocations
      PROVE  /\ argv[i] \in CommandLines \cup {<<>>}
             /\ pid[i] \in Pids \cup {NULL}
             /\ counter[i] \in 0..2
             /\ program[i] \in Contents
             /\ {scratch[i], wrapper[i]} \subseteq TempFiles \cup {NoFile}
             /\ child[i] \in {NULL, "linker", "lli", "executable"}
             /\ result[i] \in {0, 1, -1}
             /\ At(i, "compile") => File(CompileOut(argv[i])) \in UserFiles
             /\ At(i, "linking") => OutPath(i) \in FileNames /\ InPath(i) \in FileNames
  <2>1. CallTyped(i) /\ TempsOK(i) /\ ControlOK(i)
    BY <1>1 DEF Inv, FilesInv, CallOK
  <2>2. {scratch[i], wrapper[i]} \subseteq TempFiles \cup {NoFile}
    BY <2>1, TempsAreFiles DEF TempsOK, CallTyped
  <2>3. child[i] \in {NULL, "linker", "lli", "executable"}
    BY <2>1 DEF ControlOK
  <2>4. At(i, "compile") => File(CompileOut(argv[i])) \in UserFiles
    BY <2>1, CommandLinesAssumption DEF At, CallTyped, Live, Ended
  <2>5. At(i, "linking") => OutPath(i) \in FileNames /\ InPath(i) \in FileNames
    BY <1>1, LinkerFiles DEF At
  <2> QED BY <2>1, <2>2, <2>3, <2>4, <2>5 DEF CallTyped
<1>2. ASSUME Inv, FilesInv PROVE TypeOK
  <2>1. Typed
    BY <1>2 DEF FilesInv
  <2> QED BY <1>1, <1>2, <2>1 DEF TypeOK, Typed, Contents
<1> QED BY <1>2, CallsInvariance, FilesInvariance, PTL

\* A call that ends without a word about a failure leaves no temporary file.
THEOREM NoTempIsLeft == Spec => []TempsRemoved
<1>1. FilesInv => TempsRemoved
  BY DEF FilesInv, Tidy, Kept, Running, TempsRemoved, At
<1> QED BY <1>1, FilesInvariance, PTL

\* A tool reads the program of its own call, and no file of another live one,
\* whichever process ids are given again and whatever was left behind.
THEOREM ToolsReadOwnFiles == Spec => []UsesOwnFiles
<1>1. ASSUME Inv, FilesInv, NEW i \in Invocations, Live(i), NEW f \in TempFiles \cap Own(i),
             NEW j \in Invocations \ {i}, Live(j)
      PROVE  files[f].by # j
  <2>1. pid[i] # pid[j]
    BY <1>1 DEF Inv, PidsDiffer
  <2>2. f \notin Own(j)
    BY <2>1, TempsHavePids DEF Own
  <2>3. OwnOnly(j)
    BY <1>1 DEF FilesInv
  <2> QED BY <2>2, <2>3 DEF OwnOnly, Leftovers
<1>2. ASSUME Inv, FilesInv, NEW i \in Invocations, child[i] # NULL
      PROVE  /\ child[i] = "linker" =>
                  /\ isSource[i] => files[scratch[i]] = Object(i)
                  /\ ~\E j \in Invocations \ {i} : Live(j) /\ files[wrapper[i]].by = j
             /\ child[i] = "lli" => files[scratch[i]] = Content("ir", program[i].of, i)
             /\ child[i] = "executable" =>
                  \/ files[scratch[i]].by = i
                  \/ /\ linkFailed[i]
                     /\ ~\E j \in Invocations \ {i} : Live(j) /\ files[scratch[i]].by = j
  <2>1. TempsOK(i) /\ ControlOK(i) /\ FilesOK(i)
    BY <1>2 DEF Inv, CallOK
  <2>2. Live(i)
    BY <1>2, <2>1 DEF ControlOK, Live, Ended
  <2>3. CASE child[i] = "linker"
    <3>1. at[i] = "linking"
      BY <1>2, <2>1, <2>3 DEF ControlOK
    <3>2. wrapper[i] \in TempFiles \cap Own(i)
      BY <2>1, <2>2, <3>1, TempsAreFiles DEF TempsOK, Own
    <3>3. ~\E j \in Invocations \ {i} : Live(j) /\ files[wrapper[i]].by = j
      BY <1>1, <1>2, <2>2, <3>2
    <3> QED BY <2>1, <2>3, <3>1, <3>3 DEF FilesOK
  <2>4. CASE child[i] = "lli"
    BY <1>2, <2>1, <2>4 DEF ControlOK, FilesOK, Running
  <2>5. CASE child[i] = "executable"
    <3>1. at[i] = "executing" /\ ~isSource[i]
      BY <1>2, <2>1, <2>5 DEF ControlOK
    <3>2. scratch[i] \in TempFiles \cap Own(i)
      BY <2>1, <2>2, <3>1, TempsAreFiles DEF TempsOK, Own, Running
    <3>3. ~\E j \in Invocations \ {i} : Live(j) /\ files[scratch[i]].by = j
      BY <1>1, <1>2, <2>2, <3>2
    <3>4. files[scratch[i]].by = i \/ linkFailed[i]
      BY <2>1, <3>1 DEF FilesOK, Running
    <3> QED BY <2>5, <3>3, <3>4
  <2> QED BY <1>2, <2>1, <2>3, <2>4, <2>5 DEF ControlOK
<1>3. Inv /\ FilesInv => UsesOwnFiles
  BY <1>2 DEF UsesOwnFiles, NULL
<1> QED BY <1>3, CallsInvariance, FilesInvariance, PTL

\* Once isFailed() was true, of the parser or the code generator, nothing is
\* started and nothing is written but the IR that was asked for.
THEOREM FailureStopsCall == Spec => []NothingRunsAfterFailure
<1>1. ASSUME Inv, FilesInv, NEW i \in Invocations, failed[i]
      PROVE  /\ child[i] = NULL
             /\ \A f \in FileNames : files[f].by = i =>
                  Prints(argv[i]) /\ PrintOut(argv[i]) # "" /\ f = File(PrintOut(argv[i]))
  <2>1. ControlOK(i) /\ Clean(i)
    BY <1>1 DEF Inv, CallOK, FilesInv
  <2> QED BY <1>1, <2>1 DEF ControlOK, Clean
<1>2. Inv /\ FilesInv => NothingRunsAfterFailure
  BY <1>1 DEF NothingRunsAfterFailure
<1> QED BY <1>2, CallsInvariance, FilesInvariance, PTL

\* A call writes over its input only where an output leads to the same file,
\* and never by -o with the input's own name, whatever names lead to one file.
THEOREM InputIsKept == Spec => []InputSurvives
<1>1. ASSUME FilesInv, NEW i \in Invocations, argv[i] # <<>>, ~Informs(argv[i]),
             File(Input(argv[i])) \in FileNames, files[File(Input(argv[i]))].by = i
      PROVE  Outputs(argv[i], File(Input(argv[i])))
  <2>1. File(Input(argv[i])) \in UserFiles
    BY <1>1, Names DEF FileNames
  <2> QED BY <1>1, <2>1 DEF FilesInv, OutputsOnly
<1>2. FilesInv => InputSurvives
  BY <1>1 DEF InputSurvives, Outputs, Refuses
<1> QED BY <1>2, FilesInvariance, PTL
=============================================================================
