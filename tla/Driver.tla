------------------------------- MODULE Driver -------------------------------
(***************************************************************************)
(* The options of a call of pudl: Compiler/CLIManager.h, and what main()   *)
(* in main.cpp decides from them alone.                                    *)
(*                                                                         *)
(* argv is the command line without the program's name, a sequence of      *)
(* arguments.  An argument is a sequence of strings: one, or two if it has *)
(* the form "-o=file" that CLIManager splits.  A name without a value is   *)
(* "".                                                                     *)
(***************************************************************************)
EXTENDS Integers, Sequences

CONSTANTS
    Stem,       \* file names without their directory and extension
    ObjectName  \* the same with the extension .o
-----------------------------------------------------------------------------
(* CLIManager                                                              *)

\* The constructor: "-o=file" becomes "-o", "file".
Args(argv) ==
    LET split[n \in 0..Len(argv)] == IF n = 0 THEN <<>> ELSE split[n - 1] \o argv[n]
    IN split[Len(argv)]

find(args, option) == {k \in 1..Len(args) : args[k] = option}
hasOption(args, option) == find(args, option) # {}

\* The argument after the first occurrence, whatever it looks like.
getOptionValue(args, option, default) ==
    LET found == find(args, option)
        first == CHOOSE k \in found : \A l \in found : k <= l
    IN IF found = {} \/ first = Len(args) THEN default ELSE args[first + 1]

\* main() asks for each option by two names.
Has(args, short, long) == hasOption(args, short) \/ hasOption(args, long)
Value(args, short, long) == getOptionValue(args, short, getOptionValue(args, long, ""))
-----------------------------------------------------------------------------
(* main() up to the parser                                                 *)

\* argv[1], taken for a file name even if it is an option.
Input(argv) == IF Len(argv[1]) = 1 THEN argv[1][1] ELSE ""

\* The calls that only print something.
Informs(argv) == argv = <<>> \/ Has(Args(argv), "--version", "-v")
                             \/ Has(Args(argv), "--help", "-h")

Compiles(argv) == Has(Args(argv), "-c", "--compile")
Links(argv) == Has(Args(argv), "-o", "--output")
LinkerGiven(argv) == Value(Args(argv), "-l", "--linker")

CompileOut(argv) ==
    LET cOut == Value(Args(argv), "-c", "--compile")
    IN IF cOut = "" THEN ObjectName[Input(argv)] ELSE cOut

OutputGiven(argv) == Value(Args(argv), "-o", "--output")
LinkOut(argv) ==
    IF OutputGiven(argv) = "" THEN Stem[Input(argv)] ELSE OutputGiven(argv)

\* Mutant: the comparison of input and output is missing.
RefusesBoth(argv) == Compiles(argv) /\ Links(argv)

\* The two checks that end the program before it parses: on two outputs at
\* once, and on the output as it was given, not as it is derived.  The names
\* are compared, letter by letter: two names of one file pass.
Refuses(argv) ==
    \/ Links(argv) /\ OutputGiven(argv) = Input(argv)
    \/ Compiles(argv) /\ Links(argv)

\* Where the IR is saved; "" stands for stderr.
Prints(argv) == Has(Args(argv), "-p", "--print-ir")
PrintOut(argv) == Value(Args(argv), "-p", "--print-ir")
=============================================================================
