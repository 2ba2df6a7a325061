---------------------------- MODULE MCToolchain ----------------------------
(***************************************************************************)
(* An instance of Toolchain for TLC: a directory with a source file, one   *)
(* without an extension, and an object file, and command lines for each    *)
(* thing that pudl can be asked for.                                       *)
(***************************************************************************)
EXTENDS Toolchain

Inputs == {"foo", "./foo", "foo.pudl", "foo.o"}
SomeStem == [name \in Inputs |-> "foo"]
SomeObjectName == [name \in Inputs |-> "foo.o"]
SomeResolve ==
    [name \in Inputs \cup {"x", "-o"} |-> IF name = "./foo" THEN "foo" ELSE name]

\* Run a source or an object file, link one to a given output, compile and save
\* the IR, link to a derived output that is the input, by another name.
Jobs == {
    << <<"foo.pudl">> >>,
    << <<"foo.o">> >>,
    << <<"foo.o">>, <<"-o", "x">>, <<"-l">>, <<"g++">> >>,
    << <<"foo.pudl">>, <<"-p", "x">>, <<"-c">> >>,
    << <<"./foo">>, <<"--output">> >>}
\* Calls that end at once.
OddJobs == {
    <<>>,
    << <<"foo">>, <<"-o">>, <<"foo">> >>,
    << <<"foo">>, <<"-c">>, <<"-o">> >>,
    << <<"-o">>, <<"foo">> >>}
AllJobs == Jobs \cup OddJobs

SomeLinkers == <<"clang++">>
SomeInterpreters == <<"lli", "lli-18">>
=============================================================================
