----------------------------- MODULE MCWorkflowRun -----------------------------
(* TLC instances of WorkflowRun. *)
EXTENDS WorkflowRun

\* Two prompts in a row and two single ones, and what they do with other args.
MixedScripts == {<< <<"a", "b">>, <<"c">>, <<"a">> >>,
                 << <<"a", "d">>, <<"a">>, <<"c">> >>}

\* parallel() over three different prompts.
ParallelScript == {<< <<"a">>, <<"b">>, <<"c">> >>}

\* pipeline(): two stages for each of two items.
PipelineScript == {<< <<"a", "b">>, <<"c", "d">> >>}

\* A main program of four calls, with a repeated prompt.
SequentialScript == {<< <<"a", "b", "a", "c">> >>}

\* A program whose second call depends on its args.
ArgsScripts == {<< <<"a", "b">> >>, << <<"a", "c">> >>}
================================================================================
