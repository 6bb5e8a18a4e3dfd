------------------------------- MODULE MCJsh -------------------------------
(* Small instances of Jsh for TLC. *)
EXTENDS Jsh

\* Lines that reach every branch of the shell.
MCLines == {
    <<"src", "|", "cat", "|", "cat", ">", "file">>,
    <<"cat", "<", "file", "|", "src", ">>", "file">>,
    <<"cd", "dir">>,
    <<"src", "|", "src", "&", "|", "cat">>,
    <<"exit">>,
    <<"|", "cat">>,
    <<"&">>,
    <<"src", ">">>,
    <<"src", "|", "cat", "&">>}

\* One pipeline.
MCPipeline == {<<"src", "|", "cat">>}
=============================================================================
