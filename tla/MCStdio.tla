------------------------------ MODULE MCStdio ------------------------------
(***************************************************************************)
(* Two files and the terminal, up to two calls of fopen, buffers of two    *)
(* bytes.                                                                  *)
(***************************************************************************)
EXTENDS Stdio

MCBytes == {"z", "n"}
MCFiles == ("p" :> <<>>) @@ ("q" :> <<>>)

\* One program works on one stream, which it reopens as it likes; another opens
\* and closes streams and writes to them.
MCPrograms ==
  {[bytes |-> 2, paths |-> {"p"}, modes |-> Modes, offsets |-> {-1, 0, 1}, careful |-> TRUE,
    calls |-> {"fputc", "fwrite", "fflush", "fgetc", "ungetc", "fseek", "ftell", "clearerr",
               "setvbuf", "fclose", "freopen"}],
   [bytes |-> 2, paths |-> {"p", "q"}, modes |-> {m \in Modes : m.kind # "r" /\ ~m.update},
    offsets |-> {}, careful |-> TRUE, calls |-> {"fopen", "fputc", "fclose", "atexit"}]}

\* The same programs, which seek whatever is unread.
CarelessPrograms == {[g EXCEPT !.careful = FALSE] : g \in MCPrograms}
=============================================================================
