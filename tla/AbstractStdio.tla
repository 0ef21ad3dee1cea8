--------------------------- MODULE AbstractStdio ---------------------------
(***************************************************************************)
(* What <stdio.h> promises a program (C11 7.21), without buffers: a stream *)
(* is a position in a file, a byte put is in the file at once, a byte got  *)
(* comes from the position, and a normal exit loses nothing.  A call that  *)
(* reports a failure may have stored a part of what it was given.          *)
(***************************************************************************)
EXTENDS Integers, Sequences, TLC

CONSTANTS
  Streams,     \* stream objects
  Paths,       \* files
  Seekable,    \* those that have places to seek
  Bytes,       \* byte values
  Zero,        \* what a place holds that nothing was put to
  Offsets,     \* what is given to fseek
  Closed       \* the state of a stream that is not open

VARIABLES
  contents,    \* the bytes of each file
  streams,     \* [path, pos, append, pushed] of each open stream
  call,        \* the last call: its name, its stream and what it was given
  reply,       \* what it returned: "ok", "failed", a place or a byte
  ended        \* whether the program has terminated

vars == <<contents, streams, call, reply, ended>>

Open(s) == streams[s] # Closed

\* Bytes bs in file c from position p on.
Overlay(c, p, bs) ==
  IF bs = <<>> THEN c
  ELSE [i \in 1..(IF p + Len(bs) > Len(c) THEN p + Len(bs) ELSE Len(c)) |->
          IF i > p /\ i <= p + Len(bs) THEN bs[i - p] ELSE IF i <= Len(c) THEN c[i] ELSE Zero]

Stored(s, bs) ==
  LET st == streams[s]
  IN IF st.append THEN contents[st.path] \o bs ELSE Overlay(contents[st.path], st.pos, bs)

\* An appending stream is at the end of the file once it has written.
After(s, bs) ==
  [streams[s] EXCEPT !.pos = IF bs = <<>> THEN @
                             ELSE IF streams[s].append THEN Len(Stored(s, bs)) ELSE @ + Len(bs)]

Put(s, bs) ==
  /\ reply' \in {"ok", "failed"}
  /\ \E n \in 0..Len(bs) :
       /\ contents' = [contents EXCEPT ![streams[s].path] = Stored(s, SubSeq(bs, 1, n))]
       /\ streams' = [streams EXCEPT ![s] = After(s, SubSeq(bs, 1, n))]
       /\ reply' = "ok" => n = Len(bs)
  /\ UNCHANGED ended

GetPushed(s) ==
  /\ streams[s].pushed # <<>>
  /\ reply' = Head(streams[s].pushed)
  /\ streams' = [streams EXCEPT ![s].pushed = Tail(@), ![s].pos = @ + 1]
  /\ UNCHANGED <<contents, ended>>

GetFromFile(s) ==
  LET st == streams[s]
  IN /\ st.pushed = <<>> /\ st.pos < Len(contents[st.path])
     /\ reply' = contents[st.path][st.pos + 1]
     /\ streams' = [streams EXCEPT ![s].pos = @ + 1]
     /\ UNCHANGED <<contents, ended>>

\* The end of the file, or a read error.
GetNothing(s) ==
  /\ streams[s].pushed = <<>> /\ reply' = "failed"
  /\ UNCHANGED <<contents, streams, ended>>

Unget(s, b) ==
  /\ reply' = "ok"
  /\ streams' = [streams EXCEPT ![s].pushed = <<b>> \o @, ![s].pos = @ - 1]
  /\ UNCHANGED <<contents, ended>>

\* From the start of the file, from where the stream is, from the end.
Whences == {"set", "cur", "end"}
Place(s, whence, offset) ==
  offset + (IF whence = "set" THEN 0 ELSE IF whence = "cur" THEN streams[s].pos
            ELSE Len(contents[streams[s].path]))

\* The stream is where it was asked to be, or where it was.
Seek(s, whence, offset) ==
  /\ UNCHANGED <<contents, ended>>
  /\ IF streams[s].path \in Seekable /\ Place(s, whence, offset) >= 0
     THEN /\ reply' = "ok"
          /\ streams' = [streams EXCEPT ![s].pos = Place(s, whence, offset), ![s].pushed = <<>>]
     ELSE reply' = "failed" /\ UNCHANGED streams

Tell(s) ==
  /\ reply' = IF streams[s].path \in Seekable THEN ToString(streams[s].pos) ELSE "failed"
  /\ UNCHANGED <<contents, streams, ended>>

\* A call that changes nothing the program can see, and one that is refused.
Observe == UNCHANGED <<contents, streams, ended>> /\ reply' \in {"ok", "failed"}
Refuse == UNCHANGED <<contents, streams, ended>> /\ reply' = "failed"

\* A mode of kind "w" empties the file, one of kind "a" puts at its end.
OpenFile(s, p, kind) ==
  /\ reply' = "ok"
  /\ streams' = [streams EXCEPT ![s] = [path |-> p, pos |-> 0, append |-> kind = "a",
                                        pushed |-> <<>>]]
  /\ contents' = IF kind = "w" THEN [contents EXCEPT ![p] = <<>>] ELSE contents
  /\ UNCHANGED ended

\* A close that reports a failure may have lost what was not yet written.
CloseFile(s) ==
  /\ streams' = [streams EXCEPT ![s] = Closed]
  /\ \/ reply' = "ok" /\ UNCHANGED contents
     \/ reply' = "failed" /\ \A p \in Paths \ {streams[s].path} : contents'[p] = contents[p]
  /\ UNCHANGED ended

\* exit() keeps what was put; abort(), _Exit() and quick_exit() need not.
Exit == ended' = TRUE /\ reply' = "exited" /\ UNCHANGED <<contents, streams>>
Quit == ended' = TRUE /\ reply' = "quit" /\ UNCHANGED streams

Init ==
  /\ DOMAIN contents = Paths
  /\ \A s \in Streams : streams[s] # Closed => streams[s].pos = 0 /\ streams[s].pushed = <<>>
  /\ call = <<"start">> /\ reply = "ok" /\ ended = FALSE

Runs == {<<a>> : a \in Bytes} \cup {<<a, b>> : a, b \in Bytes}
Kinds == {"r", "w", "a"}

\* Each call does what it was asked to do.
OnStream(s) ==
  \/ \E bs \in Runs : call' = <<"put", s, bs>> /\ Put(s, bs)
  \/ call' = <<"get", s>> /\ (GetPushed(s) \/ GetFromFile(s) \/ GetNothing(s))
  \/ \E b \in Bytes : call' = <<"unget", s, b>> /\ (Unget(s, b) \/ Refuse)
  \/ \E whence \in Whences, offset \in Offsets :
       call' = <<"seek", s, whence, offset>> /\ Seek(s, whence, offset)
  \/ call' = <<"tell", s>> /\ Tell(s)
  \/ call' \in {<<"fflush", s>>, <<"clearerr", s>>, <<"setvbuf", s>>} /\ Observe
  \/ call' = <<"close", s>> /\ CloseFile(s)
  \/ \E p \in Paths, kind \in Kinds :
       /\ call' = <<"reopen", s, p, kind>>
       /\ OpenFile(s, p, kind) \/ (reply' = "failed" /\ CloseFile(s))

Step ==
  \/ \E s \in Streams : Open(s) /\ OnStream(s)
  \/ \E s \in Streams, p \in Paths, kind \in Kinds :
       call' = <<"open", s, p, kind>> /\ ~Open(s) /\ OpenFile(s, p, kind)
  \/ call' = <<"atexit">> /\ Observe
  \/ call' = <<"exit">> /\ Exit
  \/ call' = <<"quit">> /\ Quit

Next == ~ended /\ Step
Spec == Init /\ [][Next]_vars
=============================================================================
