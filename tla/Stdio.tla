------------------------------- MODULE Stdio -------------------------------
(***************************************************************************)
(* runtime/src/stdio_core.c over the host's sys_fs, with the termination   *)
(* of stdlib_core.c: buffered streams, the registry of open streams, and   *)
(* exit(), which runs the atexit handlers and then the hook by which stdio *)
(* flushes.  The program that calls them is any that keeps to C's rules    *)
(* for streams; a handler of atexit may do what the program may.           *)
(***************************************************************************)
EXTENDS Integers, Sequences, FiniteSetsExt, TLC

CONSTANTS
  Paths,        \* files the program opens, besides the terminal
  Bytes,        \* byte values, LineFeed and Zero among them
  LineFeed,
  Zero,         \* what the host fills a gap with
  InitialFiles, \* what the files hold when the program starts
  BufferSize,   \* BUFSIZ
  StreamsMax,   \* _STREAMS_MAX: slots of the registry
  AtexitMax,    \* _ATEXIT_MAX: slots of the handler table
  MaxOpens,     \* bound: calls of fopen
  Programs      \* bounds: [calls, paths, modes, bytes, offsets, careful], the calls
                \* a program makes besides those that end it, what it opens and
                \* how, the bytes in all files and buffers and the places it
                \* seeks, the offsets it seeks by, and whether it takes care not
                \* to seek by what is unread (Fseek)

Terminal == "terminal"
Modes == [kind : {"r", "w", "a"}, update : BOOLEAN]     \* parse_mode: r, w and a, each with or without +

ASSUME BoundsAssumption ==
  /\ BufferSize \in Nat \ {0} /\ StreamsMax \in Nat /\ AtexitMax \in Nat
  /\ MaxOpens \in Nat /\ LineFeed \in Bytes /\ Zero \in Bytes

ASSUME FilesAssumption ==
  /\ Terminal \notin Paths /\ "none" \notin Paths
  /\ DOMAIN InitialFiles = Paths /\ \A p \in Paths : InitialFiles[p] \in Seq(Bytes)
  /\ \A g \in Programs : g.paths \subseteq Paths /\ g.modes \subseteq Modes /\ g.offsets \subseteq Int

Stdout == 0
Streams == 0..MaxOpens     \* FILE objects: stdout, then one for each fopen

VARIABLES
  program,    \* which program runs
  files,      \* the bytes the host holds of each file
  fds,        \* the descriptor of each stream: [path, off, append]
  streams,    \* the FILE objects
  registry,   \* __open_streams
  hook,       \* whether stdio has registered __stdio_exit
  handlers,   \* __atexit_count
  phase,      \* "running", "exiting", "handler" or "ended"
  opened,     \* calls of fopen so far
  call,       \* the last call, with what it was given
  reply,      \* what it returned
  last,       \* what the program last did with each stream
  back        \* of each stream, how many unread bytes were pushed back

vars == <<program, files, fds, streams, registry, hook, handlers, phase, opened, call, reply, last, back>>

NoStream == -1
Absent == [flags |-> {}, wbuf |-> <<>>, wsize |-> 0, rbuf |-> <<>>, rpos |-> 0, ralloc |-> FALSE]
NoFd == [path |-> "none", off |-> 0, append |-> FALSE]
Open(s) == fds[s] # NoFd

(***************************************************************************)
(* One call works on the FILE f, its descriptor fd and the bytes c of the  *)
(* file; ok counts the host writes that succeed before one fails.          *)
(***************************************************************************)
\* sys_fs.write of bs at p: the rest stays as it is, a gap before p is filled.
Overlay(c, p, bs) ==
  IF bs = <<>> THEN c
  ELSE [i \in 1..(IF p + Len(bs) > Len(c) THEN p + Len(bs) ELSE Len(c)) |->
          IF i > p /\ i <= p + Len(bs) THEN bs[i - p] ELSE IF i <= Len(c) THEN c[i] ELSE Zero]

AllSucceed == 9
Work(s, ok) ==
  [f |-> streams[s], fd |-> fds[s], c |-> files[fds[s].path], ok |-> ok, eof |-> FALSE]

\* sys_fs.write: all of the bytes, or a failure.
HostWrite(r, bs) ==
  LET at == IF r.fd.append THEN Len(r.c) ELSE r.fd.off
  IN IF r.ok = 0 THEN [r EXCEPT !.eof = TRUE, !.ok = AllSucceed, !.f.flags = @ \cup {"err"}]
     ELSE [r EXCEPT !.ok = @ - 1, !.c = Overlay(@, at, bs), !.fd.off = at + Len(bs)]

\* Fault: the buffer is not emptied.
FlushWriteBufKept(r) == IF r.f.wbuf = <<>> THEN r ELSE HostWrite(r, r.f.wbuf)

\* flush_write_buf
FlushWriteBuf(r) ==
  IF r.f.wbuf = <<>> THEN r
  ELSE LET w == HostWrite(r, r.f.wbuf) IN IF w.eof THEN w ELSE [w EXCEPT !.f.wbuf = <<>>]

LazyInit(r) ==
  IF "inited" \in r.f.flags THEN r
  ELSE LET buffered == "unbuf" \notin r.f.flags
           writes == buffered /\ "write" \in r.f.flags
           reads == buffered /\ "read" \in r.f.flags
       IN [r EXCEPT !.f.flags = @ \cup {"inited"},
                    !.f.wsize = IF writes THEN BufferSize ELSE @,
                    !.f.ralloc = @ \/ reads]

Direct(r) == "unbuf" \in r.f.flags \/ r.f.wsize = 0

\* The buffered part of fputc, and of the loop of fwrite.
Buffer(r, b) ==
  LET room == IF Len(r.f.wbuf) >= r.f.wsize THEN FlushWriteBuf(r) ELSE r
      held == [room EXCEPT !.f.wbuf = Append(@, b)]
  IN IF room.eof THEN room
     ELSE IF "linebuf" \in r.f.flags /\ b = LineFeed THEN FlushWriteBuf(held) ELSE held

\* fputc; fwrite of several bytes, which writes them at once when unbuffered.
PutBytes(r, bs) ==
  LET one == Buffer(r, bs[1])
  IN IF Direct(r) THEN HostWrite(r, bs)
     ELSE IF Len(bs) = 1 \/ one.eof THEN one ELSE Buffer(one, bs[2])

\* refill_read_buf when the host reads n bytes.
Refill(r, n) ==
  IF "read" \notin r.f.flags \/ ~r.f.ralloc THEN [r EXCEPT !.eof = TRUE]
  ELSE IF n = 0 THEN [r EXCEPT !.eof = TRUE, !.f.flags = @ \cup {"eof"}]
  ELSE [r EXCEPT !.f.rbuf = SubSeq(r.c, r.fd.off + 1, r.fd.off + n), !.f.rpos = 0,
                 !.fd.off = @ + n]

ReadError(r) ==
  [r EXCEPT !.eof = TRUE,
            !.f.flags = IF "read" \in @ /\ r.f.ralloc THEN @ \cup {"err"} ELSE @]

(***************************************************************************)
(* What the program may do (C11 7.21.5.3p7): output is not followed by     *)
(* input without a flush or a seek, nor input by output without a seek     *)
(* unless the input met the end of the file.  The bytes stay within a bound.*)
(***************************************************************************)
Running == phase \in {"running", "handler"}
Calls(name) == Running /\ name \in program.calls
Usable(s, name) == Calls(name) /\ Open(s)
Unread(s) == Len(streams[s].rbuf) - streams[s].rpos
Held == MapThenSumSet(LAMBDA p : Len(files[p]), DOMAIN files)
          + MapThenSumSet(LAMBDA s : Len(streams[s].wbuf), Streams)
\* A stream beyond the end of its file leaves a gap before what it puts.
Gap(s) ==
  LET beyond == fds[s].off - Len(files[fds[s].path])
  IN IF beyond > 0 /\ ~fds[s].append THEN beyond ELSE 0
Room(n) == Held + n <= program.bytes
MayWrite(s) == last[s] # "read" \/ ("eof" \in streams[s].flags /\ Unread(s) = 0)
MayRead(s) == last[s] # "write"

\* The state after a call on stream s that left r; did is what it was.
Commit(s, r, did) ==
  /\ streams' = [streams EXCEPT ![s] = r.f]
  /\ fds' = [fds EXCEPT ![s] = r.fd]
  /\ files' = [files EXCEPT ![r.fd.path] = r.c]
  /\ last' = [last EXCEPT ![s] = did]
  /\ UNCHANGED <<program, registry, handlers, phase, opened>>

Answer(r) == reply' = IF r.eof THEN "failed" ELSE "ok"

\* Fault: only reading registers it.
RegistersReaders(s) == hook' = (hook \/ "read" \in streams[s].flags)

\* lazy_init registers __stdio_exit with exit() once a write stream is used.
Registers(s) ==
  hook' = (hook \/ ("write" \in streams[s].flags /\ "inited" \notin streams[s].flags))

Put(s, bs, ok) ==
  /\ Open(s) /\ MayWrite(s) /\ Room(Gap(s) + Len(bs))
  /\ call' = <<"put", s, bs>>
  /\ IF "write" \notin streams[s].flags
     THEN reply' = "failed"
          /\ UNCHANGED <<program, files, fds, streams, registry, hook, handlers, phase, opened, last, back>>
     ELSE \E r \in {PutBytes(LazyInit(Work(s, ok)), bs)} :
            Commit(s, r, "write") /\ Answer(r) /\ Registers(s) /\ UNCHANGED back

Fputc(s) == Usable(s, "fputc") /\ \E b \in Bytes, ok \in {0, AllSucceed} : Put(s, <<b>>, ok)
Fwrite(s) == Usable(s, "fwrite") /\ \E a, b \in Bytes, ok \in {0, 1, AllSucceed} : Put(s, <<a, b>>, ok)

Fflush(s) ==
  /\ Usable(s, "fflush") /\ last[s] # "read"
  /\ \E ok \in {0, AllSucceed} : \E r \in {FlushWriteBuf(Work(s, ok))} :
       Commit(s, r, IF r.eof THEN last[s] ELSE "none") /\ Answer(r)
  /\ call' = <<"fflush", s>> /\ UNCHANGED <<hook, back>>

FgetcBuffered(s) ==
  /\ Usable(s, "fgetc") /\ MayRead(s) /\ Unread(s) > 0
  /\ call' = <<"get", s>>
  /\ reply' = streams[s].rbuf[streams[s].rpos + 1]
  /\ Commit(s, [Work(s, AllSucceed) EXCEPT !.f.rpos = @ + 1], "read")
  /\ back' = [back EXCEPT ![s] = IF @ > 0 THEN @ - 1 ELSE 0]
  /\ UNCHANGED hook

\* sys_fs.read gives some of the bytes there are, or fails.
FgetcRefill(s) ==
  /\ Usable(s, "fgetc") /\ MayRead(s) /\ Unread(s) = 0
  /\ call' = <<"get", s>>
  /\ LET there == Len(files[fds[s].path]) - fds[s].off
         most == IF there > BufferSize THEN BufferSize ELSE there
         r0 == LazyInit(Work(s, AllSucceed))
     IN \E n \in (IF most <= 0 THEN {0} ELSE 1..most) :
        \E r \in {Refill(r0, n), ReadError(r0)} :
          IF r.eof THEN Commit(s, r, "read") /\ reply' = "failed"
          ELSE Commit(s, [r EXCEPT !.f.rpos = 1], "read") /\ reply' = r.f.rbuf[1]
  /\ Registers(s) /\ UNCHANGED back

Ungetc(s, b) ==
  /\ Usable(s, "ungetc") /\ MayRead(s)
  /\ call' = <<"unget", s, b>>
  /\ LET f == streams[s]
     IN IF f.ralloc /\ f.rpos > 0
        THEN /\ Commit(s, [Work(s, AllSucceed) EXCEPT
                             !.f.rbuf[f.rpos] = b, !.f.rpos = @ - 1,
                             !.f.flags = @ \ {"eof"}], "read")
             /\ reply' = "ok" /\ back' = [back EXCEPT ![s] = @ + 1] /\ UNCHANGED hook
        ELSE reply' = "failed"
             /\ UNCHANGED <<program, files, fds, streams, registry, hook, handlers, phase, opened, last, back>>

\* sys_fs.lseek: a place before the file is refused, one beyond its end is not.
Whences == {"set", "cur", "end"}
Base(r, whence) ==
  IF whence = "set" THEN 0 ELSE IF whence = "cur" THEN r.fd.off ELSE Len(r.c)
Seeks(r, to) == r.fd.path # Terminal /\ to >= 0

\* The offset counts from where the host has read to, and what was unread is gone
\* even when the host refuses.  A careful program has nothing unread when it
\* seeks from where it is or where the host refuses; none seeks after an error
\* it has not cleared, nor does the host fail while fseek flushes (README).
Fseek(s, whence, offset) ==
  /\ Usable(s, "fseek") /\ "err" \notin streams[s].flags
  /\ \E r \in {FlushWriteBuf(Work(s, AllSucceed))} : \E to \in {Base(r, whence) + offset} :
       /\ to <= program.bytes
       /\ program.careful => Unread(s) = 0 \/ (whence # "cur" /\ Seeks(r, to))
       /\ Commit(s, [r EXCEPT !.f.rpos = 0, !.f.rbuf = <<>>, !.f.flags = @ \ {"eof"},
                              !.fd.off = IF Seeks(r, to) THEN to ELSE @],
                 IF Seeks(r, to) THEN "none" ELSE last[s])
       /\ reply' = IF Seeks(r, to) THEN "ok" ELSE "failed"
  /\ call' = <<"seek", s, whence, offset>> /\ back' = [back EXCEPT ![s] = 0] /\ UNCHANGED hook

\* Not between a write in append mode and its flush (README).
Ftell(s) ==
  /\ Usable(s, "ftell") /\ ~(fds[s].append /\ streams[s].wbuf # <<>>)
  /\ call' = <<"tell", s>>
  /\ reply' = IF fds[s].path = Terminal THEN "failed"
              ELSE ToString(fds[s].off - Unread(s) + Len(streams[s].wbuf))
  /\ UNCHANGED <<program, files, fds, streams, registry, hook, handlers, phase, opened, last, back>>

Clearerr(s) ==
  /\ Usable(s, "clearerr") /\ Commit(s, [Work(s, AllSucceed) EXCEPT !.f.flags = @ \ {"eof", "err"}], last[s])
  /\ call' = <<"clearerr", s>> /\ reply' = "ok" /\ UNCHANGED <<hook, back>>

\* Before anything else is done with the stream; own is the program's buffer.
Setvbuf(s, mode, own) ==
  /\ Usable(s, "setvbuf") /\ "inited" \notin streams[s].flags
  /\ LET r == LazyInit(Work(s, AllSucceed))
         takes == mode # "unbuf" /\ own > 0
     IN Commit(s, [r EXCEPT !.f.flags = (@ \ {"linebuf", "unbuf"})
                              \cup ({mode} \cap {"linebuf", "unbuf"})
                              \cup (IF takes THEN {"userbuf"} ELSE {}),
                            !.f.wsize = IF takes THEN own ELSE @], last[s])
  /\ call' = <<"setvbuf", s>> /\ reply' = "ok" /\ Registers(s) /\ UNCHANGED back

(***************************************************************************)
(* fopen, freopen, fclose                                                  *)
(***************************************************************************)
FlagsOf(m) ==
  (IF m.update \/ m.kind = "r" THEN {"read"} ELSE {})
    \cup (IF m.update \/ m.kind # "r" THEN {"write"} ELSE {})

FreePath(p, s) == \A t \in Streams \ {s} : fds[t].path # p

\* sys_fs.open of path p for stream s: the host truncates for w.
HostOpen(s, p, m, file) ==
  /\ FreePath(p, s)
  /\ fds' = [fds EXCEPT ![s] = [path |-> p, off |-> 0, append |-> m.kind = "a"]]
  /\ files' = IF m.kind = "w" THEN [file EXCEPT ![p] = <<>>] ELSE file
  /\ last' = [last EXCEPT ![s] = "none"] /\ back' = [back EXCEPT ![s] = 0]

Fopen(p, m) ==
  /\ Calls("fopen") /\ opened < MaxOpens
  /\ LET s == opened + 1
     IN /\ HostOpen(s, p, m, files)
        /\ streams' = [streams EXCEPT ![s] = [Absent EXCEPT !.flags = FlagsOf(m)]]
        /\ registry' = IF Len(registry) < StreamsMax THEN Append(registry, s) ELSE registry
        /\ opened' = s /\ call' = <<"open", s, p, m.kind>>
  /\ reply' = "ok" /\ UNCHANGED <<program, hook, handlers, phase>>

Unregistered(s) ==
  LET at == {i \in DOMAIN registry : registry[i] = s}
  IN [i \in DOMAIN registry |->
        IF at # {} /\ i = (CHOOSE k \in at : \A j \in at : k <= j) THEN NoStream ELSE registry[i]]

\* The stream, its descriptor and what the program knew of it are gone.
Gone(s) ==
  /\ streams' = [streams EXCEPT ![s] = Absent]
  /\ fds' = [fds EXCEPT ![s] = NoFd]
  /\ last' = [last EXCEPT ![s] = "none"] /\ back' = [back EXCEPT ![s] = 0]
  /\ registry' = Unregistered(s)
  /\ UNCHANGED <<program, hook, handlers, phase, opened>>

Fclose(s) ==
  /\ Usable(s, "fclose") /\ call' = <<"close", s>>
  /\ \E ok \in {0, AllSucceed}, closes \in BOOLEAN :
     \E r \in {FlushWriteBuf(Work(s, ok))} :
       /\ files' = [files EXCEPT ![r.fd.path] = r.c]
       /\ reply' = IF r.eof \/ ~closes THEN "failed" ELSE "ok"
  /\ Gone(s)

\* The old file is flushed and closed, the FILE keeps its place in the registry.
Freopen(s, p, m) ==
  /\ Usable(s, "freopen") /\ call' = <<"reopen", s, p, m.kind>>
  /\ \E r \in {FlushWriteBuf(Work(s, AllSucceed))} :
       LET flushed == [files EXCEPT ![r.fd.path] = r.c]
       IN \/ /\ HostOpen(s, p, m, flushed)
             /\ streams' = [streams EXCEPT ![s] =
                  [r.f EXCEPT !.flags = FlagsOf(m), !.wbuf = <<>>, !.rbuf = <<>>, !.rpos = 0]]
             /\ reply' = "ok" /\ UNCHANGED <<program, registry, hook, handlers, phase, opened>>
          \/ files' = flushed /\ reply' = "failed" /\ Gone(s)

(***************************************************************************)
(* Termination                                                             *)
(***************************************************************************)
Still == UNCHANGED <<program, files, fds, streams, registry, hook, opened, last, back>>

Atexit ==
  /\ Calls("atexit")
  /\ IF handlers < AtexitMax THEN handlers' = handlers + 1 /\ reply' = "ok"
     ELSE UNCHANGED handlers /\ reply' = "failed"
  /\ call' = <<"atexit">> /\ UNCHANGED phase /\ Still

\* exit() is called once; a handler returns to it.
Exit == phase = "running" /\ phase' = "exiting" /\ UNCHANGED <<handlers, call, reply>> /\ Still

RunHandler ==
  /\ phase = "exiting" /\ handlers > 0
  /\ handlers' = handlers - 1 /\ phase' = "handler"
  /\ UNCHANGED <<call, reply>> /\ Still

HandlerReturns ==
  phase = "handler" /\ phase' = "exiting" /\ UNCHANGED <<handlers, call, reply>> /\ Still

\* __stdio_exit: stdout first, then the registered streams.
Flushed == {Stdout} \cup {registry[i] : i \in DOMAIN registry}

StdioExit ==
  LET written(s) == IF Open(s) /\ s \in Flushed THEN FlushWriteBuf(Work(s, AllSucceed))
                    ELSE Work(s, AllSucceed)
  IN /\ files' = [p \in DOMAIN files |->
                    IF \E s \in Streams : Open(s) /\ fds[s].path = p
                    THEN written(CHOOSE s \in Streams : Open(s) /\ fds[s].path = p).c
                    ELSE files[p]]
     /\ streams' = [s \in Streams |-> IF Open(s) THEN written(s).f ELSE streams[s]]
     /\ fds' = [s \in Streams |-> IF Open(s) THEN written(s).fd ELSE fds[s]]

SysExit ==
  /\ phase = "exiting" /\ handlers = 0
  /\ IF hook THEN StdioExit ELSE UNCHANGED <<files, streams, fds>>
  /\ phase' = "ended" /\ call' = <<"exit">> /\ reply' = "exited"
  /\ UNCHANGED <<program, registry, hook, handlers, opened, last, back>>

\* abort, _Exit and quick_exit do not flush.
Quit ==
  /\ Running /\ phase' = "ended" /\ call' = <<"quit">> /\ reply' = "quit"
  /\ UNCHANGED handlers /\ Still

Init ==
  /\ program \in Programs
  /\ files = [p \in Paths \cup {Terminal} |-> IF p = Terminal THEN <<>> ELSE InitialFiles[p]]
  /\ streams = [s \in Streams |-> IF s = Stdout THEN [Absent EXCEPT !.flags = {"write", "linebuf"}]
                                  ELSE Absent]
  /\ fds = [s \in Streams |-> IF s = Stdout THEN [NoFd EXCEPT !.path = Terminal] ELSE NoFd]
  /\ registry = <<>> /\ hook = FALSE /\ handlers = 0 /\ phase = "running" /\ opened = 0
  /\ call = <<"start">> /\ reply = "ok"
  /\ last = [s \in Streams |-> "none"] /\ back = [s \in Streams |-> 0]

Next ==
  \/ \E s \in Streams :
       \/ Fputc(s) \/ Fwrite(s) \/ Fflush(s) \/ FgetcBuffered(s) \/ FgetcRefill(s)
       \/ \E b \in Bytes : Ungetc(s, b)
       \/ \E whence \in Whences, offset \in program.offsets : Fseek(s, whence, offset)
       \/ Ftell(s) \/ Clearerr(s)
       \/ Setvbuf(s, "full", 1) \/ Setvbuf(s, "linebuf", 0) \/ Setvbuf(s, "unbuf", 1)
       \/ Fclose(s)
       \/ \E p \in program.paths, m \in program.modes : Freopen(s, p, m)
  \/ \E p \in program.paths, m \in program.modes : Fopen(p, m)
  \/ Atexit \/ Exit \/ RunHandler \/ HandlerReturns \/ SysExit \/ Quit

Spec == Init /\ [][Next]_vars

(***************************************************************************)
(* Stdio implements AbstractStdio with what the buffers hold counted in.   *)
(***************************************************************************)
\* The open stream of a path, and the bytes of the file when it is flushed.
StreamOf(p) == CHOOSE s \in Streams : Open(s) /\ fds[s].path = p
Flushing(s) ==
  LET bytes == files[fds[s].path]
      pending == streams[s].wbuf
  IN IF fds[s].append THEN bytes \o pending ELSE Overlay(bytes, fds[s].off, pending)

Contents ==
  [p \in DOMAIN files |->
     IF phase # "ended" /\ \E s \in Streams : Open(s) /\ fds[s].path = p
     THEN Flushing(StreamOf(p)) ELSE files[p]]

Position(s) ==
  IF fds[s].append /\ streams[s].wbuf # <<>> THEN Len(Flushing(s))
  ELSE fds[s].off - Unread(s) + Len(streams[s].wbuf)

Closed == [path |-> "none", pos |-> 0, append |-> FALSE, pushed |-> <<>>]
View(s) ==
  IF ~Open(s) THEN Closed
  ELSE [path |-> fds[s].path, pos |-> Position(s), append |-> fds[s].append,
        pushed |-> SubSeq(streams[s].rbuf, streams[s].rpos + 1, streams[s].rpos + back[s])]

Promised == INSTANCE AbstractStdio
  WITH Paths <- Paths \cup {Terminal}, Seekable <- Paths,
       Offsets <- UNION {g.offsets : g \in Programs},
       contents <- Contents, streams <- [s \in Streams |-> View(s)], ended <- (phase = "ended")

\* The buffered streams do what streams without buffers do: reads and writes
\* meet the bytes and the positions they should, whatever was flushed when, a
\* loss is reported by the call that loses, and exit() loses nothing.
ImplementsStdio == Promised!Spec

\* What a stream holds back, exit() will reach: the stream is stdout or in the
\* registry, and stdio has registered its hook (register_stream, lazy_init).
HeldIsFlushedAtExit ==
  \A s \in Streams :
    (phase # "ended" /\ streams[s].wbuf # <<>>) => (hook /\ s \in Flushed)
=============================================================================
