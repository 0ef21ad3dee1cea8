---------------------------- MODULE Stdio_proofs ----------------------------
(***************************************************************************)
(* Proofs about the buffered streams of stdio (Stdio): what each stream    *)
(* holds agrees with its flags and with what the program did with it, and  *)
(* exit() reaches what is held back, for every set of files, every buffer  *)
(* size and every program that opens no more streams than the registry     *)
(* holds; and the refinement of AbstractStdio.                             *)
(***************************************************************************)
EXTENDS Stdio, SequenceTheorems, TLAPS

AllFlags == {"read", "write", "linebuf", "unbuf", "userbuf", "inited", "err", "eof"}
AllPaths == Paths \cup {Terminal}
File == [flags : SUBSET AllFlags, wbuf : Seq(Bytes), wsize : Nat, rbuf : Seq(Bytes), rpos : Nat, ralloc : BOOLEAN]
Fd == [path : AllPaths, off : Nat, append : BOOLEAN]
\* the work of one call
Works == [f : File, fd : Fd, c : Seq(Bytes), ok : Nat, eof : BOOLEAN]

\* What a call that worked on r may have left, q: the same descriptor but for its offset, and nothing of what was read.
Follows(r, q) ==
  /\ q \in Works
  /\ q.fd.path = r.fd.path /\ q.fd.append = r.fd.append
  /\ q.f.rbuf = r.f.rbuf /\ q.f.rpos = r.f.rpos
  /\ q.f.flags \ {"err"} = r.f.flags \ {"err"} /\ q.f.wsize = r.f.wsize /\ q.f.ralloc = r.f.ralloc

\* Where the host writes.
At(r) == IF r.fd.append THEN Len(r.c) ELSE r.fd.off

\* The bytes of the file once the stream is flushed.
Meant(r) == IF r.fd.append THEN r.c \o r.f.wbuf ELSE Overlay(r.c, r.fd.off, r.f.wbuf)

-----------------------------------------------------------------------------
(* files and offsets *)

LEMMA OverlayType ==
  ASSUME NEW c \in Seq(Bytes), NEW p \in Nat, NEW bs \in Seq(Bytes)
  PROVE  /\ Overlay(c, p, bs) \in Seq(Bytes)
         /\ bs = <<>> => Overlay(c, p, bs) = c
         /\ bs # <<>> =>
              /\ Len(Overlay(c, p, bs)) = IF p + Len(bs) > Len(c) THEN p + Len(bs) ELSE Len(c)
              /\ \A i \in 1..Len(Overlay(c, p, bs)) :
                   Overlay(c, p, bs)[i] = IF i > p /\ i <= p + Len(bs) THEN bs[i - p]
                                          ELSE IF i <= Len(c) THEN c[i] ELSE Zero
<1>1. CASE bs = <<>>  BY <1>1 DEF Overlay
<1>2. CASE bs # <<>>
  <2> DEFINE n == IF p + Len(bs) > Len(c) THEN p + Len(bs) ELSE Len(c)
             at(i) == IF i > p /\ i <= p + Len(bs) THEN bs[i - p] ELSE IF i <= Len(c) THEN c[i] ELSE Zero
  <2>1. n \in Nat  OBVIOUS
  <2>2. ASSUME NEW i \in 1..n PROVE at(i) \in Bytes
    <3>1. CASE i > p /\ i <= p + Len(bs)
      <4>1. i - p \in 1..Len(bs)  BY <3>1
      <4>2. QED  BY <3>1, <4>1
    <3>2. CASE ~(i > p /\ i <= p + Len(bs)) /\ i <= Len(c)
      <4>1. i \in 1..Len(c)  BY <3>2
      <4>2. QED  BY <3>2, <4>1
    <3>3. CASE ~(i > p /\ i <= p + Len(bs)) /\ ~(i <= Len(c))  BY <3>3, BoundsAssumption
    <3>4. QED  BY <3>1, <3>2, <3>3
  <2>3. Overlay(c, p, bs) = [i \in 1..n |-> at(i)]
    BY <1>2 DEF Overlay
  <2> HIDE DEF n
  <2>4. Overlay(c, p, bs) \in [1..n -> Bytes]  BY <2>2, <2>3
  <2>5. Overlay(c, p, bs) \in Seq(Bytes) /\ Len(Overlay(c, p, bs)) = n  BY <2>1, <2>4
  <2>6. QED  BY <1>2, <2>3, <2>5 DEF n
<1>3. QED  BY <1>1, <1>2

\* Sequences of bytes are equal when their bytes are.
LEMMA SameSequence ==
  ASSUME NEW a \in Seq(Bytes), NEW b \in Seq(Bytes), Len(a) = Len(b), \A i \in 1..Len(a) : a[i] = b[i]
  PROVE  a = b
OBVIOUS

\* Writing no bytes changes nothing, wherever.
LEMMA OverlayNothing ==
  ASSUME NEW c, NEW p
  PROVE  Overlay(c, p, <<>>) = c
BY DEF Overlay

\* No bytes are those of a sequence without length.
LEMMA NoBytes ==
  ASSUME NEW a \in Seq(Bytes)
  PROVE  /\ <<>> \in Seq(Bytes) /\ Len(<<>>) = 0 /\ Len(a) \in Nat /\ (a = <<>> <=> Len(a) = 0)
         /\ a \o <<>> = a /\ <<>> \o a = a
OBVIOUS

\* Writing at the end appends.
LEMMA OverlayAtEnd ==
  ASSUME NEW c \in Seq(Bytes), NEW bs \in Seq(Bytes)
  PROVE  Overlay(c, Len(c), bs) = c \o bs
<1>1. CASE bs = <<>>  BY <1>1, NoBytes, OverlayNothing
<1>2. CASE bs # <<>>
  <2>1. Len(c) \in Nat /\ Len(bs) \in Nat  BY NoBytes
  <2>2. c \o bs \in Seq(Bytes) /\ Len(c \o bs) = Len(c) + Len(bs)
        /\ \A i \in 1..(Len(c) + Len(bs)) : (c \o bs)[i] = IF i <= Len(c) THEN c[i] ELSE bs[i - Len(c)]
    OBVIOUS
  <2>3. PICK cb \in Seq(Bytes) : cb = c \o bs  BY <2>2
  <2> DEFINE o == Overlay(c, Len(c), bs)
  <2>4. /\ o \in Seq(Bytes) /\ Len(o) = (IF Len(c) + Len(bs) > Len(c) THEN Len(c) + Len(bs) ELSE Len(c))
        /\ \A i \in 1..Len(o) : o[i] = IF i > Len(c) /\ i <= Len(c) + Len(bs) THEN bs[i - Len(c)]
                                      ELSE IF i <= Len(c) THEN c[i] ELSE Zero
    BY <1>2, <2>1, OverlayType
  <2> HIDE DEF o
  <2>5. Len(o) = Len(c) + Len(bs) /\ Len(cb) = Len(c) + Len(bs)  BY <2>1, <2>2, <2>3, <2>4
  <2>6. ASSUME NEW i \in 1..Len(o) PROVE o[i] = cb[i]
    <3>1. i \in 1..(Len(c) + Len(bs)) /\ i \in Nat  BY <2>1, <2>5
    <3>2. cb[i] = IF i <= Len(c) THEN c[i] ELSE bs[i - Len(c)]  BY <2>2, <2>3, <3>1
    <3>3. o[i] = IF i > Len(c) /\ i <= Len(c) + Len(bs) THEN bs[i - Len(c)] ELSE IF i <= Len(c) THEN c[i] ELSE Zero
      BY <2>4
    <3>4. i <= Len(c) + Len(bs) /\ (i <= Len(c) <=> ~(i > Len(c)))  BY <2>1, <3>1
    <3>5. QED  BY <3>2, <3>3, <3>4
  <2>8. o = cb  BY <2>3, <2>4, <2>5, <2>6, SameSequence
  <2>9. QED  BY <2>3, <2>8 DEF o
<1>3. QED  BY <1>1, <1>2

\* ab is a and then b, where the parts of a sequence do not matter.
Joins(a, b, ab) == ab = a \o b

\* Bytes written one part after the other are the bytes written at once.
LEMMA OverlayTwice ==
  ASSUME NEW c \in Seq(Bytes), NEW p \in Nat, NEW a \in Seq(Bytes), NEW b \in Seq(Bytes),
         NEW ab \in Seq(Bytes), Joins(a, b, ab)
  PROVE  Overlay(Overlay(c, p, a), p + Len(a), b) = Overlay(c, p, ab)
<1> DEFINE d == Overlay(c, p, a)
<1>a. CASE a = <<>>
  <2>1. d = c /\ p + Len(a) = p  BY <1>a, NoBytes, OverlayNothing
  <2>2. ab = b  BY <1>a, NoBytes DEF Joins
  <2>3. QED  BY <2>1, <2>2
<1>b. CASE b = <<>>
  <2>1. ab = a  BY <1>b, NoBytes DEF Joins
  <2>2. QED  BY <1>b, <2>1, OverlayNothing
<1>c. CASE a # <<>> /\ b # <<>>
  <2>0. Len(a) \in Nat \ {0} /\ Len(b) \in Nat \ {0} /\ Len(c) \in Nat  BY <1>c, NoBytes
  <2>1. d \in Seq(Bytes) /\ Len(d) = (IF p + Len(a) > Len(c) THEN p + Len(a) ELSE Len(c))
        /\ \A i \in 1..Len(d) : d[i] = IF i > p /\ i <= p + Len(a) THEN a[i - p]
                                      ELSE IF i <= Len(c) THEN c[i] ELSE Zero
    BY <1>c, OverlayType
  <2>2. a \o b \in Seq(Bytes) /\ Len(a \o b) = Len(a) + Len(b)
        /\ \A i \in 1..(Len(a) + Len(b)) : (a \o b)[i] = IF i <= Len(a) THEN a[i] ELSE b[i - Len(a)]
    OBVIOUS
  <2>3. ab = a \o b  BY DEF Joins
  <2>n. ab # <<>>  BY <2>0, <2>2, <2>3, NoBytes
  <2> HIDE DEF d
  <2>4. p + Len(a) \in Nat /\ p + Len(a) <= Len(d)  BY <2>0, <2>1
  <2> DEFINE e == Overlay(d, p + Len(a), b)
             g == Overlay(c, p, ab)
  <2>5. e \in Seq(Bytes) /\ Len(e) = (IF p + Len(a) + Len(b) > Len(d) THEN p + Len(a) + Len(b) ELSE Len(d))
        /\ \A i \in 1..Len(e) : e[i] = IF i > p + Len(a) /\ i <= p + Len(a) + Len(b) THEN b[i - (p + Len(a))]
                                      ELSE IF i <= Len(d) THEN d[i] ELSE Zero
    BY <1>c, <2>1, <2>4, OverlayType
  <2>6. g \in Seq(Bytes) /\ Len(g) = (IF p + Len(ab) > Len(c) THEN p + Len(ab) ELSE Len(c))
        /\ \A i \in 1..Len(g) : g[i] = IF i > p /\ i <= p + Len(ab) THEN ab[i - p]
                                      ELSE IF i <= Len(c) THEN c[i] ELSE Zero
    BY <2>3, <2>n, OverlayType
  <2> HIDE DEF e, g
  <2>7. Len(ab) = Len(a) + Len(b)  BY <2>2, <2>3
  <2>8. Len(e) = Len(g) /\ Len(e) \in Nat  BY <2>0, <2>1, <2>5, <2>6, <2>7
  <2>9. ASSUME NEW i \in 1..Len(e) PROVE e[i] = g[i]
    <3>0. i \in Nat /\ i \in 1..Len(g)  BY <2>8
    <3>1. CASE i <= p
      <4>1. e[i] = d[i] /\ i \in 1..Len(d)  BY <2>0, <2>4, <2>5, <3>0, <3>1
      <4>2. QED  BY <2>0, <2>1, <2>6, <3>0, <3>1, <4>1
    <3>2. CASE i > p /\ i <= p + Len(a)
      <4>1. i - p \in 1..Len(a)  BY <3>0, <3>2
      <4>2. ab[i - p] = a[i - p]
        <5>1. PICK j \in 1..(Len(a) + Len(b)) : j = i - p /\ j <= Len(a)  BY <2>0, <4>1
        <5>2. (a \o b)[j] = a[j]  BY <2>2, <5>1
        <5>3. QED  BY <2>3, <5>1, <5>2
      <4>3. g[i] = ab[i - p]
        <5>1. i > p /\ i <= p + Len(ab)  BY <2>0, <2>7, <3>0, <3>2
        <5>2. g[i] = IF i > p /\ i <= p + Len(ab) THEN ab[i - p] ELSE IF i <= Len(c) THEN c[i] ELSE Zero
          BY <2>6, <3>0
        <5>3. QED  BY <5>1, <5>2
      <4>4. e[i] = d[i] /\ i \in 1..Len(d)  BY <2>0, <2>4, <2>5, <3>0, <3>2
      <4>5. QED  BY <2>1, <3>2, <4>2, <4>3, <4>4
    <3>3. CASE i > p + Len(a) /\ i <= p + Len(a) + Len(b)
      <4>1. i - p \in 1..(Len(a) + Len(b)) /\ ~(i - p <= Len(a)) /\ (i - p) - Len(a) = i - (p + Len(a))
        BY <2>0, <3>0, <3>3
      <4>2. g[i] = ab[i - p]
        <5>1. i > p /\ i <= p + Len(ab)  BY <2>0, <2>7, <3>0, <3>3
        <5>2. g[i] = IF i > p /\ i <= p + Len(ab) THEN ab[i - p] ELSE IF i <= Len(c) THEN c[i] ELSE Zero
          BY <2>6, <3>0
        <5>3. QED  BY <5>1, <5>2
      <4>3. ab[i - p] = b[(i - p) - Len(a)]
        <5>1. PICK j \in 1..(Len(a) + Len(b)) : j = i - p /\ ~(j <= Len(a))  BY <4>1
        <5>2. (a \o b)[j] = b[j - Len(a)]  BY <2>2, <5>1
        <5>3. QED  BY <2>3, <5>1, <5>2
      <4>4. e[i] = b[i - (p + Len(a))]  BY <2>5, <3>3
      <4>5. QED  BY <4>1, <4>2, <4>3, <4>4
    <3>4. CASE i > p + Len(a) + Len(b)
      <4>1. i <= Len(c) /\ i <= Len(d)  BY <2>0, <2>1, <2>5, <2>8, <3>0, <3>4
      <4>2. e[i] = d[i] /\ i \in 1..Len(d)  BY <2>0, <2>5, <3>0, <3>4, <4>1
      <4>3. d[i] = c[i]  BY <2>0, <2>1, <3>0, <3>4, <4>1, <4>2
      <4>4. g[i] = c[i]  BY <2>0, <2>6, <2>7, <3>0, <3>4, <4>1
      <4>5. QED  BY <4>2, <4>3, <4>4
    <3>5. QED  BY <2>0, <3>0, <3>1, <3>2, <3>3, <3>4
  <2>10. e = g  BY <2>5, <2>6, <2>8, <2>9, SameSequence
  <2>11. QED  BY <2>10 DEF d, e, g
<1>d. QED  BY <1>a, <1>b, <1>c

-----------------------------------------------------------------------------
(* the work of one call *)

LEMMA HostWriteWorks ==
  ASSUME NEW r \in Works, ~r.eof, NEW bs \in Seq(Bytes), NEW q, q = HostWrite(r, bs)
  PROVE  /\ Follows(r, q) /\ q.f.wbuf = r.f.wbuf
         /\ r.ok = 0 => q.eof /\ q.c = r.c /\ q.fd = r.fd
         /\ r.ok # 0 => ~q.eof /\ q.c = Overlay(r.c, At(r), bs) /\ q.fd.off = At(r) + Len(bs)
<1> DEFINE at == At(r)
<1>1. /\ r \in [f : File, fd : Fd, c : Seq(Bytes), ok : Nat, eof : BOOLEAN]
      /\ r.f \in File /\ r.fd \in Fd /\ r.c \in Seq(Bytes) /\ r.ok \in Nat
  BY DEF Works
<1>2. at \in Nat
  BY <1>1 DEF Fd, At
<1> HIDE DEF at
<1>3. CASE r.ok = 0
  <2>1. q = [r EXCEPT !.eof = TRUE, !.ok = AllSucceed, !.f.flags = @ \cup {"err"}]
    BY <1>3 DEF HostWrite
  <2>2. [r.f EXCEPT !.flags = @ \cup {"err"}] \in File  BY <1>1 DEF File, AllFlags
  <2>3. q.f = [r.f EXCEPT !.flags = @ \cup {"err"}] /\ q.fd = r.fd /\ q.c = r.c /\ q.ok = 9 /\ q.eof
    BY <1>1, <2>1 DEF AllSucceed
  <2>4. q = [f |-> [r.f EXCEPT !.flags = @ \cup {"err"}], fd |-> r.fd, c |-> r.c, ok |-> 9, eof |-> TRUE]
    BY <1>1, <2>1 DEF AllSucceed
  <2>5. q \in Works  BY <1>1, <2>2, <2>4 DEF Works
  <2>6. QED  BY <1>1, <1>3, <2>3, <2>5 DEF Follows, File
<1>4. CASE r.ok # 0
  <2>1. q = [r EXCEPT !.ok = @ - 1, !.c = Overlay(@, at, bs), !.fd.off = at + Len(bs)]
    BY <1>4 DEF HostWrite, at, At
  <2>2. [r.fd EXCEPT !.off = at + Len(bs)] \in Fd  BY <1>1, <1>2 DEF Fd
  <2>3. /\ q.f = r.f /\ q.fd = [r.fd EXCEPT !.off = at + Len(bs)] /\ q.c = Overlay(r.c, at, bs)
        /\ q.ok = r.ok - 1 /\ ~q.eof
    BY <1>1, <2>1
  <2>4. Overlay(r.c, at, bs) \in Seq(Bytes)
    BY <1>1, <1>2, OverlayType
  <2>5. q \in [f : File, fd : Fd, c : Seq(Bytes), ok : Nat, eof : BOOLEAN]
    <3>1. q = [f |-> r.f, fd |-> [r.fd EXCEPT !.off = at + Len(bs)], c |-> Overlay(r.c, at, bs), ok |-> r.ok - 1,
               eof |-> FALSE]
      BY <1>1, <2>1
    <3>2. r.ok - 1 \in Nat  BY <1>1, <1>4
    <3>3. QED  BY <1>1, <2>2, <2>4, <3>1, <3>2
  <2>6. q.fd.off = at + Len(bs) /\ q.fd.path = r.fd.path /\ q.fd.append = r.fd.append
    BY <1>1, <2>3 DEF Fd
  <2>7. q \in Works  BY <2>3, <2>4, <2>5, <2>6 DEF Works
  <2>8. QED  BY <1>4, <2>3, <2>6, <2>7 DEF Follows, at
<1>5. QED  BY <1>3, <1>4

\* A flush leaves the file what it was meant to be; it fails as a whole.
LEMMA FlushWorks ==
  ASSUME NEW r \in Works, ~r.eof, NEW q, q = FlushWriteBuf(r)
  PROVE  /\ Follows(r, q) /\ Meant(q) = Meant(r)
         /\ q.eof => q.f.wbuf = r.f.wbuf /\ r.ok = 0
         /\ ~q.eof => q.f.wbuf = <<>> /\ q.c = Meant(r)
         /\ r.f.wbuf = <<>> => q = r
         /\ q.f.wbuf # <<>> => q.fd = r.fd
         /\ q.f.wbuf = <<>> /\ r.f.wbuf # <<>> =>
              q.fd.off = IF r.fd.append THEN Len(Meant(r)) ELSE r.fd.off + Len(r.f.wbuf)
<1>1. /\ r.f \in File /\ r.fd \in Fd /\ r.c \in Seq(Bytes) /\ r.f.wbuf \in Seq(Bytes) /\ r.fd.off \in Nat
      /\ r.eof \in BOOLEAN
  BY DEF Works, File, Fd
<1>2. Meant(r) = Overlay(r.c, At(r), r.f.wbuf)
  BY <1>1, OverlayAtEnd DEF Meant, At
<1>3. At(r) \in Nat  BY <1>1 DEF At
<1>4. CASE r.f.wbuf = <<>>
  <2>1. q = r  BY <1>4 DEF FlushWriteBuf
  <2>2. Meant(r) = r.c  BY <1>1, <1>2, <1>3, <1>4, OverlayNothing
  <2>3. QED  BY <1>4, <2>1, <2>2 DEF Follows
<1>5. CASE r.f.wbuf # <<>>
  <2> PICK w : w = HostWrite(r, r.f.wbuf)  OBVIOUS
  <2>1. /\ Follows(r, w) /\ w.f.wbuf = r.f.wbuf
        /\ r.ok = 0 => w.eof /\ w.c = r.c /\ w.fd = r.fd
        /\ r.ok # 0 => ~w.eof /\ w.c = Overlay(r.c, At(r), r.f.wbuf) /\ w.fd.off = At(r) + Len(r.f.wbuf)
    <3>1. PICK bs \in Seq(Bytes) : bs = r.f.wbuf  BY <1>1
    <3>2. w = HostWrite(r, bs)  BY <3>1
    <3>3. /\ Follows(r, w) /\ w.f.wbuf = r.f.wbuf
          /\ r.ok = 0 => w.eof /\ w.c = r.c /\ w.fd = r.fd
          /\ r.ok # 0 => ~w.eof /\ w.c = Overlay(r.c, At(r), bs) /\ w.fd.off = At(r) + Len(bs)
      BY <3>2, HostWriteWorks
    <3>4. QED  BY <3>1, <3>3
  <2>2. q = IF w.eof THEN w ELSE [w EXCEPT !.f.wbuf = <<>>]
    BY <1>5 DEF FlushWriteBuf
  <2>3. CASE r.ok = 0
    <3>1. q = w /\ q.eof  BY <2>1, <2>2, <2>3
    <3>2. Meant(q) = Meant(r)  BY <2>1, <2>3, <3>1 DEF Meant
    <3>3. QED  BY <1>5, <2>1, <2>3, <3>1, <3>2
  <2>4. CASE r.ok # 0
    <3>1. q = [w EXCEPT !.f.wbuf = <<>>]  BY <2>1, <2>2, <2>4
    <3>2. /\ w \in [f : File, fd : Fd, c : Seq(Bytes), ok : Nat, eof : BOOLEAN]
          /\ w.f \in File
      BY <2>1 DEF Follows, Works
    <3>3. <<>> \in Seq(Bytes)  OBVIOUS
    <3>4. [w.f EXCEPT !.wbuf = <<>>] \in File  BY <3>2, <3>3 DEF File
    <3>5. q.f = [w.f EXCEPT !.wbuf = <<>>] /\ q.fd = w.fd /\ q.c = w.c /\ q.ok = w.ok /\ ~q.eof
      BY <2>1, <2>4, <3>1, <3>2
    <3>6. q \in Works  BY <3>1, <3>2, <3>4 DEF Works
    <3>7. q.f.wbuf = <<>>  BY <3>2, <3>5 DEF File
    <3>8. Follows(r, q)  BY <2>1, <3>2, <3>5, <3>6 DEF Follows, File
    <3>9. q.c \in Seq(Bytes) /\ q.fd.off \in Nat  BY <3>6 DEF Works, Fd
    <3>10. q.c = Meant(r)  BY <1>2, <2>1, <2>4, <3>5
    <3>11. Meant(q) = q.c  BY <3>7, <3>9, OverlayNothing DEF Meant
    <3>12. q.fd.off = At(r) + Len(r.f.wbuf)  BY <2>1, <2>4, <3>5
    <3>13. IF r.fd.append THEN Len(Meant(r)) = At(r) + Len(r.f.wbuf) ELSE At(r) = r.fd.off
      <4>1. Len(r.c \o r.f.wbuf) = Len(r.c) + Len(r.f.wbuf)  BY <1>1
      <4>2. QED  BY <4>1 DEF Meant, At
    <3>14. QED  BY <1>5, <3>5, <3>7, <3>8, <3>10, <3>11, <3>12, <3>13
  <2>5. QED  BY <2>3, <2>4
<1>6. QED  BY <1>4, <1>5

\* lazy_init sets the stream up and touches no byte.
LEMMA LazyInitWorks ==
  ASSUME NEW r \in Works, NEW q, q = LazyInit(r)
  PROVE  /\ q \in Works /\ q.fd = r.fd /\ q.c = r.c /\ q.ok = r.ok /\ q.eof = r.eof
         /\ q.f.wbuf = r.f.wbuf /\ q.f.rbuf = r.f.rbuf /\ q.f.rpos = r.f.rpos
         /\ q.f.flags = r.f.flags \cup {"inited"} /\ ("inited" \in r.f.flags => q = r)
<1>1. /\ r \in [f : File, fd : Fd, c : Seq(Bytes), ok : Nat, eof : BOOLEAN]
      /\ r.f \in File /\ r.f.flags \in SUBSET AllFlags
  BY DEF Works, File
<1>2. CASE "inited" \in r.f.flags
  BY <1>1, <1>2 DEF LazyInit
<1>3. CASE "inited" \notin r.f.flags
  <2> DEFINE writes == "unbuf" \notin r.f.flags /\ "write" \in r.f.flags
             reads == "unbuf" \notin r.f.flags /\ "read" \in r.f.flags
             flags == r.f.flags \cup {"inited"}
             wsize == IF writes THEN BufferSize ELSE r.f.wsize
             ralloc == r.f.ralloc \/ reads
             g == [r.f EXCEPT !.flags = flags, !.wsize = wsize, !.ralloc = ralloc]
  <2>1. q = [r EXCEPT !.f.flags = flags, !.f.wsize = wsize, !.f.ralloc = ralloc]
    BY <1>1, <1>3 DEF LazyInit, File
  <2>2. flags \in SUBSET AllFlags /\ wsize \in Nat /\ ralloc \in BOOLEAN
    BY <1>1, BoundsAssumption DEF AllFlags, File
  <2> HIDE DEF flags, wsize, ralloc
  <2>3. g \in File
    BY <1>1, <2>2 DEF File
  <2>4. q = [f |-> g, fd |-> r.fd, c |-> r.c, ok |-> r.ok, eof |-> r.eof]
    BY <1>1, <2>1 DEF File
  <2>5. g.wbuf = r.f.wbuf /\ g.rbuf = r.f.rbuf /\ g.rpos = r.f.rpos /\ g.flags = flags
    BY <1>1 DEF File
  <2> HIDE DEF g
  <2>6. q \in Works
    BY <1>1, <2>3, <2>4 DEF Works
  <2>7. QED  BY <1>3, <2>4, <2>5, <2>6 DEF flags
<1>4. QED  BY <1>2, <1>3

\* Where the stream stands when nothing is left unread: an appending stream that has written is at the end.
End(r) ==
  IF r.fd.append /\ r.f.wbuf # <<>> THEN Len(Meant(r)) ELSE r.fd.off + Len(r.f.wbuf)

\* What putting bs makes of the file, where that leaves the stream, and a call that puts nothing.
Stored(r, bs) == IF r.fd.append THEN Meant(r) \o bs ELSE Overlay(Meant(r), End(r), bs)
Puts(r, q, bs) ==
  Meant(q) = Stored(r, bs) /\ End(q) = (IF r.fd.append THEN Len(Stored(r, bs)) ELSE End(r) + Len(bs))
Keeps(r, q) == Meant(q) = Meant(r) /\ End(q) = End(r)

\* The file as it is meant, and the place in it where the stream ends.
LEMMA MeantType ==
  ASSUME NEW r \in Works
  PROVE  Meant(r) \in Seq(Bytes) /\ End(r) \in Nat
<1>1. PICK c \in Seq(Bytes), w \in Seq(Bytes), off \in Nat : c = r.c /\ w = r.f.wbuf /\ off = r.fd.off
  <2>1. r.c \in Seq(Bytes) /\ r.f.wbuf \in Seq(Bytes) /\ r.fd.off \in Nat  BY DEF Works, File, Fd
  <2>2. QED  BY <2>1
<1>3. CASE r.fd.append
  <2>1. Meant(r) = c \o w  BY <1>1, <1>3 DEF Meant
  <2>2. c \o w \in Seq(Bytes) /\ Len(c \o w) = Len(c) + Len(w)  OBVIOUS
  <2>3. w = <<>> => Len(w) = 0  OBVIOUS
  <2>4. PICK m \in Seq(Bytes) : m = Meant(r) /\ Len(m) = Len(c) + Len(w)  BY <2>1, <2>2
  <2>5. CASE w = <<>>
    <3>1. End(r) = off + Len(w)  BY <1>1, <2>5 DEF End
    <3>2. QED  BY <1>1, <2>3, <2>4, <2>5, <3>1
  <2>6. CASE w # <<>>
    <3>1. End(r) = Len(m)  BY <1>1, <1>3, <2>4, <2>6 DEF End
    <3>2. QED  BY <2>4, <3>1
  <2>7. QED  BY <2>5, <2>6
<1>4. CASE ~r.fd.append
  <2>1. Meant(r) = Overlay(c, off, w)  BY <1>1, <1>4 DEF Meant
  <2>2. PICK o \in Seq(Bytes) : o = Overlay(c, off, w)  BY <1>1, OverlayType
  <2>3. End(r) = off + Len(w)  BY <1>1, <1>4 DEF End
  <2>4. QED  BY <1>1, <2>1, <2>2, <2>3
<1>5. QED  BY <1>3, <1>4

\* Of a stream that holds nothing back, the file is what was meant.
LEMMA NothingHeld ==
  ASSUME NEW r \in Works, r.f.wbuf = <<>>
  PROVE  Meant(r) = r.c /\ End(r) = r.fd.off
<1>1. PICK c \in Seq(Bytes), off \in Nat : c = r.c /\ off = r.fd.off
  <2>1. r.c \in Seq(Bytes) /\ r.fd.off \in Nat  BY DEF Works, Fd
  <2>2. QED  BY <2>1
<1>2. c \o <<>> = c /\ Len(<<>>) = 0  OBVIOUS
<1>3. Overlay(c, off, <<>>) = c  BY <1>1, OverlayNothing
<1>4. Meant(r) = c  BY <1>1, <1>2, <1>3 DEF Meant
<1>5. End(r) = off  BY <1>1, <1>2 DEF End
<1>6. QED  BY <1>1, <1>4, <1>5

\* A flush changes neither what is meant nor where the stream ends.
LEMMA FlushKeeps ==
  ASSUME NEW r \in Works, ~r.eof, NEW q, q = FlushWriteBuf(r)
  PROVE  Keeps(r, q)
<1>1. CASE r.f.wbuf = <<>>  BY <1>1, FlushWorks DEF Keeps
<1>2. CASE r.f.wbuf # <<>> /\ q.f.wbuf # <<>>
  <2>1. Follows(r, q) /\ Meant(q) = Meant(r) /\ q.fd = r.fd  BY <1>2, FlushWorks
  <2>2. q.f.wbuf = r.f.wbuf  BY <1>2, FlushWorks
  <2>3. QED  BY <2>1, <2>2 DEF Keeps, End
<1>3. CASE r.f.wbuf # <<>> /\ q.f.wbuf = <<>>
  <2>1. /\ Meant(q) = Meant(r) /\ q.fd.append = r.fd.append
        /\ q.fd.off = IF r.fd.append THEN Len(Meant(r)) ELSE r.fd.off + Len(r.f.wbuf)
    BY <1>3, FlushWorks DEF Follows
  <2>2. Len(<<>>) = 0  OBVIOUS
  <2>3. End(q) = q.fd.off + 0
    BY <1>3, <2>2 DEF End
  <2>4. End(r) = q.fd.off
    BY <1>3, <2>1 DEF End
  <2>5. q.fd.off \in Nat  BY FlushWorks DEF Follows, Works, Fd
  <2>6. QED  BY <2>1, <2>3, <2>4, <2>5 DEF Keeps
<1>4. QED  BY <1>1, <1>2, <1>3

\* What is stored is a file.
LEMMA StoredType ==
  ASSUME NEW r \in Works, NEW bs \in Seq(Bytes)
  PROVE  Stored(r, bs) \in Seq(Bytes)
<1>1. PICK m \in Seq(Bytes) : m = Meant(r) /\ End(r) \in Nat  BY MeantType
<1>2. Overlay(m, End(r), bs) \in Seq(Bytes)  BY <1>1, OverlayType
<1>3. m \o bs \in Seq(Bytes)  OBVIOUS
<1>4. QED  BY <1>1, <1>2, <1>3 DEF Stored

\* Putting one part and then the other is putting both.
LEMMA PutsTwice ==
  ASSUME NEW r \in Works, NEW q \in Works, NEW t \in Works, r.fd.append = q.fd.append,
         NEW a \in Seq(Bytes), NEW b \in Seq(Bytes), Puts(r, q, a), Puts(q, t, b)
  PROVE  Puts(r, t, a \o b)
<1>1. PICK m \in Seq(Bytes), e \in Nat : m = Meant(r) /\ e = End(r)  BY MeantType
<1>2. PICK n \in Seq(Bytes), g \in Nat : n = Meant(q) /\ g = End(q)  BY MeantType
<1>3. PICK ab \in Seq(Bytes) : ab = a \o b /\ Len(ab) = Len(a) + Len(b)
  <2>1. a \o b \in Seq(Bytes) /\ Len(a \o b) = Len(a) + Len(b)  OBVIOUS
  <2>2. QED  BY <2>1
<1>4. CASE r.fd.append
  <2>1. n = m \o a  BY <1>1, <1>2, <1>4 DEF Puts, Stored
  <2>2. Meant(t) = n \o b /\ End(t) = Len(n \o b)  BY <1>2, <1>4 DEF Puts, Stored
  <2>3. n \o b = m \o ab  BY <2>1, <1>3
  <2>4. QED  BY <1>1, <1>3, <1>4, <2>2, <2>3 DEF Puts, Stored
<1>5. CASE ~r.fd.append
  <2>1. n = Overlay(m, e, a) /\ g = e + Len(a)  BY <1>1, <1>2, <1>5 DEF Puts, Stored
  <2>2. Meant(t) = Overlay(n, g, b) /\ End(t) = g + Len(b)  BY <1>2, <1>5 DEF Puts, Stored
  <2>a. Joins(a, b, ab)  BY <1>3 DEF Joins
  <2>3. Overlay(n, g, b) = Overlay(m, e, ab)  BY <1>1, <2>a, <2>1, OverlayTwice
  <2>4. End(t) = e + Len(ab)  BY <1>3, <2>1, <2>2
  <2>5. QED  BY <1>1, <1>3, <1>5, <2>2, <2>3, <2>4 DEF Puts, Stored
<1>6. QED  BY <1>4, <1>5

\* A byte put in the buffer.
Holding(r, b) == [r EXCEPT !.f.wbuf = Append(@, b)]

\* A byte held back is a byte put.
LEMMA HoldByte ==
  ASSUME NEW r \in Works, NEW b \in Bytes, NEW q, q = Holding(r, b)
  PROVE  Follows(r, q) /\ Puts(r, q, <<b>>) /\ q.eof = r.eof /\ q.f.wbuf # <<>>
<1>1. /\ r \in [f : File, fd : Fd, c : Seq(Bytes), ok : Nat, eof : BOOLEAN]
      /\ r.f \in File
  BY DEF Works
<1>2. PICK c \in Seq(Bytes), w \in Seq(Bytes), off \in Nat : c = r.c /\ w = r.f.wbuf /\ off = r.fd.off
  <2>1. r.c \in Seq(Bytes) /\ r.f.wbuf \in Seq(Bytes) /\ r.fd.off \in Nat  BY DEF Works, File, Fd
  <2>2. QED  BY <2>1
<1>3. PICK v \in Seq(Bytes), x \in Seq(Bytes) :
         v = w \o x /\ x = <<b>> /\ v = Append(w, b) /\ Len(x) = 1 /\ Len(v) = Len(w) + 1 /\ v # <<>>
  <2>1. /\ w \o <<b>> \in Seq(Bytes) /\ <<b>> \in Seq(Bytes) /\ w \o <<b>> = Append(w, b)
        /\ Len(<<b>>) = 1 /\ Len(Append(w, b)) = Len(w) + 1 /\ Append(w, b) # <<>>
    OBVIOUS
  <2>2. QED  BY <2>1
<1>4. [r.f EXCEPT !.wbuf = v] \in File  BY <1>1 DEF File
<1>5. q = [f |-> [r.f EXCEPT !.wbuf = v], fd |-> r.fd, c |-> r.c, ok |-> r.ok, eof |-> r.eof]
  BY <1>1, <1>2, <1>3 DEF Holding
<1>6. q \in Works  BY <1>1, <1>4, <1>5 DEF Works
<1>7. /\ q.f.wbuf = v /\ q.f.rbuf = r.f.rbuf /\ q.f.rpos = r.f.rpos /\ q.f.flags = r.f.flags
      /\ q.f.wsize = r.f.wsize /\ q.f.ralloc = r.f.ralloc /\ q.fd = r.fd /\ q.c = c /\ q.eof = r.eof
  BY <1>1, <1>2, <1>5 DEF File
<1>8. CASE r.fd.append
  <2>1. Meant(r) = c \o w /\ Meant(q) = c \o v  BY <1>2, <1>7, <1>8 DEF Meant
  <2>2. c \o v = (c \o w) \o x  BY <1>3
  <2>3. End(q) = Len(c \o v)  BY <1>3, <1>7, <1>8, <2>1 DEF End
  <2>4. Puts(r, q, x)  BY <1>8, <2>1, <2>2, <2>3 DEF Puts, Stored
  <2>5. QED  BY <1>3, <1>6, <1>7, <2>4 DEF Follows
<1>9. CASE ~r.fd.append
  <2>1. Meant(r) = Overlay(c, off, w) /\ Meant(q) = Overlay(c, off, v)  BY <1>2, <1>7, <1>9 DEF Meant
  <2>2. End(r) = off + Len(w) /\ End(q) = off + Len(v)  BY <1>2, <1>7, <1>9 DEF End
  <2>3. Overlay(Overlay(c, off, w), off + Len(w), x) = Overlay(c, off, v)
    <3>1. Joins(w, x, v)  BY <1>3 DEF Joins
    <3>2. QED  BY <3>1, OverlayTwice
  <2>4. End(q) = End(r) + Len(x)
    <3>1. Len(v) = Len(w) + Len(x)  BY <1>3
    <3>2. Len(w) \in Nat /\ Len(x) \in Nat  OBVIOUS
    <3>3. QED  BY <1>2, <2>2, <3>1, <3>2
  <2>5. Puts(r, q, x)  BY <1>9, <2>1, <2>2, <2>3, <2>4 DEF Puts, Stored
  <2>6. QED  BY <1>3, <1>6, <1>7, <2>5 DEF Follows
<1>10. QED  BY <1>8, <1>9

\* What the write of a call comes to: nothing or a part of it with a failure, or all of it.
Outcome(r, q, bs) ==
  \/ Keeps(r, q) /\ q.eof
  \/ Puts(r, q, <<bs[1]>>) /\ q.eof
  \/ Puts(r, q, bs)

\* A buffered fputc puts the byte, or fails and puts nothing.
LEMMA BufferWorks ==
  ASSUME NEW r \in Works, ~r.eof, NEW b \in Bytes, NEW q, q = Buffer(r, b)
  PROVE  Follows(r, q) /\ ((Keeps(r, q) /\ q.eof) \/ Puts(r, q, <<b>>))
<1>1. PICK room : room = IF Len(r.f.wbuf) >= r.f.wsize THEN FlushWriteBuf(r) ELSE r  OBVIOUS
<1>2. Follows(r, room) /\ Keeps(r, room) /\ room \in Works
  <2>1. CASE room = r  BY <2>1 DEF Follows, Keeps, Works
  <2>2. CASE room = FlushWriteBuf(r)
    <3>1. Follows(r, room) /\ Keeps(r, room)  BY <2>2, FlushWorks, FlushKeeps
    <3>2. QED  BY <3>1 DEF Follows, Works
  <2>3. QED  BY <1>1, <2>1, <2>2
<1>3. CASE room.eof
  <2>1. q = room  BY <1>1, <1>3 DEF Buffer
  <2>2. QED  BY <1>2, <1>3, <2>1
<1>4. CASE ~room.eof
  <2>1. PICK held : held = Holding(room, b)  OBVIOUS
  <2>2. /\ Follows(room, held) /\ Puts(room, held, <<b>>) /\ ~held.eof
    BY <1>2, <1>4, <2>1, HoldByte
  <2>3. held \in Works  BY <2>2 DEF Follows
  <2>4. Puts(r, held, <<b>>)
    BY <1>2, <2>2 DEF Puts, Stored, Keeps, Follows
  <2>5. q = held \/ q = FlushWriteBuf(held)
    BY <1>1, <1>4, <2>1 DEF Buffer, Holding
  <2>6. Follows(held, q) /\ Keeps(held, q)
    <3>1. CASE q = held  BY <2>2, <2>3, <3>1 DEF Follows, Keeps
    <3>2. CASE q = FlushWriteBuf(held)
      <4>1. Follows(held, q) /\ Keeps(held, q)  BY <2>2, <2>3, <3>2, FlushWorks, FlushKeeps
      <4>2. QED  BY <4>1 DEF Follows, Works
    <3>3. QED  BY <2>5, <3>1, <3>2
  <2>7. Follows(r, q)  BY <1>2, <2>2, <2>6 DEF Follows
  <2>8. Puts(r, q, <<b>>)  BY <2>4, <2>6 DEF Puts, Keeps
  <2>9. QED  BY <2>6, <2>7, <2>8
<1>5. QED  BY <1>2, <1>3, <1>4

\* One byte or two.
Runs == {<<a>> : a \in Bytes} \cup {<<a, b>> : a, b \in Bytes}

\* What is put at once is one byte or two.
LEMMA RunType ==
  ASSUME NEW bs \in Runs
  PROVE  bs \in Seq(Bytes) /\ Len(bs) \in {1, 2} /\ bs[1] \in Bytes
         /\ IF Len(bs) = 1 THEN bs = <<bs[1]>> ELSE bs[2] \in Bytes /\ bs = <<bs[1]>> \o <<bs[2]>>
<1>1. CASE bs \in {<<a>> : a \in Bytes}  BY <1>1
<1>2. CASE bs \in {<<a, b>> : a, b \in Bytes}
  <2>1. PICK a \in Bytes, b \in Bytes : bs = <<a, b>>  BY <1>2
  <2>2. <<a, b>> \in Seq(Bytes) /\ Len(<<a, b>>) = 2 /\ <<a, b>>[1] = a /\ <<a, b>>[2] = b
    OBVIOUS
  <2>3. <<a, b>> = <<a>> \o <<b>>
    <3>1. <<a, b>> = Append(<<a>>, b)  OBVIOUS
    <3>2. <<a>> \o <<b>> = Append(<<a>>, b)  OBVIOUS
    <3>3. QED  BY <3>1, <3>2
  <2>4. QED  BY <2>1, <2>2, <2>3
<1>3. QED  BY <1>1, <1>2 DEF Runs

\* A run is not empty.
LEMMA RunFull == \A x \in Runs : x # <<>>
<1>1. \A a \in Bytes : <<a>> # <<>>  OBVIOUS
<1>2. \A a, b \in Bytes : <<a, b>> # <<>>  OBVIOUS
<1>3. QED  BY <1>1, <1>2 DEF Runs

Drained(r) == r.f.wbuf = <<>>

\* Putting a run puts all of it, or its first byte, or nothing; a direct write leaves nothing held.
LEMMA PutBytesWorks ==
  ASSUME NEW r \in Works, ~r.eof, Direct(r) => Drained(r), NEW bs \in Runs, NEW q, q = PutBytes(r, bs)
  PROVE  Follows(r, q) /\ Outcome(r, q, bs) /\ (Direct(r) => Drained(q))
<1>1. bs \in Seq(Bytes) /\ Len(bs) \in {1, 2} /\ bs[1] \in Bytes
      /\ IF Len(bs) = 1 THEN bs = <<bs[1]>> ELSE bs[2] \in Bytes /\ bs = <<bs[1]>> \o <<bs[2]>>
  BY RunType
<1>2. CASE Direct(r)
  <2>1. q = HostWrite(r, bs) /\ Drained(r)  BY <1>2 DEF PutBytes
  <2>2. /\ Follows(r, q) /\ Drained(q)
        /\ r.ok = 0 => q.eof /\ q.c = r.c /\ q.fd = r.fd
        /\ r.ok # 0 => ~q.eof /\ q.c = Overlay(r.c, At(r), bs) /\ q.fd.off = At(r) + Len(bs)
    <3>1. bs \in Seq(Bytes)  BY <1>1
    <3>2. PICK b \in Seq(Bytes) : b = bs /\ q = HostWrite(r, b)  BY <2>1, <3>1
    <3>3. /\ Follows(r, q) /\ q.f.wbuf = r.f.wbuf
          /\ r.ok = 0 => q.eof /\ q.c = r.c /\ q.fd = r.fd
          /\ r.ok # 0 => ~q.eof /\ q.c = Overlay(r.c, At(r), b) /\ q.fd.off = At(r) + Len(b)
      BY <3>2, HostWriteWorks
    <3>4. QED  BY <2>1, <3>2, <3>3 DEF Drained
  <2>3. CASE r.ok = 0
    <3>1. Keeps(r, q)  BY <2>1, <2>2, <2>3 DEF Keeps, Meant, End, Drained
    <3>2. QED  BY <2>2, <2>3, <3>1 DEF Outcome
  <2>4. CASE r.ok # 0
    <3>1. PICK c \in Seq(Bytes), off \in Nat : c = r.c /\ off = r.fd.off
      <4>1. r.c \in Seq(Bytes) /\ r.fd.off \in Nat  BY DEF Works, Fd
      <4>2. QED  BY <4>1
    <3>2. PICK d \in Seq(Bytes), n \in Nat : d = q.c /\ n = q.fd.off
      <4>1. q.c \in Seq(Bytes) /\ q.fd.off \in Nat  BY <2>2 DEF Follows, Works, Fd
      <4>2. QED  BY <4>1
    <3>3. Meant(r) = c /\ End(r) = off  BY <2>1, <3>1, NothingHeld DEF Drained
    <3>4. Meant(q) = d /\ End(q) = n  BY <2>2, <3>2, NothingHeld DEF Follows, Drained
    <3>6. End(r) = off /\ End(q) = n  BY <3>3, <3>4
    <3>7. Stored(r, bs) = Overlay(c, At(r), bs)
      BY <1>1, <3>1, <3>3, <3>6, OverlayAtEnd DEF Stored, At
    <3>8. CASE r.fd.append
      <4>1. n = Len(c) + Len(bs) /\ Stored(r, bs) = c \o bs  BY <2>2, <2>4, <3>1, <3>2, <3>3, <3>8 DEF At, Stored
      <4>2. Len(c \o bs) = Len(c) + Len(bs)  BY <1>1
      <4>3. QED  BY <2>2, <2>4, <3>1, <3>2, <3>4, <3>6, <3>7, <3>8, <4>1, <4>2 DEF Outcome, Puts
    <3>9. CASE ~r.fd.append
      <4>1. n = off + Len(bs)  BY <2>2, <2>4, <3>1, <3>2, <3>9 DEF At
      <4>2. QED  BY <2>2, <2>4, <3>1, <3>2, <3>4, <3>6, <3>7, <3>9, <4>1 DEF Outcome, Puts
    <3>10. QED  BY <3>8, <3>9
  <2>5. QED  BY <2>3, <2>4
<1>3. CASE ~Direct(r)
  <2>1. PICK one : one = Buffer(r, bs[1])  OBVIOUS
  <2>2. Follows(r, one) /\ ((Keeps(r, one) /\ one.eof) \/ Puts(r, one, <<bs[1]>>))
    BY <1>1, <2>1, BufferWorks
  <2>3. CASE one.eof
    <3>1. q = one  BY <1>3, <2>1, <2>3 DEF PutBytes
    <3>2. QED  BY <1>3, <2>2, <2>3, <3>1 DEF Outcome
  <2>4. CASE ~one.eof /\ Len(bs) = 1
    <3>1. q = one  BY <1>3, <2>1, <2>4 DEF PutBytes
    <3>2. QED  BY <1>1, <1>3, <2>2, <2>4, <3>1 DEF Outcome
  <2>5. CASE ~one.eof /\ Len(bs) # 1
    <3>1. q = Buffer(one, bs[2])  BY <1>3, <2>1, <2>5 DEF PutBytes
    <3>2. one \in Works /\ Puts(r, one, <<bs[1]>>)  BY <2>2, <2>5 DEF Follows
    <3>3. Follows(one, q) /\ ((Keeps(one, q) /\ q.eof) \/ Puts(one, q, <<bs[2]>>))
      BY <1>1, <2>5, <3>1, <3>2, BufferWorks
    <3>4. Follows(r, q)  BY <2>2, <3>3 DEF Follows
    <3>5. CASE Keeps(one, q) /\ q.eof
      <4>1. Puts(r, q, <<bs[1]>>)  BY <3>2, <3>5 DEF Puts, Keeps
      <4>2. QED  BY <1>3, <3>4, <3>5, <4>1 DEF Outcome
    <3>6. CASE Puts(one, q, <<bs[2]>>)
      <4>1. PICK a \in Seq(Bytes), b \in Seq(Bytes) : a = <<bs[1]>> /\ b = <<bs[2]>> /\ bs = a \o b
        <5>1. <<bs[1]>> \in Seq(Bytes) /\ <<bs[2]>> \in Seq(Bytes) /\ bs = <<bs[1]>> \o <<bs[2]>>
          BY <1>1, <2>5
        <5>2. QED  BY <5>1
      <4>2. q \in Works /\ r.fd.append = one.fd.append  BY <2>2, <3>3 DEF Follows
      <4>3. Puts(r, one, a) /\ Puts(one, q, b)  BY <3>2, <3>6, <4>1
      <4>4. Puts(r, q, a \o b)  BY <3>2, <4>2, <4>3, PutsTwice
      <4>5. Puts(r, q, bs)  BY <4>1, <4>4
      <4>6. QED  BY <1>3, <3>4, <3>6, <4>5 DEF Outcome
    <3>7. QED  BY <3>3, <3>5, <3>6
  <2>6. QED  BY <1>1, <2>2, <2>3, <2>4, <2>5
<1>4. QED  BY <1>2, <1>3

-----------------------------------------------------------------------------
(***************************************************************************)
(* The state: what every stream keeps between two calls.                   *)
(***************************************************************************)
TypeOK ==
  /\ program \in Programs
  /\ files \in [AllPaths -> Seq(Bytes)]
  /\ fds \in [Streams -> Fd \cup {NoFd}]
  /\ streams \in [Streams -> File]
  /\ last \in [Streams -> {"none", "read", "write"}] /\ back \in [Streams -> Nat]
  /\ hook \in BOOLEAN /\ opened \in 0..MaxOpens
  /\ phase \in {"running", "exiting", "handler", "ended"}

\* Of a stream with FILE f and descriptor fd on the bytes c, h telling whether the hook is registered, l what was
\* last done and k how many bytes are pushed back: what is held was put by a writer that is set up for it and has
\* registered the hook; nothing is both held and unread; what is unread and not pushed back is what the file has there.
Sound(f, fd, c, h, l, k) ==
  /\ f.wbuf # <<>> => {"write", "inited"} \subseteq f.flags /\ "unbuf" \notin f.flags /\ f.wsize # 0
  /\ {"write", "inited"} \subseteq f.flags => h
  /\ l # "read" => f.rpos = Len(f.rbuf)
  /\ l # "write" => f.wbuf = <<>>
  /\ f.rpos + k <= Len(f.rbuf)
  /\ \A i \in (f.rpos + k + 1)..Len(f.rbuf) :
        Len(f.rbuf) <= fd.off /\ fd.off <= Len(c) /\ f.rbuf[i] = c[fd.off - Len(f.rbuf) + i]

SoundAt(s) == Sound(streams[s], fds[s], files[fds[s].path], hook, last[s], back[s])

Apart == \A s, t \in Streams : Open(s) /\ Open(t) /\ fds[s].path = fds[t].path => s = t

StreamsInv ==
  /\ TypeOK /\ Apart
  /\ \A s \in Streams : Open(s) => SoundAt(s)
  /\ \A s \in Streams : ~Open(s) => streams[s] = Absent /\ last[s] = "none" /\ back[s] = 0
  /\ \A s \in Streams : s > opened => ~Open(s)

\* What an open stream has is of its type.
LEMMA OpenType ==
  ASSUME StreamsInv, NEW s \in Streams
  PROVE  /\ streams[s] \in File /\ last[s] \in {"none", "read", "write"} /\ back[s] \in Nat
         /\ Open(s) => fds[s] \in Fd /\ fds[s].path \in AllPaths /\ fds[s].path \in DOMAIN files
                       /\ files[fds[s].path] \in Seq(Bytes)
         /\ fds[s] \in Fd => Open(s)
<1>1. streams[s] \in File /\ last[s] \in {"none", "read", "write"} /\ back[s] \in Nat /\ fds[s] \in Fd \cup {NoFd}
  BY DEF StreamsInv, TypeOK
<1>2. NoFd \notin Fd
  <2>1. NoFd.path = "none"  BY DEF NoFd
  <2>2. "none" \notin AllPaths  BY FilesAssumption DEF AllPaths, Terminal
  <2>3. QED  BY <2>1, <2>2 DEF Fd
<1>3. files \in [AllPaths -> Seq(Bytes)]  BY DEF StreamsInv, TypeOK
<1>4. ASSUME Open(s) PROVE fds[s] \in Fd /\ fds[s].path \in AllPaths
  <2>1. fds[s] \in Fd  BY <1>1, <1>4 DEF Open
  <2>2. QED  BY <2>1 DEF Fd
<1>5. fds[s] \in Fd => Open(s)  BY <1>2 DEF Open
<1>6. QED  BY <1>1, <1>3, <1>4, <1>5

\* NoFd is not a descriptor.
LEMMA NoFdNotFd == NoFd \notin Fd
<1>1. NoFd.path = "none"  BY DEF NoFd
<1>2. "none" \notin AllPaths  BY FilesAssumption DEF AllPaths, Terminal
<1>3. QED  BY <1>1, <1>2 DEF Fd

\* The hook may come to be registered.
LEMMA SoundMore ==
  ASSUME NEW f, NEW fd, NEW c, NEW h, NEW l, NEW k, NEW g, Sound(f, fd, c, h, l, k), h => g
  PROVE  Sound(f, fd, c, g, l, k)
BY DEF Sound

\* What Commit changes: the stream, its descriptor, its file, and nothing of the others.
LEMMA CommitChanges ==
  ASSUME StreamsInv, NEW s \in Streams, Open(s), NEW r \in Works, r.fd.path = fds[s].path,
         NEW did \in {"none", "read", "write"}, Commit(s, r, did)
  PROVE  /\ streams' \in [Streams -> File] /\ fds' \in [Streams -> Fd \cup {NoFd}] /\ files' \in [AllPaths -> Seq(Bytes)]
         /\ last' \in [Streams -> {"none", "read", "write"}]
         /\ streams'[s] = r.f /\ fds'[s] = r.fd /\ files'[fds'[s].path] = r.c /\ last'[s] = did /\ Open(s)'
         /\ \A t \in Streams \ {s} :
              /\ streams'[t] = streams[t] /\ fds'[t] = fds[t] /\ last'[t] = last[t]
              /\ Open(t)' <=> Open(t)
              /\ Open(t) => fds[t].path # fds[s].path /\ files'[fds[t].path] = files[fds[t].path]
<1>1. /\ streams \in [Streams -> File] /\ fds \in [Streams -> Fd \cup {NoFd}] /\ files \in [AllPaths -> Seq(Bytes)]
      /\ last \in [Streams -> {"none", "read", "write"}]
  BY DEF StreamsInv, TypeOK
<1>2. r.f \in File /\ r.fd \in Fd /\ r.c \in Seq(Bytes) /\ r.fd.path \in AllPaths
  BY DEF Works, Fd
<1>3. /\ streams' = [streams EXCEPT ![s] = r.f] /\ fds' = [fds EXCEPT ![s] = r.fd]
      /\ files' = [files EXCEPT ![r.fd.path] = r.c] /\ last' = [last EXCEPT ![s] = did]
  BY DEF Commit
<1>4. /\ streams' \in [Streams -> File] /\ fds' \in [Streams -> Fd \cup {NoFd}] /\ files' \in [AllPaths -> Seq(Bytes)]
      /\ last' \in [Streams -> {"none", "read", "write"}]
  BY <1>1, <1>2, <1>3
<1>5. streams'[s] = r.f /\ fds'[s] = r.fd /\ files'[fds'[s].path] = r.c /\ last'[s] = did
  BY <1>1, <1>2, <1>3
<1>6. Open(s)'  BY <1>2, <1>5, NoFdNotFd DEF Open
<1>7. ASSUME NEW t \in Streams \ {s}
      PROVE  /\ streams'[t] = streams[t] /\ fds'[t] = fds[t] /\ last'[t] = last[t]
             /\ Open(t)' <=> Open(t)
             /\ Open(t) => fds[t].path # fds[s].path /\ files'[fds[t].path] = files[fds[t].path]
  <2>1. streams'[t] = streams[t] /\ fds'[t] = fds[t] /\ last'[t] = last[t]  BY <1>1, <1>3
  <2>2. Open(t)' <=> Open(t)  BY <2>1 DEF Open
  <2>3. Open(t) => fds[t].path # fds[s].path  BY DEF StreamsInv, Apart
  <2>4. Open(t) => files'[fds[t].path] = files[fds[t].path]  BY <1>1, <1>3, <2>3, OpenType
  <2>5. QED  BY <2>1, <2>2, <2>3, <2>4
<1>8. QED  BY <1>4, <1>5, <1>6, <1>7

\* A call on the open stream s that leaves the work r, and the stream sound.
Call(s, r, did) ==
  /\ Open(s) /\ r \in Works /\ r.fd.path = fds[s].path /\ r.fd.append = fds[s].append
  /\ did \in {"none", "read", "write"} /\ Commit(s, r, did)
  /\ hook' \in BOOLEAN /\ (hook => hook')
  /\ back' \in [Streams -> Nat] /\ \A t \in Streams \ {s} : back'[t] = back[t]
  /\ Sound(r.f, r.fd, r.c, hook', did, back'[s])

\* A call on one stream that leaves it sound keeps the invariant of all.
LEMMA CallKeeps ==
  ASSUME StreamsInv, NEW s \in Streams, NEW r, NEW did, Call(s, r, did)
  PROVE  StreamsInv'
<1>a. /\ Open(s) /\ r \in Works /\ r.fd.path = fds[s].path /\ did \in {"none", "read", "write"} /\ Commit(s, r, did)
      /\ hook' \in BOOLEAN /\ (hook => hook') /\ back' \in [Streams -> Nat]
      /\ \A t \in Streams \ {s} : back'[t] = back[t]
      /\ Sound(r.f, r.fd, r.c, hook', did, back'[s])
  BY DEF Call
<1>b. /\ streams' \in [Streams -> File] /\ fds' \in [Streams -> Fd \cup {NoFd}] /\ files' \in [AllPaths -> Seq(Bytes)]
      /\ last' \in [Streams -> {"none", "read", "write"}]
      /\ streams'[s] = r.f /\ fds'[s] = r.fd /\ files'[fds'[s].path] = r.c /\ last'[s] = did /\ Open(s)'
      /\ \A t \in Streams \ {s} :
           /\ streams'[t] = streams[t] /\ fds'[t] = fds[t] /\ last'[t] = last[t]
           /\ Open(t)' <=> Open(t)
           /\ Open(t) => fds[t].path # fds[s].path /\ files'[fds[t].path] = files[fds[t].path]
  BY <1>a, CommitChanges
<1>1. TypeOK'
  BY <1>a, <1>b DEF StreamsInv, TypeOK, Commit
<1>2. Apart'
  <2>1. SUFFICES ASSUME NEW t \in Streams, NEW u \in Streams, Open(t)', Open(u)', fds'[t].path = fds'[u].path
                 PROVE  t = u
    BY DEF Apart
  <2>2. CASE t # s /\ u # s
    <3>1. Open(t) /\ Open(u) /\ fds[t].path = fds[u].path  BY <2>1, <2>2, <1>b
    <3>2. QED  BY <3>1 DEF StreamsInv, Apart
  <2>3. CASE t = s /\ u # s
    <3>1. Open(u) /\ fds[u].path = fds[s].path  BY <1>a, <2>1, <2>3, <1>b
    <3>2. QED  BY <1>a, <2>3, <3>1 DEF StreamsInv, Apart
  <2>4. CASE t # s /\ u = s
    <3>1. Open(t) /\ fds[t].path = fds[s].path  BY <1>a, <2>1, <2>4, <1>b
    <3>2. QED  BY <1>a, <2>4, <3>1 DEF StreamsInv, Apart
  <2>5. QED  BY <2>2, <2>3, <2>4
<1>3. ASSUME NEW t \in Streams, Open(t)'
      PROVE  SoundAt(t)'
  <2>1. CASE t = s
    <3>1. QED  BY <1>a, <2>1, <1>b DEF SoundAt
  <2>2. CASE t # s
    <3>1. /\ Open(t) /\ fds'[t] = fds[t] /\ files'[fds[t].path] = files[fds[t].path]
          /\ streams'[t] = streams[t] /\ last'[t] = last[t] /\ back'[t] = back[t]
      BY <1>a, <1>3, <2>2, <1>b
    <3>2. Sound(streams[t], fds[t], files[fds[t].path], hook, last[t], back[t])
      BY <3>1 DEF StreamsInv, SoundAt
    <3>3. Sound(streams[t], fds[t], files[fds[t].path], hook', last[t], back[t])
      BY <1>a, <3>2, SoundMore
    <3>4. QED  BY <3>1, <3>2, <3>3 DEF SoundAt
  <2>3. QED  BY <2>1, <2>2
<1>4. ASSUME NEW t \in Streams, ~Open(t)'
      PROVE  streams'[t] = Absent /\ last'[t] = "none" /\ back'[t] = 0
  <2>1. t # s /\ ~Open(t) /\ streams'[t] = streams[t] /\ last'[t] = last[t] /\ back'[t] = back[t]
    BY <1>a, <1>4, <1>b
  <2>2. QED  BY <2>1 DEF StreamsInv
<1>5. ASSUME NEW t \in Streams, t > opened' PROVE ~Open(t)'
  <2>1. opened' = opened  BY <1>a DEF Commit
  <2>2. ~Open(t)  BY <1>5, <2>1 DEF StreamsInv
  <2>3. QED  BY <1>a, <2>2, <1>b
<1>6. QED  BY <1>1, <1>2, <1>3, <1>4, <1>5 DEF StreamsInv

-----------------------------------------------------------------------------
(* the calls, one by one *)

LEMMA WorkType ==
  ASSUME StreamsInv, NEW s \in Streams, Open(s), NEW ok \in Nat, NEW w, w = Work(s, ok)
  PROVE  /\ w \in Works /\ w.f = streams[s] /\ w.fd = fds[s] /\ w.c = files[fds[s].path] /\ w.ok = ok /\ ~w.eof
         /\ Sound(w.f, w.fd, w.c, hook, last[s], back[s])
<1>1. w = [f |-> streams[s], fd |-> fds[s], c |-> files[fds[s].path], ok |-> ok, eof |-> FALSE]
  BY DEF Work
<1>2. streams[s] \in File /\ fds[s] \in Fd /\ files[fds[s].path] \in Seq(Bytes)
  BY OpenType
<1>3. Sound(streams[s], fds[s], files[fds[s].path], hook, last[s], back[s])
  BY DEF StreamsInv, SoundAt
<1>4. w \in Works  BY <1>1, <1>2, <1>3 DEF Works
<1>5. QED  BY <1>1, <1>3, <1>4

\* A record of work with another FILE, or another descriptor.
LEMMA WithFile ==
  ASSUME NEW q \in Works, NEW g \in File, NEW d \in Fd,
         NEW r, r = [f |-> g, fd |-> d, c |-> q.c, ok |-> q.ok, eof |-> q.eof]
  PROVE  r \in Works /\ r.f = g /\ r.fd = d /\ r.c = q.c /\ r.ok = q.ok /\ r.eof = q.eof
BY DEF Works

\* A put is refused or leaves what Outcome says; nothing was left unread.
LEMMA PutCall ==
  ASSUME StreamsInv, NEW s \in Streams, NEW bs \in Runs, NEW ok \in Nat, Put(s, bs, ok)
  PROVE  \/ UNCHANGED <<program, files, fds, streams, registry, hook, handlers, phase, opened, last, back>>
            /\ reply' = "failed"
         \/ \E w, q : /\ w = Work(s, ok) /\ Call(s, q, "write") /\ Outcome(w, q, bs) /\ Answer(q) /\ UNCHANGED back
                       /\ w.f.rpos = Len(w.f.rbuf) /\ q.f.rpos = w.f.rpos /\ q.f.rbuf = w.f.rbuf
<1>1. CASE "write" \notin streams[s].flags
  BY <1>1 DEF Put
<1>2. CASE "write" \in streams[s].flags
  <2>1. Open(s) /\ MayWrite(s)  BY DEF Put
  <2>2. PICK w, r, q : w = Work(s, ok) /\ r = LazyInit(w) /\ q = PutBytes(r, bs)  OBVIOUS
  <2>3. Commit(s, q, "write") /\ Registers(s) /\ UNCHANGED back /\ Answer(q)
    BY <1>2, <2>2 DEF Put
  <2>4. /\ w \in Works /\ w.f = streams[s] /\ w.fd = fds[s] /\ w.c = files[fds[s].path] /\ w.ok = ok /\ ~w.eof
        /\ Sound(w.f, w.fd, w.c, hook, last[s], back[s])
    BY <2>1, <2>2, WorkType
  <2>5. /\ r \in Works /\ r.fd = w.fd /\ r.c = w.c /\ ~r.eof
        /\ r.f.wbuf = w.f.wbuf /\ r.f.rbuf = w.f.rbuf /\ r.f.rpos = w.f.rpos
        /\ r.f.flags = w.f.flags \cup {"inited"} /\ ("inited" \in w.f.flags => r = w)
    BY <2>2, <2>4, LazyInitWorks
  <2>6. Direct(r) => Drained(r)
    BY <2>4, <2>5 DEF Direct, Drained, Sound
  <2>7. Follows(r, q) /\ Outcome(r, q, bs) /\ (Direct(r) => Drained(q))
    BY <2>2, <2>5, <2>6, PutBytesWorks
  <2>8. w.f.rpos = Len(w.f.rbuf)
    <3>1. CASE last[s] # "read"  BY <2>4, <3>1 DEF Sound
    <3>2. CASE Unread(s) = 0
      <4>1. w.f.rpos \in Nat /\ Len(w.f.rbuf) \in Nat  BY <2>4 DEF Works, File
      <4>2. QED  BY <2>4, <3>2, <4>1 DEF Unread
    <3>3. QED  BY <2>1, <3>1, <3>2 DEF MayWrite
  <2>9. Sound(q.f, q.fd, q.c, hook', "write", back[s])
    <3>1. /\ q.f.rbuf = w.f.rbuf /\ q.f.rpos = w.f.rpos /\ q.f.wsize = r.f.wsize
          /\ q.f.flags \ {"err"} = (w.f.flags \cup {"inited"}) \ {"err"}
      BY <2>5, <2>7 DEF Follows
    <3>2. q.f.wbuf # <<>> => {"write", "inited"} \subseteq q.f.flags /\ "unbuf" \notin q.f.flags /\ q.f.wsize # 0
      BY <1>2, <2>4, <2>5, <2>7, <3>1 DEF Direct, Drained
    <3>3. hook'
      BY <1>2, <2>3, <2>4 DEF Registers, Sound
    <3>4. q.f.rpos = Len(q.f.rbuf) /\ q.f.rpos + back[s] <= Len(q.f.rbuf)
      BY <2>4, <2>8, <3>1 DEF Sound
    <3>5. q.f.rpos \in Nat /\ back[s] \in Nat
      BY <2>4, <3>1, OpenType DEF Works, File
    <3>6. (q.f.rpos + back[s] + 1)..Len(q.f.rbuf) = {}
      BY <3>4, <3>5
    <3>7. QED  BY <3>2, <3>3, <3>4, <3>6 DEF Sound
  <2>10. q \in Works /\ q.fd.path = fds[s].path /\ q.fd.append = fds[s].append
    BY <2>4, <2>5, <2>7 DEF Follows
  <2>11. hook' \in BOOLEAN /\ (hook => hook') /\ back' \in [Streams -> Nat]
    BY <2>3 DEF Registers, StreamsInv, TypeOK
  <2>12. back' = back  BY <2>3
  <2>13. Call(s, q, "write")
    BY <2>1, <2>3, <2>9, <2>10, <2>11, <2>12 DEF Call
  <2>14. Outcome(w, q, bs)
    <3>1. Meant(r) = Meant(w) /\ End(r) = End(w) /\ r.fd.append = w.fd.append
      BY <2>5 DEF Meant, End
    <3>2. QED  BY <2>7, <3>1 DEF Outcome, Puts, Keeps, Stored
  <2>15. q.f.rpos = w.f.rpos /\ q.f.rbuf = w.f.rbuf
    BY <2>5, <2>7 DEF Follows
  <2>16. QED  BY <2>2, <2>3, <2>8, <2>13, <2>14, <2>15
<1>3. QED  BY <1>1, <1>2

\* A flush keeps a stream sound; if it does not fail, what was last done no longer matters.
LEMMA FlushSound ==
  ASSUME StreamsInv, NEW s \in Streams, Open(s), NEW ok \in Nat, NEW q, q = FlushWriteBuf(Work(s, ok))
  PROVE  /\ q \in Works /\ q.fd.path = fds[s].path /\ q.fd.append = fds[s].append
         /\ Follows(Work(s, ok), q) /\ Keeps(Work(s, ok), q)
         /\ Sound(q.f, q.fd, q.c, hook, last[s], back[s])
         /\ ~q.eof => q.f.wbuf = <<>> /\ q.c = Meant(Work(s, ok))
                      /\ (last[s] # "read" => Sound(q.f, q.fd, q.c, hook, "none", back[s]))
         /\ q.eof => ok = 0
<1>1. PICK w : w = Work(s, ok)  OBVIOUS
<1>2. /\ w \in Works /\ w.f = streams[s] /\ w.fd = fds[s] /\ w.c = files[fds[s].path] /\ w.ok = ok /\ ~w.eof
      /\ Sound(w.f, w.fd, w.c, hook, last[s], back[s])
  BY <1>1, WorkType
<1>3. /\ Follows(w, q) /\ (q.eof => q.f.wbuf = w.f.wbuf /\ w.ok = 0)
      /\ (~q.eof => q.f.wbuf = <<>> /\ q.c = Meant(w))
      /\ (w.f.wbuf = <<>> => q = w)
  BY <1>1, <1>2, FlushWorks
<1>4. Keeps(w, q)  BY <1>1, <1>2, FlushKeeps
<1>5. q \in Works /\ q.fd.path = fds[s].path /\ q.fd.append = fds[s].append
  BY <1>2, <1>3 DEF Follows
<1>6. ASSUME NEW l \in {"none", "write"}, last[s] # "read", l = last[s] \/ q.f.wbuf = <<>>
      PROVE  Sound(q.f, q.fd, q.c, hook, l, back[s])
  <2>1. /\ q.f.rbuf = w.f.rbuf /\ q.f.rpos = w.f.rpos /\ q.f.wsize = w.f.wsize
        /\ q.f.flags \ {"err"} = w.f.flags \ {"err"} /\ (q.f.wbuf # <<>> => q.f.wbuf = w.f.wbuf)
    BY <1>3 DEF Follows
  <2>2. q.f.rpos = Len(q.f.rbuf) /\ q.f.rpos + back[s] <= Len(q.f.rbuf)
    BY <1>2, <1>6, <2>1 DEF Sound
  <2>3. q.f.rpos \in Nat /\ back[s] \in Nat
    BY <1>5, OpenType DEF Works, File
  <2>4. (q.f.rpos + back[s] + 1)..Len(q.f.rbuf) = {}
    BY <2>2, <2>3
  <2>5. /\ q.f.wbuf # <<>> => {"write", "inited"} \subseteq q.f.flags /\ "unbuf" \notin q.f.flags /\ q.f.wsize # 0
        /\ {"write", "inited"} \subseteq q.f.flags => hook
    BY <1>2, <2>1 DEF Sound
  <2>6. l # "write" => q.f.wbuf = <<>>
    BY <1>2, <1>6, <2>1 DEF Sound
  <2>7. QED  BY <2>2, <2>4, <2>5, <2>6 DEF Sound
<1>7. Sound(q.f, q.fd, q.c, hook, last[s], back[s])
  <2>1. CASE last[s] = "read"
    <3>1. q = w  BY <1>2, <1>3, <2>1 DEF Sound
    <3>2. QED  BY <1>2, <3>1
  <2>2. CASE last[s] # "read"
    <3>1. last[s] \in {"none", "write"}  BY <2>2, OpenType
    <3>2. QED  BY <1>6, <2>2, <3>1
  <2>3. QED  BY <2>1, <2>2
<1>8. ~q.eof => (last[s] # "read" => Sound(q.f, q.fd, q.c, hook, "none", back[s]))
  BY <1>3, <1>6
<1>9. QED  BY <1>1, <1>2, <1>3, <1>4, <1>5, <1>7, <1>8

\* fflush is a call of its stream; nothing was left unread.
LEMMA FflushCall ==
  ASSUME StreamsInv, NEW s \in Streams, Fflush(s)
  PROVE  \E ok \in Nat : \E q, did :
           /\ q = FlushWriteBuf(Work(s, ok)) /\ Call(s, q, did) /\ Answer(q) /\ UNCHANGED back
           /\ streams[s].rpos = Len(streams[s].rbuf)
<1>1. PICK ok \in {0, AllSucceed} : \E r \in {FlushWriteBuf(Work(s, ok))} :
        Commit(s, r, IF r.eof THEN last[s] ELSE "none") /\ Answer(r)
  BY DEF Fflush
<1>2. PICK q : q = FlushWriteBuf(Work(s, ok)) /\ Commit(s, q, IF q.eof THEN last[s] ELSE "none") /\ Answer(q)
  BY <1>1
<1>3. Open(s) /\ last[s] # "read" /\ UNCHANGED <<hook, back>> /\ ok \in Nat
  BY <1>1 DEF Fflush, Usable, AllSucceed
<1>4. /\ q \in Works /\ q.fd.path = fds[s].path /\ q.fd.append = fds[s].append
      /\ Sound(q.f, q.fd, q.c, hook, last[s], back[s])
      /\ ~q.eof => Sound(q.f, q.fd, q.c, hook, "none", back[s])
  BY <1>2, <1>3, FlushSound
<1>5. hook' \in BOOLEAN /\ back' \in [Streams -> Nat] /\ back' = back /\ hook' = hook
      /\ last[s] \in {"none", "read", "write"}
  BY <1>3, OpenType DEF StreamsInv, TypeOK
<1>6. PICK did : did = IF q.eof THEN last[s] ELSE "none"  OBVIOUS
<1>7. Call(s, q, did)
  BY <1>2, <1>3, <1>4, <1>5, <1>6 DEF Call
<1>8. streams[s].rpos = Len(streams[s].rbuf)
  BY <1>3 DEF StreamsInv, SoundAt, Sound
<1>9. QED  BY <1>2, <1>3, <1>7, <1>8

\* A FILE written out, field by field.
LEMMA FileFields ==
  ASSUME NEW f \in File
  PROVE  /\ f = [flags |-> f.flags, wbuf |-> f.wbuf, wsize |-> f.wsize, rbuf |-> f.rbuf, rpos |-> f.rpos,
                 ralloc |-> f.ralloc]
         /\ f.flags \in SUBSET AllFlags /\ f.wbuf \in Seq(Bytes) /\ f.wsize \in Nat /\ f.rbuf \in Seq(Bytes)
         /\ f.rpos \in Nat /\ f.ralloc \in BOOLEAN
BY DEF File

\* The records of a call written out, and what assigning one field makes of them.
FileOf(a1, a2, a3, a4, a5, a6) == [flags |-> a1, wbuf |-> a2, wsize |-> a3, rbuf |-> a4, rpos |-> a5, ralloc |-> a6]
WorkOf(f, d, c, ok, eof) == [f |-> f, fd |-> d, c |-> c, ok |-> ok, eof |-> eof]

WithFlags(r, x) == [r EXCEPT !.f.flags = x]
WithWsize(r, x) == [r EXCEPT !.f.wsize = x]
WithRbuf(r, x) == [r EXCEPT !.f.rbuf = x]
WithRpos(r, x) == [r EXCEPT !.f.rpos = x]
WithByte(r, n, x) == [r EXCEPT !.f.rbuf[n] = x]
WithOff(r, x) == [r EXCEPT !.fd.off = x]
ByteAt(a, n, x) == [a EXCEPT ![n] = x]
Ungot(r, n, b) == [r EXCEPT !.f.rbuf[n] = b, !.f.rpos = @ - 1, !.f.flags = @ \ {"eof"}]
Sought(r, p) == [r EXCEPT !.f.rpos = 0, !.f.rbuf = <<>>, !.f.flags = @ \ {"eof"}, !.fd.off = p]

\* An assignment to the flags, on a record of work written out.
LEMMA SetFlags ==
  ASSUME NEW a1, NEW a2, NEW a3, NEW a4, NEW a5, NEW a6, NEW d, NEW c, NEW ok, NEW eof, NEW x
  PROVE  WithFlags(WorkOf(FileOf(a1, a2, a3, a4, a5, a6), d, c, ok, eof), x)
            = WorkOf(FileOf(x, a2, a3, a4, a5, a6), d, c, ok, eof)
<1> DEFINE f == FileOf(a1, a2, a3, a4, a5, a6)
           g == FileOf(x, a2, a3, a4, a5, a6)
<1>1. [f EXCEPT !.flags = x] = g  BY DEF FileOf
<1> HIDE DEF f, g
<1>2. [WorkOf(f, d, c, ok, eof) EXCEPT !.f = g] = WorkOf(g, d, c, ok, eof)  BY DEF WorkOf
<1>3. [WorkOf(f, d, c, ok, eof) EXCEPT !.f.flags = x] = [WorkOf(f, d, c, ok, eof) EXCEPT !.f = g]
  BY <1>1 DEF WorkOf
<1>4. QED  BY <1>2, <1>3 DEF f, g, WithFlags

\* An assignment to the size of the buffer.
LEMMA SetWsize ==
  ASSUME NEW a1, NEW a2, NEW a3, NEW a4, NEW a5, NEW a6, NEW d, NEW c, NEW ok, NEW eof, NEW x
  PROVE  WithWsize(WorkOf(FileOf(a1, a2, a3, a4, a5, a6), d, c, ok, eof), x)
            = WorkOf(FileOf(a1, a2, x, a4, a5, a6), d, c, ok, eof)
<1> DEFINE f == FileOf(a1, a2, a3, a4, a5, a6)
           g == FileOf(a1, a2, x, a4, a5, a6)
<1>1. [f EXCEPT !.wsize = x] = g  BY DEF FileOf
<1> HIDE DEF f, g
<1>2. [WorkOf(f, d, c, ok, eof) EXCEPT !.f = g] = WorkOf(g, d, c, ok, eof)  BY DEF WorkOf
<1>3. [WorkOf(f, d, c, ok, eof) EXCEPT !.f.wsize = x] = [WorkOf(f, d, c, ok, eof) EXCEPT !.f = g]
  BY <1>1 DEF WorkOf
<1>4. QED  BY <1>2, <1>3 DEF f, g, WithWsize

\* An assignment to the buffer of what was read.
LEMMA SetRbuf ==
  ASSUME NEW a1, NEW a2, NEW a3, NEW a4, NEW a5, NEW a6, NEW d, NEW c, NEW ok, NEW eof, NEW x
  PROVE  WithRbuf(WorkOf(FileOf(a1, a2, a3, a4, a5, a6), d, c, ok, eof), x)
            = WorkOf(FileOf(a1, a2, a3, x, a5, a6), d, c, ok, eof)
<1> DEFINE f == FileOf(a1, a2, a3, a4, a5, a6)
           g == FileOf(a1, a2, a3, x, a5, a6)
<1>1. [f EXCEPT !.rbuf = x] = g  BY DEF FileOf
<1> HIDE DEF f, g
<1>2. [WorkOf(f, d, c, ok, eof) EXCEPT !.f = g] = WorkOf(g, d, c, ok, eof)  BY DEF WorkOf
<1>3. [WorkOf(f, d, c, ok, eof) EXCEPT !.f.rbuf = x] = [WorkOf(f, d, c, ok, eof) EXCEPT !.f = g]
  BY <1>1 DEF WorkOf
<1>4. QED  BY <1>2, <1>3 DEF f, g, WithRbuf

\* An assignment to the place in it.
LEMMA SetRpos ==
  ASSUME NEW a1, NEW a2, NEW a3, NEW a4, NEW a5, NEW a6, NEW d, NEW c, NEW ok, NEW eof, NEW x
  PROVE  WithRpos(WorkOf(FileOf(a1, a2, a3, a4, a5, a6), d, c, ok, eof), x)
            = WorkOf(FileOf(a1, a2, a3, a4, x, a6), d, c, ok, eof)
<1> DEFINE f == FileOf(a1, a2, a3, a4, a5, a6)
           g == FileOf(a1, a2, a3, a4, x, a6)
<1>1. [f EXCEPT !.rpos = x] = g  BY DEF FileOf
<1> HIDE DEF f, g
<1>2. [WorkOf(f, d, c, ok, eof) EXCEPT !.f = g] = WorkOf(g, d, c, ok, eof)  BY DEF WorkOf
<1>3. [WorkOf(f, d, c, ok, eof) EXCEPT !.f.rpos = x] = [WorkOf(f, d, c, ok, eof) EXCEPT !.f = g]
  BY <1>1 DEF WorkOf
<1>4. QED  BY <1>2, <1>3 DEF f, g, WithRpos

\* An assignment to one byte of it.
LEMMA SetByte ==
  ASSUME NEW a1, NEW a2, NEW a3, NEW a4, NEW a5, NEW a6, NEW d, NEW c, NEW ok, NEW eof, NEW n, NEW x
  PROVE  WithByte(WorkOf(FileOf(a1, a2, a3, a4, a5, a6), d, c, ok, eof), n, x)
            = WorkOf(FileOf(a1, a2, a3, ByteAt(a4, n, x), a5, a6), d, c, ok, eof)
<1> DEFINE f == FileOf(a1, a2, a3, a4, a5, a6)
           a == [a4 EXCEPT ![n] = x]
           g == FileOf(a1, a2, a3, a, a5, a6)
<1>1. [f EXCEPT !.rbuf = a] = g  BY DEF FileOf
<1>2. f.rbuf = a4  BY DEF FileOf
<1>3. a = [f.rbuf EXCEPT ![n] = x]  BY <1>2
<1>4. [f EXCEPT !.rbuf[n] = x] = [f EXCEPT !.rbuf = a]  BY <1>3
<1> HIDE DEF f, g, a
<1>5. [WorkOf(f, d, c, ok, eof) EXCEPT !.f = g] = WorkOf(g, d, c, ok, eof)  BY DEF WorkOf
<1>6. WorkOf(f, d, c, ok, eof).f = f  BY DEF WorkOf
<1>7. [WorkOf(f, d, c, ok, eof) EXCEPT !.f.rbuf[n] = x] = [WorkOf(f, d, c, ok, eof) EXCEPT !.f = g]
  BY <1>1, <1>4, <1>6
<1>8. QED  BY <1>5, <1>7 DEF f, g, a, WithByte, ByteAt

\* An assignment to the descriptor's offset.
LEMMA SetOff ==
  ASSUME NEW f, NEW d1, NEW d2, NEW d3, NEW c, NEW ok, NEW eof, NEW x
  PROVE  WithOff(WorkOf(f, [path |-> d1, off |-> d2, append |-> d3], c, ok, eof), x)
            = WorkOf(f, [path |-> d1, off |-> x, append |-> d3], c, ok, eof)
<1> DEFINE d == [path |-> d1, off |-> d2, append |-> d3]
           e == [path |-> d1, off |-> x, append |-> d3]
<1>1. [d EXCEPT !.off = x] = e  OBVIOUS
<1> HIDE DEF d, e
<1>2. [WorkOf(f, d, c, ok, eof) EXCEPT !.fd = e] = WorkOf(f, e, c, ok, eof)  BY DEF WorkOf
<1>3. [WorkOf(f, d, c, ok, eof) EXCEPT !.fd.off = x] = [WorkOf(f, d, c, ok, eof) EXCEPT !.fd = e]
  BY <1>1 DEF WorkOf
<1>4. QED  BY <1>2, <1>3 DEF d, e, WithOff

\* A record of work is what its fields say.
LEMMA WorkFields ==
  ASSUME NEW r \in Works, NEW f, f = r.f
  PROVE  /\ r = WorkOf(FileOf(f.flags, f.wbuf, f.wsize, f.rbuf, f.rpos, f.ralloc), r.fd, r.c, r.ok, r.eof)
         /\ r.fd = [path |-> r.fd.path, off |-> r.fd.off, append |-> r.fd.append]
<1>1. f \in File /\ r.fd \in Fd  BY DEF Works
<1>2. f = FileOf(f.flags, f.wbuf, f.wsize, f.rbuf, f.rpos, f.ralloc)
  BY <1>1, FileFields DEF FileOf
<1>3. r = WorkOf(f, r.fd, r.c, r.ok, r.eof)  BY DEF Works, WorkOf
<1>4. r.fd = [path |-> r.fd.path, off |-> r.fd.off, append |-> r.fd.append]  BY <1>1 DEF Fd
<1>5. QED  BY <1>2, <1>3, <1>4

\* What is put back and what a seek leaves, field by field.
LEMMA UngetUpdate ==
  ASSUME NEW a1, NEW a2, NEW a3, NEW a4, NEW a5, NEW a6, NEW d, NEW c, NEW ok, NEW eof, NEW n, NEW b,
         NEW r, r = WorkOf(FileOf(a1, a2, a3, a4, a5, a6), d, c, ok, eof)
  PROVE  Ungot(r, n, b)
           = WorkOf(FileOf(a1 \ {"eof"}, a2, a3, ByteAt(a4, n, b), a5 - 1, a6), d, c, ok, eof)
<1>1. PICK x, y, z : x = a5 - 1 /\ y = a1 \ {"eof"} /\ z = ByteAt(a4, n, b)  OBVIOUS
<1>2. r.f.rpos - 1 = x /\ r.f.flags \ {"eof"} = y  BY <1>1 DEF WorkOf, FileOf
<1>3. Ungot(r, n, b) = WithFlags(WithRpos(WithByte(r, n, b), x), y)
  <2>1. [r EXCEPT !.f.rbuf[n] = b, !.f.rpos = @ - 1, !.f.flags = @ \ {"eof"}]
          = [[[r EXCEPT !.f.rbuf[n] = b] EXCEPT !.f.rpos = r.f.rpos - 1] EXCEPT !.f.flags = r.f.flags \ {"eof"}]
    OBVIOUS
  <2>2. QED  BY <1>2, <2>1 DEF WithFlags, WithRpos, WithByte, Ungot
<1>4. WithByte(r, n, b) = WorkOf(FileOf(a1, a2, a3, z, a5, a6), d, c, ok, eof)
  BY <1>1, SetByte
<1>5. WithRpos(WithByte(r, n, b), x) = WorkOf(FileOf(a1, a2, a3, z, x, a6), d, c, ok, eof)
  BY <1>4, SetRpos
<1>6. WithFlags(WithRpos(WithByte(r, n, b), x), y) = WorkOf(FileOf(y, a2, a3, z, x, a6), d, c, ok, eof)
  BY <1>5, SetFlags
<1>7. QED  BY <1>1, <1>3, <1>6

\* What fseek makes of the record.
LEMMA SeekUpdate ==
  ASSUME NEW a1, NEW a2, NEW a3, NEW a4, NEW a5, NEW a6, NEW d1, NEW d2, NEW d3, NEW c, NEW ok, NEW eof, NEW p,
         NEW r, r = WorkOf(FileOf(a1, a2, a3, a4, a5, a6), [path |-> d1, off |-> d2, append |-> d3], c, ok, eof)
  PROVE  Sought(r, p)
           = WorkOf(FileOf(a1 \ {"eof"}, a2, a3, <<>>, 0, a6), [path |-> d1, off |-> p, append |-> d3], c, ok, eof)
<1>1. PICK y, z, d : y = a1 \ {"eof"} /\ z = <<>> /\ d = [path |-> d1, off |-> d2, append |-> d3]  OBVIOUS
<1>2. r.f.flags \ {"eof"} = y  BY <1>1 DEF WorkOf, FileOf
<1>3. Sought(r, p) = WithOff(WithFlags(WithRbuf(WithRpos(r, 0), z), y), p)
  <2>1. [r EXCEPT !.f.rpos = 0, !.f.rbuf = <<>>, !.f.flags = @ \ {"eof"}, !.fd.off = p]
          = [[[[r EXCEPT !.f.rpos = 0] EXCEPT !.f.rbuf = <<>>] EXCEPT !.f.flags = r.f.flags \ {"eof"}]
               EXCEPT !.fd.off = p]
    OBVIOUS
  <2>2. QED  BY <1>1, <1>2, <2>1 DEF WithFlags, WithRpos, WithRbuf, WithOff, Sought
<1>4. WithRpos(r, 0) = WorkOf(FileOf(a1, a2, a3, a4, 0, a6), d, c, ok, eof)
  BY <1>1, SetRpos
<1>5. WithRbuf(WithRpos(r, 0), z) = WorkOf(FileOf(a1, a2, a3, z, 0, a6), d, c, ok, eof)
  BY <1>4, SetRbuf
<1>6. WithFlags(WithRbuf(WithRpos(r, 0), z), y) = WorkOf(FileOf(y, a2, a3, z, 0, a6), d, c, ok, eof)
  BY <1>5, SetFlags
<1>7. PICK f : f = FileOf(y, a2, a3, z, 0, a6)  OBVIOUS
<1>8. WithOff(WithFlags(WithRbuf(WithRpos(r, 0), z), y), p) = WorkOf(f, [path |-> d1, off |-> p, append |-> d3], c, ok, eof)
  BY <1>1, <1>6, <1>7, SetOff
<1>9. QED  BY <1>1, <1>3, <1>7, <1>8

\* The next byte is in the buffer of what was read.
LEMMA FgetcBufferedCall ==
  ASSUME StreamsInv, NEW s \in Streams, FgetcBuffered(s)
  PROVE  \E q : /\ Call(s, q, "read") /\ q.c = files[fds[s].path] /\ q.fd = fds[s]
                /\ streams[s].wbuf = <<>> /\ q.f.wbuf = <<>>
                /\ q.f.rbuf = streams[s].rbuf /\ q.f.rpos = streams[s].rpos + 1
                /\ streams[s].rpos < Len(streams[s].rbuf)
<1>1. PICK w, q : w = Work(s, AllSucceed) /\ q = [w EXCEPT !.f.rpos = @ + 1]  OBVIOUS
<1>2. /\ Open(s) /\ last[s] # "write" /\ Unread(s) > 0 /\ Commit(s, q, "read")
      /\ back' = [back EXCEPT ![s] = IF @ > 0 THEN @ - 1 ELSE 0] /\ hook' = hook
  BY <1>1 DEF FgetcBuffered, Usable, MayRead
<1>3. /\ w \in Works /\ w.f = streams[s] /\ w.fd = fds[s] /\ w.c = files[fds[s].path]
      /\ Sound(w.f, w.fd, w.c, hook, last[s], back[s])
  BY <1>1, <1>2, WorkType DEF AllSucceed
<1>4. PICK f \in File, k \in Nat : f = w.f /\ k = back[s]
  BY <1>3, OpenType DEF Works
<1>5. /\ f = [flags |-> f.flags, wbuf |-> f.wbuf, wsize |-> f.wsize, rbuf |-> f.rbuf, rpos |-> f.rpos,
                ralloc |-> f.ralloc]
      /\ f.rbuf \in Seq(Bytes) /\ f.rpos \in Nat
  BY FileFields
<1>6. PICK g : g = [f EXCEPT !.rpos = @ + 1]  OBVIOUS
<1>7. /\ g \in File /\ g.flags = f.flags /\ g.wbuf = f.wbuf /\ g.wsize = f.wsize /\ g.rbuf = f.rbuf
      /\ g.rpos = f.rpos + 1
  BY <1>6 DEF File
<1>8. q = [f |-> g, fd |-> w.fd, c |-> w.c, ok |-> w.ok, eof |-> w.eof]
  <2>1. w \in [f : File, fd : Fd, c : Seq(Bytes), ok : Nat, eof : BOOLEAN]  BY <1>3 DEF Works
  <2>2. QED  BY <1>1, <1>4, <1>6, <2>1
<1>9. q \in Works /\ q.f = g /\ q.fd = w.fd /\ q.c = w.c
  <2>1. w.fd \in Fd  BY <1>3 DEF Works
  <2>2. QED  BY <1>3, <1>7, <1>8, <2>1, WithFile
<1>10. f.wbuf = <<>> /\ f.rpos < Len(f.rbuf)
  <2>1. f.wbuf = <<>>  BY <1>2, <1>3, <1>4 DEF Sound
  <2>2. Len(f.rbuf) - f.rpos > 0  BY <1>2, <1>3, <1>4 DEF Unread
  <2>3. QED  BY <1>5, <2>1, <2>2
<1>11. back' \in [Streams -> Nat] /\ back'[s] = (IF k > 0 THEN k - 1 ELSE 0) /\ \A t \in Streams \ {s} : back'[t] = back[t]
  BY <1>2, <1>4 DEF StreamsInv, TypeOK
<1>12. Sound(g, w.fd, w.c, hook, "read", back'[s])
  <2>1. PICK n \in Nat, j \in Nat : n = Len(f.rbuf) /\ j = back'[s] /\ j = IF k > 0 THEN k - 1 ELSE 0
    BY <1>5, <1>11
  <2>2. f.rpos + k <= n  BY <1>3, <1>4, <2>1 DEF Sound
  <2>3. f.rpos + 1 + j <= n /\ f.rpos + k + 1 <= f.rpos + 1 + j + 1
    BY <1>5, <1>10, <2>1, <2>2
  <2>4. \A i \in (f.rpos + 1 + j + 1)..n : i \in (f.rpos + k + 1)..n
    BY <1>5, <2>1, <2>3
  <2>5. QED  BY <1>3, <1>4, <1>7, <1>10, <2>1, <2>3, <2>4 DEF Sound
<1>13. Call(s, q, "read")
  BY <1>2, <1>3, <1>9, <1>11, <1>12 DEF Call, StreamsInv, TypeOK
<1>14. QED  BY <1>3, <1>4, <1>7, <1>9, <1>10, <1>13

\* Clearing the indicators keeps everything else.
LEMMA ClearerrCall ==
  ASSUME StreamsInv, NEW s \in Streams, Clearerr(s)
  PROVE  \E q : /\ Call(s, q, last[s]) /\ q.c = files[fds[s].path] /\ q.fd = fds[s]
                /\ q.f.wbuf = streams[s].wbuf /\ q.f.rbuf = streams[s].rbuf /\ q.f.rpos = streams[s].rpos
<1>1. PICK w, q : w = Work(s, AllSucceed) /\ q = [w EXCEPT !.f.flags = @ \ {"eof", "err"}]  OBVIOUS
<1>2. Open(s) /\ Commit(s, q, last[s]) /\ UNCHANGED <<hook, back>>
  BY <1>1 DEF Clearerr, Usable
<1>3. /\ w \in Works /\ w.f = streams[s] /\ w.fd = fds[s] /\ w.c = files[fds[s].path]
      /\ Sound(w.f, w.fd, w.c, hook, last[s], back[s])
  BY <1>1, <1>2, WorkType DEF AllSucceed
<1>4. PICK f \in File : f = w.f  BY <1>3 DEF Works
<1>5. PICK g : g = [f EXCEPT !.flags = @ \ {"eof", "err"}]  OBVIOUS
<1>6. /\ g \in File /\ g.flags = f.flags \ {"eof", "err"} /\ g.wbuf = f.wbuf /\ g.wsize = f.wsize
      /\ g.rbuf = f.rbuf /\ g.rpos = f.rpos
  BY <1>5 DEF File
<1>7. q = [f |-> g, fd |-> w.fd, c |-> w.c, ok |-> w.ok, eof |-> w.eof]
  <2>1. w \in [f : File, fd : Fd, c : Seq(Bytes), ok : Nat, eof : BOOLEAN]  BY <1>3 DEF Works
  <2>2. QED  BY <1>1, <1>4, <1>5, <2>1
<1>8. q \in Works /\ q.f = g /\ q.fd = w.fd /\ q.c = w.c
  <2>1. w.fd \in Fd  BY <1>3 DEF Works
  <2>2. QED  BY <1>3, <1>6, <1>7, <2>1, WithFile
<1>9. Sound(g, w.fd, w.c, hook, last[s], back[s])
  <2>1. f.flags \subseteq AllFlags  BY DEF File
  <2>2. /\ {"write", "inited"} \subseteq g.flags <=> {"write", "inited"} \subseteq f.flags
        /\ "unbuf" \in g.flags <=> "unbuf" \in f.flags
    BY <1>6, <2>1
  <2>3. QED  BY <1>3, <1>4, <1>6, <2>2 DEF Sound
<1>10. hook' \in BOOLEAN /\ back' \in [Streams -> Nat] /\ back' = back /\ hook' = hook
       /\ last[s] \in {"none", "read", "write"}
  BY <1>2, OpenType DEF StreamsInv, TypeOK
<1>11. Call(s, q, last[s])
  BY <1>2, <1>3, <1>8, <1>9, <1>10 DEF Call
<1>12. QED  BY <1>3, <1>4, <1>6, <1>8, <1>11

\* The byte put back takes the place of the one before the next.
LEMMA UngetcCall ==
  ASSUME StreamsInv, NEW s \in Streams, NEW b \in Bytes, Ungetc(s, b)
  PROVE  \/ UNCHANGED <<program, files, fds, streams, registry, hook, handlers, phase, opened, last, back>>
            /\ reply' = "failed"
         \/ /\ reply' = "ok"
            /\ \E q : /\ Call(s, q, "read") /\ q.c = files[fds[s].path] /\ q.fd = fds[s]
                      /\ streams[s].wbuf = <<>> /\ q.f.wbuf = <<>> /\ streams[s].rpos > 0
                      /\ streams[s].rpos \in 1..Len(streams[s].rbuf)
                      /\ q.f.rbuf = [streams[s].rbuf EXCEPT ![streams[s].rpos] = b]
                      /\ q.f.rpos = streams[s].rpos - 1 /\ back'[s] = back[s] + 1
<1>1. CASE ~(streams[s].ralloc /\ streams[s].rpos > 0)
  BY <1>1 DEF Ungetc
<1>2. CASE streams[s].ralloc /\ streams[s].rpos > 0
  <2>1. PICK w, q : w = Work(s, AllSucceed)
            /\ q = [w EXCEPT !.f.rbuf[streams[s].rpos] = b, !.f.rpos = @ - 1, !.f.flags = @ \ {"eof"}]
    OBVIOUS
  <2>2. Open(s) /\ last[s] # "write" /\ reply' = "ok" /\ back' = [back EXCEPT ![s] = @ + 1] /\ hook' = hook
        /\ Commit(s, q, "read")
    BY <1>2, <2>1 DEF Ungetc, Usable, MayRead
  <2>3. /\ w \in Works /\ w.f = streams[s] /\ w.fd = fds[s] /\ w.c = files[fds[s].path]
        /\ Sound(w.f, w.fd, w.c, hook, last[s], back[s])
    BY <2>1, <2>2, WorkType DEF AllSucceed
  <2>4. PICK f \in File, k \in Nat : f = w.f /\ k = back[s]
    BY <2>3, OpenType DEF Works
  <2>5. /\ f.rbuf \in Seq(Bytes) /\ f.rpos \in Nat /\ f.rpos > 0 /\ f.rpos + k <= Len(f.rbuf) /\ f.wbuf = <<>>
        /\ f.flags \subseteq AllFlags
    BY <1>2, <2>2, <2>3, <2>4, FileFields DEF Sound
  <2>6. PICK x \in Seq(Bytes) : /\ x = [f.rbuf EXCEPT ![f.rpos] = b] /\ Len(x) = Len(f.rbuf)
                                /\ \A i \in 1..Len(x) : i # f.rpos => x[i] = f.rbuf[i]
    <3>1. [f.rbuf EXCEPT ![f.rpos] = b] \in Seq(Bytes) /\ Len([f.rbuf EXCEPT ![f.rpos] = b]) = Len(f.rbuf)
      BY <2>5
    <3>2. \A i \in 1..Len(f.rbuf) : i # f.rpos => [f.rbuf EXCEPT ![f.rpos] = b][i] = f.rbuf[i]
      BY <2>5
    <3>3. QED  BY <3>1, <3>2
  <2>7. PICK g : g = [flags |-> f.flags \ {"eof"}, wbuf |-> f.wbuf, wsize |-> f.wsize, rbuf |-> x,
                      rpos |-> f.rpos - 1, ralloc |-> f.ralloc]
    OBVIOUS
  <2>8. /\ g \in File /\ g.flags = f.flags \ {"eof"} /\ g.wbuf = f.wbuf /\ g.wsize = f.wsize /\ g.rbuf = x
        /\ g.rpos = f.rpos - 1
    BY <2>5, <2>7, FileFields DEF File
  <2>9. q = [f |-> g, fd |-> w.fd, c |-> w.c, ok |-> w.ok, eof |-> w.eof]
    <3>1. PICK n : n = f.rpos /\ n = streams[s].rpos  BY <2>3, <2>4
    <3>2. w = WorkOf(FileOf(f.flags, f.wbuf, f.wsize, f.rbuf, f.rpos, f.ralloc), w.fd, w.c, w.ok, w.eof)
      BY <2>3, <2>4, WorkFields
    <3>3. Ungot(w, n, b)
            = WorkOf(FileOf(f.flags \ {"eof"}, f.wbuf, f.wsize, ByteAt(f.rbuf, n, b), f.rpos - 1, f.ralloc),
                     w.fd, w.c, w.ok, w.eof)
      BY <3>2, UngetUpdate
    <3>4. q = Ungot(w, n, b) /\ x = ByteAt(f.rbuf, n, b)
      BY <2>1, <2>6, <3>1 DEF Ungot, ByteAt
    <3>5. QED  BY <2>7, <3>3, <3>4 DEF WorkOf, FileOf
  <2>10. q \in Works /\ q.f = g /\ q.fd = w.fd /\ q.c = w.c
    <3>1. w.fd \in Fd  BY <2>3 DEF Works
    <3>2. QED  BY <2>3, <2>8, <2>9, <3>1, WithFile
  <2>11. back' \in [Streams -> Nat] /\ back'[s] = k + 1 /\ \A t \in Streams \ {s} : back'[t] = back[t]
    BY <2>2, <2>4 DEF StreamsInv, TypeOK
  <2>12. Sound(g, w.fd, w.c, hook, "read", k + 1)
    <3>1. {"write", "inited"} \subseteq g.flags <=> {"write", "inited"} \subseteq f.flags
      BY <2>5, <2>8
    <3>2. PICK n \in Nat, m \in Nat : n = Len(f.rbuf) /\ m = f.rpos /\ n = Len(x)  BY <2>5, <2>6
    <3>3. m - 1 + (k + 1) <= n /\ m - 1 + (k + 1) + 1 = m + k + 1
      BY <2>5, <3>2
    <3>4. \A i \in (m + k + 1)..n : i \in 1..n /\ i # m
      BY <3>2
    <3>5. ASSUME NEW i \in (m + k + 1)..n
          PROVE  n <= w.fd.off /\ w.fd.off <= Len(w.c) /\ x[i] = w.c[w.fd.off - n + i]
      <4>1. n <= w.fd.off /\ w.fd.off <= Len(w.c) /\ f.rbuf[i] = w.c[w.fd.off - n + i]
        BY <2>3, <2>4, <3>2 DEF Sound
      <4>2. x[i] = f.rbuf[i]  BY <2>6, <3>2, <3>4
      <4>3. QED  BY <4>1, <4>2
    <3>6. /\ g.wbuf = <<>> /\ ({"write", "inited"} \subseteq g.flags => hook)
          /\ g.rpos + (k + 1) <= Len(g.rbuf) /\ g.rpos + (k + 1) + 1 = m + k + 1 /\ Len(g.rbuf) = n
      BY <2>3, <2>4, <2>5, <2>8, <3>1, <3>2, <3>3 DEF Sound
    <3>7. QED  BY <2>8, <3>5, <3>6 DEF Sound
  <2>13. Call(s, q, "read")
    BY <2>2, <2>3, <2>10, <2>11, <2>12 DEF Call, StreamsInv, TypeOK
  <2>14. f.rpos \in 1..Len(f.rbuf)  BY <2>5
  <2>15. QED  BY <1>2, <2>2, <2>3, <2>4, <2>5, <2>6, <2>8, <2>10, <2>11, <2>13, <2>14
<1>3. QED  BY <1>1, <1>2

\* What a program seeks by.
LEMMA ProgramSeeks ==
  ASSUME StreamsInv, NEW offset \in program.offsets
  PROVE  offset \in Int /\ offset \in UNION {g.offsets : g \in Programs}
<1>1. program \in Programs  BY DEF StreamsInv, TypeOK
<1>2. QED  BY <1>1, FilesAssumption

\* Where a seek counts from once what w held is written, and whether a place can be reached.
From(w, whence) == IF whence = "set" THEN 0 ELSE IF whence = "cur" THEN End(w) ELSE Len(Meant(w))
Reached(s, to) == fds[s].path # Terminal /\ to >= 0

\* A seek flushes and forgets what was read, whether the host goes to the place or refuses.
LEMMA FseekCall ==
  ASSUME StreamsInv, NEW s \in Streams, NEW whence \in Whences, NEW offset \in Int, Fseek(s, whence, offset)
  PROVE  \E q, did : \E w \in {Work(s, AllSucceed)} : \E to \in {From(w, whence) + offset} :
           /\ Call(s, q, did) /\ q.c = Meant(w)
           /\ q.f.wbuf = <<>> /\ q.f.rbuf = <<>> /\ q.f.rpos = 0
           /\ q.fd.off = IF Reached(s, to) THEN to ELSE End(w)
           /\ program.careful => Unread(s) = 0 \/ (whence # "cur" /\ Reached(s, to))
           /\ back'[s] = 0 /\ reply' = IF Reached(s, to) THEN "ok" ELSE "failed"
<1>1. PICK r, to : /\ r = FlushWriteBuf(Work(s, AllSucceed)) /\ to = Base(r, whence) + offset
                   /\ program.careful => Unread(s) = 0 \/ (whence # "cur" /\ Seeks(r, to))
                   /\ Commit(s, [r EXCEPT !.f.rpos = 0, !.f.rbuf = <<>>, !.f.flags = @ \ {"eof"},
                                          !.fd.off = IF Seeks(r, to) THEN to ELSE @],
                             IF Seeks(r, to) THEN "none" ELSE last[s])
                   /\ reply' = IF Seeks(r, to) THEN "ok" ELSE "failed"
  BY DEF Fseek
<1>2. PICK p, did : /\ p = (IF Seeks(r, to) THEN to ELSE r.fd.off)
                    /\ did = (IF Seeks(r, to) THEN "none" ELSE last[s])
  OBVIOUS
<1>3. PICK q : q = [r EXCEPT !.f.rpos = 0, !.f.rbuf = <<>>, !.f.flags = @ \ {"eof"}, !.fd.off = p]  OBVIOUS
<1>4. Open(s) /\ hook' = hook /\ back' = [back EXCEPT ![s] = 0] /\ Commit(s, q, did)
  <2>1. [r EXCEPT !.f.rpos = 0, !.f.rbuf = <<>>, !.f.flags = @ \ {"eof"},
                  !.fd.off = IF Seeks(r, to) THEN to ELSE @] = q
    BY <1>2, <1>3
  <2>2. Open(s) /\ hook' = hook /\ back' = [back EXCEPT ![s] = 0]  BY DEF Fseek, Usable
  <2>3. QED  BY <1>1, <1>2, <2>1, <2>2
<1>5. PICK w : w = Work(s, AllSucceed)  OBVIOUS
<1>6. /\ r \in Works /\ r.fd.path = fds[s].path /\ r.fd.append = fds[s].append
      /\ Sound(r.f, r.fd, r.c, hook, last[s], back[s]) /\ r.f.wbuf = <<>> /\ r.c = Meant(w) /\ Keeps(w, r)
  <2>1. AllSucceed \in Nat /\ AllSucceed # 0  BY DEF AllSucceed
  <2>2. QED  BY <1>1, <1>4, <1>5, <2>1, FlushSound
<1>7. r.fd.off = End(w)  BY <1>6, NothingHeld DEF Keeps
<1>8. Base(r, whence) = From(w, whence)  BY <1>6, <1>7 DEF Base, From
<1>9. Seeks(r, to) <=> Reached(s, to)  BY <1>6 DEF Seeks, Reached
<1>10. PICK f \in File, d \in Fd : f = r.f /\ d = r.fd  BY <1>6 DEF Works
<1>11. p \in Nat
  <2>1. r.fd.off \in Nat /\ r.c \in Seq(Bytes)  BY <1>6 DEF Works, Fd
  <2>2. Base(r, whence) \in Int  BY <2>1 DEF Base
  <2>3. to \in Int /\ (Seeks(r, to) => to >= 0)  BY <1>1, <2>2 DEF Seeks
  <2>4. QED  BY <1>2, <2>1, <2>3
<1>12. <<>> \in Seq(Bytes) /\ Len(<<>>) = 0  OBVIOUS
<1>13. PICK g, e : g = [flags |-> f.flags \ {"eof"}, wbuf |-> f.wbuf, wsize |-> f.wsize, rbuf |-> <<>>,
                        rpos |-> 0, ralloc |-> f.ralloc]
                   /\ e = [path |-> d.path, off |-> p, append |-> d.append]
  OBVIOUS
<1>14. /\ g \in File /\ g.flags = f.flags \ {"eof"} /\ g.wbuf = f.wbuf /\ g.rbuf = <<>> /\ g.rpos = 0
       /\ e \in Fd /\ e.path = d.path /\ e.off = p /\ e.append = d.append
  BY <1>11, <1>12, <1>13, FileFields DEF File, Fd
<1>15. q = [f |-> g, fd |-> e, c |-> r.c, ok |-> r.ok, eof |-> r.eof]
  <2>1. r = WorkOf(FileOf(f.flags, f.wbuf, f.wsize, f.rbuf, f.rpos, f.ralloc),
                   [path |-> d.path, off |-> d.off, append |-> d.append], r.c, r.ok, r.eof)
    BY <1>6, <1>10, WorkFields
  <2>2. Sought(r, p)
          = WorkOf(FileOf(f.flags \ {"eof"}, f.wbuf, f.wsize, <<>>, 0, f.ralloc),
                   [path |-> d.path, off |-> p, append |-> d.append], r.c, r.ok, r.eof)
    BY <2>1, SeekUpdate
  <2>3. q = Sought(r, p)  BY <1>3 DEF Sought
  <2>4. QED  BY <1>13, <2>2, <2>3 DEF WorkOf, FileOf
<1>16. q \in Works /\ q.f = g /\ q.fd = e /\ q.c = r.c
  BY <1>6, <1>14, <1>15, WithFile
<1>17. back' \in [Streams -> Nat] /\ back'[s] = 0 /\ \A t \in Streams \ {s} : back'[t] = back[t]
  BY <1>4 DEF StreamsInv, TypeOK
<1>18. did \in {"none", "read", "write"}  BY <1>2, OpenType
<1>19. Sound(g, e, r.c, hook, did, 0)
  <2>1. f.flags \subseteq AllFlags  BY FileFields
  <2>2. {"write", "inited"} \subseteq g.flags <=> {"write", "inited"} \subseteq f.flags
    BY <1>14, <2>1
  <2>3. PICK n : n = <<>> /\ Len(n) = 0  BY <1>12
  <2>4. g.rpos = Len(g.rbuf) /\ g.rpos + 0 <= Len(g.rbuf) /\ (g.rpos + 0 + 1)..Len(g.rbuf) = {}
    BY <1>14, <2>3
  <2>5. QED  BY <1>6, <1>10, <1>14, <2>2, <2>4 DEF Sound
<1>20. Call(s, q, did)
  BY <1>4, <1>6, <1>10, <1>14, <1>16, <1>17, <1>18, <1>19 DEF Call, StreamsInv, TypeOK
<1>21. q.fd.off = IF Reached(s, to) THEN to ELSE End(w)
  BY <1>2, <1>7, <1>9, <1>14, <1>16
<1>22. to = From(w, whence) + offset  BY <1>1, <1>8
<1>23. QED  BY <1>1, <1>5, <1>6, <1>9, <1>10, <1>14, <1>16, <1>17, <1>20, <1>21, <1>22

\* A read of the host gives bytes of the file from the offset on, or only an indicator.
Fails(r) == [r EXCEPT !.eof = TRUE]
FailsWith(r, x) == [r EXCEPT !.eof = TRUE, !.f.flags = x]
Reads(r, b, n) == [r EXCEPT !.f.rbuf = b, !.f.rpos = 0, !.fd.off = n]

\* A read that fails leaves only flags.
LEMMA FailsWithWorks ==
  ASSUME NEW r \in Works, NEW x \in SUBSET AllFlags, NEW q, q = FailsWith(r, x)
  PROVE  /\ q \in Works /\ q.eof /\ q.fd = r.fd /\ q.c = r.c
         /\ q.f.flags = x /\ q.f.wbuf = r.f.wbuf /\ q.f.wsize = r.f.wsize /\ q.f.rbuf = r.f.rbuf
         /\ q.f.rpos = r.f.rpos /\ q.f.ralloc = r.f.ralloc
<1>1. /\ r \in [f : File, fd : Fd, c : Seq(Bytes), ok : Nat, eof : BOOLEAN] /\ r.f \in File
  BY DEF Works
<1>2. PICK g : g = [r.f EXCEPT !.flags = x]  OBVIOUS
<1>3. /\ g \in File /\ g.flags = x /\ g.wbuf = r.f.wbuf /\ g.wsize = r.f.wsize /\ g.rbuf = r.f.rbuf
      /\ g.rpos = r.f.rpos /\ g.ralloc = r.f.ralloc
  BY <1>1, <1>2 DEF File
<1>4. q = [f |-> g, fd |-> r.fd, c |-> r.c, ok |-> r.ok, eof |-> TRUE]
  BY <1>1, <1>2 DEF FailsWith
<1>5. QED  BY <1>1, <1>3, <1>4 DEF Works

\* A call that is refused leaves the record alone.
LEMMA FailsWorks ==
  ASSUME NEW r \in Works, NEW q, q = Fails(r)
  PROVE  q \in Works /\ q.eof /\ q.fd = r.fd /\ q.c = r.c /\ q.f = r.f
<1>1. /\ r \in [f : File, fd : Fd, c : Seq(Bytes), ok : Nat, eof : BOOLEAN]
  BY DEF Works
<1>2. q = [f |-> r.f, fd |-> r.fd, c |-> r.c, ok |-> r.ok, eof |-> TRUE]
  BY <1>1 DEF Fails
<1>3. QED  BY <1>1, <1>2 DEF Works

ReadInto(r, q, b, n) ==
  /\ q \in Works /\ q.eof = r.eof /\ q.c = r.c /\ q.fd.path = r.fd.path /\ q.fd.append = r.fd.append
  /\ q.fd.off = n /\ q.f.flags = r.f.flags /\ q.f.wbuf = r.f.wbuf /\ q.f.rbuf = b /\ q.f.rpos = 1

\* A read of the host fills the buffer and moves the offset.
LEMMA ReadsWorks ==
  ASSUME NEW r \in Works, NEW b \in Seq(Bytes), NEW n \in Nat, NEW q, q = WithRpos(Reads(r, b, n), 1)
  PROVE  ReadInto(r, q, b, n)
<1>1. PICK f \in File, d \in Fd : f = r.f /\ d = r.fd  BY DEF Works
<1>2. r = WorkOf(FileOf(f.flags, f.wbuf, f.wsize, f.rbuf, f.rpos, f.ralloc),
                 [path |-> d.path, off |-> d.off, append |-> d.append], r.c, r.ok, r.eof)
  BY <1>1, WorkFields
<1>3. Reads(r, b, n) = WithOff(WithRpos(WithRbuf(r, b), 0), n)
  <2>1. Reads(r, b, n) = [[[r EXCEPT !.f.rbuf = b] EXCEPT !.f.rpos = 0] EXCEPT !.fd.off = n]  BY DEF Reads
  <2>2. QED  BY <2>1 DEF WithOff, WithRpos, WithRbuf
<1>4. PICK e : e = [path |-> d.path, off |-> d.off, append |-> d.append]  OBVIOUS
<1>5. WithRbuf(r, b) = WorkOf(FileOf(f.flags, f.wbuf, f.wsize, b, f.rpos, f.ralloc), e, r.c, r.ok, r.eof)
  BY <1>2, <1>4, SetRbuf
<1>6. WithRpos(WithRbuf(r, b), 0) = WorkOf(FileOf(f.flags, f.wbuf, f.wsize, b, 0, f.ralloc), e, r.c, r.ok, r.eof)
  BY <1>5, SetRpos
<1>7. PICK g : g = FileOf(f.flags, f.wbuf, f.wsize, b, 0, f.ralloc)  OBVIOUS
<1>8. Reads(r, b, n) = WorkOf(g, [path |-> d.path, off |-> n, append |-> d.append], r.c, r.ok, r.eof)
  BY <1>3, <1>4, <1>6, <1>7, SetOff
<1>9. PICK h : h = [path |-> d.path, off |-> n, append |-> d.append]  OBVIOUS
<1>10. q = WorkOf(FileOf(f.flags, f.wbuf, f.wsize, b, 1, f.ralloc), h, r.c, r.ok, r.eof)
  BY <1>7, <1>8, <1>9, SetRpos
<1>11. PICK x : x = FileOf(f.flags, f.wbuf, f.wsize, b, 1, f.ralloc)  OBVIOUS
<1>12. x \in File /\ x.flags = f.flags /\ x.wbuf = f.wbuf /\ x.rbuf = b /\ x.rpos = 1
  BY <1>11, FileFields DEF FileOf, File
<1>13. h \in Fd /\ h.path = d.path /\ h.off = n /\ h.append = d.append
  BY <1>9 DEF Fd
<1>14. q = [f |-> x, fd |-> h, c |-> r.c, ok |-> r.ok, eof |-> r.eof]  BY <1>10, <1>11 DEF WorkOf
<1>16. q \in Works /\ q.f = x /\ q.fd = h /\ q.c = r.c /\ q.eof = r.eof
  BY <1>12, <1>13, <1>14, WithFile
<1>17. QED  BY <1>1, <1>12, <1>13, <1>16 DEF ReadInto

\* Of the host's read of the next byte: an indicator, or the buffer filled with what the file has at the offset.
LEMMA FgetcRefillCall ==
  ASSUME StreamsInv, NEW s \in Streams, FgetcRefill(s)
  PROVE  \E q : /\ Call(s, q, "read") /\ q.c = files[fds[s].path] /\ UNCHANGED back
                /\ streams[s].wbuf = <<>> /\ q.f.wbuf = <<>> /\ streams[s].rpos = Len(streams[s].rbuf) /\ back[s] = 0
                /\ \/ /\ reply' = "failed" /\ q.fd = fds[s]
                      /\ q.f.rbuf = streams[s].rbuf /\ q.f.rpos = streams[s].rpos
                   \/ /\ fds[s].off < Len(q.c) /\ reply' = q.c[fds[s].off + 1]
                      /\ Len(q.f.rbuf) \in Nat /\ q.f.rpos = 1 /\ q.fd.off = fds[s].off + Len(q.f.rbuf)
<1>1. PICK w, r0 : w = Work(s, AllSucceed) /\ r0 = LazyInit(w)  OBVIOUS
<1>2. Open(s) /\ last[s] # "write" /\ Unread(s) = 0 /\ Registers(s) /\ back' = back
  BY DEF FgetcRefill, Usable, MayRead
<1>3. /\ w \in Works /\ w.f = streams[s] /\ w.fd = fds[s] /\ w.c = files[fds[s].path] /\ ~w.eof
      /\ Sound(w.f, w.fd, w.c, hook, last[s], back[s])
  BY <1>1, <1>2, WorkType DEF AllSucceed
<1>4. /\ r0 \in Works /\ r0.fd = w.fd /\ r0.c = w.c /\ ~r0.eof
      /\ r0.f.wbuf = w.f.wbuf /\ r0.f.rbuf = w.f.rbuf /\ r0.f.rpos = w.f.rpos
      /\ r0.f.flags = w.f.flags \cup {"inited"}
  BY <1>1, <1>3, LazyInitWorks
<1>5. PICK n : \E r \in {Refill(r0, n), ReadError(r0)} :
          /\ IF r.eof THEN Commit(s, r, "read") /\ reply' = "failed"
             ELSE Commit(s, [r EXCEPT !.f.rpos = 1], "read") /\ reply' = r.f.rbuf[1]
          /\ n \in Nat /\ (n # 0 => n <= Len(files[fds[s].path]) - fds[s].off)
  <2>1. PICK there, most, n : /\ there = Len(files[fds[s].path]) - fds[s].off
                              /\ most = (IF there > BufferSize THEN BufferSize ELSE there)
                              /\ n \in (IF most <= 0 THEN {0} ELSE 1..most)
                              /\ \E r \in {Refill(r0, n), ReadError(r0)} :
                                    IF r.eof THEN Commit(s, r, "read") /\ reply' = "failed"
                                    ELSE Commit(s, [r EXCEPT !.f.rpos = 1], "read") /\ reply' = r.f.rbuf[1]
    BY <1>1 DEF FgetcRefill
  <2>2. PICK l \in Nat, o \in Nat : l = Len(files[fds[s].path]) /\ o = fds[s].off
    BY <1>3 DEF Works, Fd
  <2>3. n \in Nat /\ (n # 0 => n <= l - o)
    <3>1. there \in Int /\ there = l - o  BY <2>1, <2>2
    <3>2. most \in Int /\ most <= there  BY <2>1, <3>1, BoundsAssumption
    <3>3. QED  BY <2>1, <3>1, <3>2
  <2>4. QED  BY <2>1, <2>2, <2>3
<1>6. PICK r \in {Refill(r0, n), ReadError(r0)} :
          /\ IF r.eof THEN Commit(s, r, "read") /\ reply' = "failed"
             ELSE Commit(s, [r EXCEPT !.f.rpos = 1], "read") /\ reply' = r.f.rbuf[1]
          /\ n \in Nat /\ (n # 0 => n <= Len(files[fds[s].path]) - fds[s].off)
  BY <1>5
<1>7. PICK f \in File, c \in Seq(Bytes), k \in Nat, off \in Nat :
         f = r0.f /\ c = r0.c /\ k = back[s] /\ off = fds[s].off
  BY <1>3, <1>4, OpenType DEF Works, Fd
<1>8. f.wbuf = <<>> /\ f.rpos = Len(f.rbuf) /\ k = 0 /\ f.rbuf \in Seq(Bytes) /\ f.rpos \in Nat
  <2>1. f.wbuf = <<>> /\ f.rpos + k <= Len(f.rbuf)  BY <1>2, <1>3, <1>4, <1>7 DEF Sound
  <2>2. f.rpos \in Nat /\ f.rbuf \in Seq(Bytes)  BY FileFields
  <2>3. Len(f.rbuf) - f.rpos = 0  BY <1>2, <1>3, <1>4, <1>7 DEF Unread
  <2>4. QED  BY <2>1, <2>2, <2>3
<1>9. {"write", "inited"} \subseteq f.flags => hook'
  BY <1>2, <1>3, <1>4, <1>7 DEF Registers, Sound
<1>10. hook' \in BOOLEAN /\ (hook => hook') /\ back' \in [Streams -> Nat]
  BY <1>2 DEF Registers, StreamsInv, TypeOK
<1>11. f.flags \subseteq AllFlags  BY FileFields
<1>12. CASE r.eof
  <2>1. \/ r = Fails(r0)
        \/ \E x \in {"eof", "err"} : r = FailsWith(r0, f.flags \cup {x})
    <3>1. CASE r = Refill(r0, n)
      <4>1. CASE "read" \notin r0.f.flags \/ ~r0.f.ralloc  BY <3>1, <4>1 DEF Refill, Fails
      <4>2. CASE "read" \in r0.f.flags /\ r0.f.ralloc /\ n = 0
        <5>1. r = [r0 EXCEPT !.eof = TRUE, !.f.flags = @ \cup {"eof"}]  BY <3>1, <4>2 DEF Refill
        <5>2. r = FailsWith(r0, f.flags \cup {"eof"})  BY <1>7, <5>1 DEF FailsWith
        <5>3. QED  BY <5>2
      <4>3. CASE "read" \in r0.f.flags /\ r0.f.ralloc /\ n # 0
        <5>1. r = [r0 EXCEPT !.f.rbuf = SubSeq(r0.c, r0.fd.off + 1, r0.fd.off + n), !.f.rpos = 0, !.fd.off = @ + n]
          BY <3>1, <4>3 DEF Refill
        <5>2. r.eof = r0.eof  BY <1>4, <5>1 DEF Works
        <5>3. QED  BY <1>4, <1>12, <5>2
      <4>4. QED  BY <4>1, <4>2, <4>3
    <3>2. CASE r = ReadError(r0)
      <4>1. CASE "read" \in r0.f.flags /\ r0.f.ralloc
        <5>1. r = [r0 EXCEPT !.eof = TRUE, !.f.flags = @ \cup {"err"}]  BY <3>2, <4>1 DEF ReadError
        <5>2. r = FailsWith(r0, f.flags \cup {"err"})  BY <1>7, <5>1 DEF FailsWith
        <5>3. QED  BY <5>2
      <4>2. CASE ~("read" \in r0.f.flags /\ r0.f.ralloc)
        <5>1. r = [r0 EXCEPT !.eof = TRUE, !.f.flags = @]  BY <3>2, <4>2 DEF ReadError
        <5>2. r = Fails(r0)  BY <1>4, <5>1 DEF Works, File, Fails
        <5>3. QED  BY <5>2
      <4>3. QED  BY <4>1, <4>2
    <3>3. QED  BY <3>1, <3>2
  <2>2. /\ r \in Works /\ r.fd = fds[s] /\ r.c = c /\ r.f.wbuf = f.wbuf /\ r.f.rbuf = f.rbuf /\ r.f.rpos = f.rpos
        /\ ({"write", "inited"} \subseteq r.f.flags <=> {"write", "inited"} \subseteq f.flags)
    <3>1. CASE r = Fails(r0)  BY <1>3, <1>4, <1>7, <3>1, FailsWorks
    <3>2. CASE \E x \in {"eof", "err"} : r = FailsWith(r0, f.flags \cup {x})
      <4>1. PICK x \in {"eof", "err"} : r = FailsWith(r0, f.flags \cup {x})  BY <3>2
      <4>2. f.flags \cup {x} \in SUBSET AllFlags  BY <1>11 DEF AllFlags
      <4>3. PICK y \in SUBSET AllFlags : y = f.flags \cup {x}  BY <4>2
      <4>4. r = FailsWith(r0, y)  BY <4>1, <4>3
      <4>5. /\ r \in Works /\ r.fd = r0.fd /\ r.c = r0.c /\ r.f.wbuf = r0.f.wbuf /\ r.f.rbuf = r0.f.rbuf
            /\ r.f.rpos = r0.f.rpos /\ r.f.flags = y
        BY <1>4, <4>4, FailsWithWorks
      <4>6. {"write", "inited"} \subseteq y <=> {"write", "inited"} \subseteq f.flags
        BY <4>3
      <4>7. QED  BY <1>3, <1>4, <1>7, <4>5, <4>6
    <3>3. QED  BY <2>1, <3>1, <3>2
  <2>3. Sound(r.f, r.fd, r.c, hook', "read", 0)
    <3>1. (r.f.rpos + 0 + 1)..Len(r.f.rbuf) = {} /\ r.f.rpos + 0 <= Len(r.f.rbuf)
      BY <1>8, <2>2
    <3>2. QED  BY <1>8, <1>9, <2>2, <3>1 DEF Sound
  <2>4. Call(s, r, "read")
    BY <1>2, <1>6, <1>7, <1>8, <1>10, <1>12, <2>2, <2>3 DEF Call
  <2>5. QED  BY <1>2, <1>3, <1>4, <1>6, <1>7, <1>8, <1>12, <2>2, <2>4
<1>13. CASE ~r.eof
  <2>1. r = Reads(r0, SubSeq(c, off + 1, off + n), off + n) /\ n # 0
    <3>1. r # ReadError(r0)
      <4>1. ReadError(r0).eof  BY <1>4 DEF ReadError, Works
      <4>2. QED  BY <1>13, <4>1
    <3>2. r = Refill(r0, n)  BY <3>1
    <3>3. "read" \in r0.f.flags /\ r0.f.ralloc
      <4>1. SUFFICES ASSUME ~("read" \in r0.f.flags /\ r0.f.ralloc) PROVE FALSE  OBVIOUS
      <4>2. r = Fails(r0)  BY <3>2, <4>1 DEF Refill, Fails
      <4>3. QED  BY <1>4, <1>13, <4>2, FailsWorks
    <3>4. n # 0
      <4>1. SUFFICES ASSUME n = 0 PROVE FALSE  OBVIOUS
      <4>2. r = [r0 EXCEPT !.eof = TRUE, !.f.flags = @ \cup {"eof"}]  BY <3>2, <3>3, <4>1 DEF Refill
      <4>3. r.eof  BY <1>4, <4>2 DEF Works
      <4>4. QED  BY <1>13, <4>3
    <3>5. r = [r0 EXCEPT !.f.rbuf = SubSeq(r0.c, r0.fd.off + 1, r0.fd.off + n), !.f.rpos = 0, !.fd.off = @ + n]
      BY <3>2, <3>3, <3>4 DEF Refill
    <3>6. QED  BY <1>3, <1>4, <1>7, <3>4, <3>5 DEF Reads
  <2>2. n \in Nat /\ off + n \in Nat /\ off + n <= Len(c) /\ n >= 1
    BY <1>3, <1>4, <1>6, <1>7, <2>1
  <2>3. PICK b \in Seq(Bytes) : /\ b = SubSeq(c, off + 1, off + n) /\ Len(b) = n
                                /\ \A i \in 1..n : b[i] = c[off + i]
    <3>1. SubSeq(c, off + 1, off + n) \in Seq(Bytes) /\ Len(SubSeq(c, off + 1, off + n)) = n
          /\ \A i \in 1..n : SubSeq(c, off + 1, off + n)[i] = c[off + i]
      BY <2>2
    <3>2. QED  BY <3>1
  <2>4. PICK q : q = WithRpos(r, 1)  OBVIOUS
  <2>5. Commit(s, q, "read") /\ reply' = r.f.rbuf[1]
    BY <1>6, <1>13, <2>4 DEF WithRpos
  <2>6. PICK m \in Nat : m = off + n  BY <2>2
  <2>7. q = WithRpos(Reads(r0, b, m), 1)
    BY <2>1, <2>3, <2>4, <2>6
  <2>8. /\ q \in Works /\ q.c = c /\ q.fd.path = r0.fd.path /\ q.fd.append = r0.fd.append
        /\ q.fd.off = m /\ q.f.flags = f.flags /\ q.f.wbuf = f.wbuf /\ q.f.rbuf = b /\ q.f.rpos = 1
    <3>1. /\ q \in Works /\ q.c = r0.c /\ q.fd.path = r0.fd.path /\ q.fd.append = r0.fd.append
          /\ q.fd.off = m /\ q.f.flags = r0.f.flags /\ q.f.wbuf = r0.f.wbuf /\ q.f.rbuf = b /\ q.f.rpos = 1
      <4>1. PICK x \in Works : x = r0  BY <1>4
      <4>2. q = WithRpos(Reads(x, b, m), 1)  BY <2>7, <4>1
      <4>3. ReadInto(x, q, b, m)  BY <4>2, ReadsWorks
      <4>4. QED  BY <4>1, <4>3 DEF ReadInto
    <3>2. QED  BY <1>7, <3>1
  <2>9. r.f.rbuf[1] = c[off + 1]
    <3>1. r.f.rbuf = b
      BY <1>4, <2>1, <2>3 DEF Reads, Works, File
    <3>2. 1 \in 1..n  BY <2>2
    <3>3. QED  BY <2>3, <3>1, <3>2
  <2>10. Sound(q.f, q.fd, q.c, hook', "read", 0)
    <3>1. 1 + 0 <= n /\ \A i \in (1 + 0 + 1)..n : i \in 1..n /\ m - n + i = off + i
      BY <2>2, <2>6
    <3>2. n <= m /\ m <= Len(c)  BY <2>2, <2>6
    <3>3. QED  BY <1>8, <1>9, <2>3, <2>8, <3>1, <3>2 DEF Sound
  <2>11. Call(s, q, "read")
    BY <1>2, <1>3, <1>4, <1>7, <1>8, <1>10, <2>5, <2>8, <2>10 DEF Call
  <2>12. off < Len(c)  BY <1>7, <2>2
  <2>13. fds[s].off < Len(q.c) /\ reply' = q.c[fds[s].off + 1]
    BY <1>7, <2>5, <2>8, <2>9, <2>12
  <2>14. Len(q.f.rbuf) \in Nat /\ q.f.rpos = 1 /\ q.fd.off = fds[s].off + Len(q.f.rbuf)
    BY <1>7, <2>2, <2>3, <2>6, <2>8
  <2>15. /\ q.c = files[fds[s].path] /\ back' = back /\ streams[s].wbuf = <<>> /\ q.f.wbuf = <<>>
         /\ streams[s].rpos = Len(streams[s].rbuf) /\ back[s] = 0
    BY <1>2, <1>3, <1>4, <1>7, <1>8, <2>8
  <2>16. QED  BY <2>11, <2>13, <2>14, <2>15
<1>14. QED  BY <1>12, <1>13

\* What setvbuf makes of the record.
Buffered(r, x, y) == [r EXCEPT !.f.flags = x, !.f.wsize = y]

\* setvbuf changes flags and size only.
LEMMA BufferedWorks ==
  ASSUME NEW r \in Works, NEW x \in SUBSET AllFlags, NEW y \in Nat, NEW q, q = Buffered(r, x, y)
  PROVE  /\ q \in Works /\ q.fd = r.fd /\ q.c = r.c
         /\ q.f.flags = x /\ q.f.wbuf = r.f.wbuf /\ q.f.rbuf = r.f.rbuf /\ q.f.rpos = r.f.rpos
<1>1. /\ r \in [f : File, fd : Fd, c : Seq(Bytes), ok : Nat, eof : BOOLEAN] /\ r.f \in File
  BY DEF Works
<1>2. PICK g : g = [r.f EXCEPT !.flags = x, !.wsize = y]  OBVIOUS
<1>3. /\ g \in File /\ g.flags = x /\ g.wbuf = r.f.wbuf /\ g.rbuf = r.f.rbuf
      /\ g.rpos = r.f.rpos /\ g.ralloc = r.f.ralloc
  BY <1>1, <1>2 DEF File
<1>4. q = [f |-> g, fd |-> r.fd, c |-> r.c, ok |-> r.ok, eof |-> r.eof]
  BY <1>1, <1>2 DEF Buffered
<1>5. QED  BY <1>1, <1>3, <1>4 DEF Works

\* A stream that is not yet set up holds nothing, so another buffer loses nothing.
LEMMA SetvbufCall ==
  ASSUME StreamsInv, NEW s \in Streams, NEW mode \in {"full", "linebuf", "unbuf"}, NEW own \in Nat,
         Setvbuf(s, mode, own)
  PROVE  \E q : /\ Call(s, q, last[s]) /\ q.c = files[fds[s].path] /\ q.fd = fds[s] /\ UNCHANGED back
                /\ reply' = "ok"
                /\ q.f.wbuf = streams[s].wbuf /\ q.f.rbuf = streams[s].rbuf /\ q.f.rpos = streams[s].rpos
<1>1. PICK w, r : w = Work(s, AllSucceed) /\ r = LazyInit(w)  OBVIOUS
<1>2. PICK x, y : /\ x = (r.f.flags \ {"linebuf", "unbuf"}) \cup ({mode} \cap {"linebuf", "unbuf"})
                           \cup (IF mode # "unbuf" /\ own > 0 THEN {"userbuf"} ELSE {})
                  /\ y = IF mode # "unbuf" /\ own > 0 THEN own ELSE r.f.wsize
  OBVIOUS
<1>3. PICK q : q = Buffered(r, x, y)  OBVIOUS
<1>4. /\ Open(s) /\ "inited" \notin streams[s].flags /\ Registers(s) /\ back' = back /\ reply' = "ok"
      /\ Commit(s, q, last[s])
  BY <1>1, <1>2, <1>3 DEF Setvbuf, Usable, Buffered
<1>5. /\ w \in Works /\ w.f = streams[s] /\ w.fd = fds[s] /\ w.c = files[fds[s].path] /\ ~w.eof
      /\ Sound(w.f, w.fd, w.c, hook, last[s], back[s])
  BY <1>1, <1>4, WorkType DEF AllSucceed
<1>6. /\ r \in Works /\ r.fd = w.fd /\ r.c = w.c
      /\ r.f.wbuf = w.f.wbuf /\ r.f.rbuf = w.f.rbuf /\ r.f.rpos = w.f.rpos
      /\ r.f.flags = w.f.flags \cup {"inited"}
  BY <1>1, <1>5, LazyInitWorks
<1>7. r.f.flags \subseteq AllFlags /\ r.f.wsize \in Nat  BY <1>6 DEF Works, File
<1>8. x \in SUBSET AllFlags /\ y \in Nat
  <2>1. x \subseteq AllFlags  BY <1>2, <1>7 DEF AllFlags
  <2>2. QED  BY <1>2, <1>7, <2>1
<1>9. /\ q \in Works /\ q.fd = r.fd /\ q.c = r.c
      /\ q.f.flags = x /\ q.f.wbuf = r.f.wbuf /\ q.f.rbuf = r.f.rbuf /\ q.f.rpos = r.f.rpos
  BY <1>3, <1>6, <1>8, BufferedWorks
<1>10. w.f.wbuf = <<>>
  BY <1>4, <1>5 DEF Sound
<1>11. "write" \in x => hook'
  <2>1. ("write" \in x) => ("write" \in w.f.flags)  BY <1>2, <1>6
  <2>2. QED  BY <1>4, <1>5, <2>1 DEF Registers
<1>12. hook' \in BOOLEAN /\ (hook => hook') /\ back' \in [Streams -> Nat] /\ last[s] \in {"none", "read", "write"}
  BY <1>4, OpenType DEF Registers, StreamsInv, TypeOK
<1>13. Sound(q.f, q.fd, q.c, hook', last[s], back[s])
  BY <1>5, <1>6, <1>9, <1>10, <1>11 DEF Sound
<1>14. Call(s, q, last[s])
  BY <1>4, <1>5, <1>6, <1>9, <1>12, <1>13 DEF Call
<1>15. QED  BY <1>4, <1>5, <1>6, <1>9, <1>14

-----------------------------------------------------------------------------
(* opening, closing and the end *)

LEMMA ProgramOpens ==
  ASSUME StreamsInv, NEW p \in program.paths, NEW m \in program.modes
  PROVE  p \in AllPaths /\ p \in Paths /\ m \in Modes /\ FlagsOf(m) \in SUBSET {"read", "write"}
<1>1. program \in Programs  BY DEF StreamsInv, TypeOK
<1>2. p \in Paths /\ m \in Modes  BY <1>1, FilesAssumption
<1>3. QED  BY <1>2 DEF AllPaths, FlagsOf

\* Stream s changes its file and FILE; the files of the others stay. What the FILE is left with is sound.
Replaces(s, f, fd) ==
  /\ streams' = [streams EXCEPT ![s] = f] /\ fds' = [fds EXCEPT ![s] = fd]
  /\ last' = [last EXCEPT ![s] = "none"] /\ back' = [back EXCEPT ![s] = 0]
  /\ files' \in [AllPaths -> Seq(Bytes)]
  /\ \A t \in Streams \ {s} : Open(t) => files'[fds[t].path] = files[fds[t].path]
  /\ program' = program /\ hook' = hook /\ phase' = phase
  /\ opened' \in 0..MaxOpens /\ opened <= opened'

\* A stream that opens, closes or changes its file keeps the invariant of all.
LEMMA ReplaceKeeps ==
  ASSUME StreamsInv, NEW s \in Streams, NEW f \in File, NEW fd, Replaces(s, f, fd),
         \/ fd = NoFd /\ f = Absent
         \/ /\ fd \in Fd /\ fd.off = 0 /\ s <= opened'
            /\ \A t \in Streams \ {s} : fds[t].path # fd.path
            /\ f.wbuf = <<>> /\ f.rbuf = <<>> /\ f.rpos = 0 /\ "inited" \notin f.flags
  PROVE  StreamsInv'
<1>1. /\ streams' = [streams EXCEPT ![s] = f] /\ fds' = [fds EXCEPT ![s] = fd]
      /\ last' = [last EXCEPT ![s] = "none"] /\ back' = [back EXCEPT ![s] = 0]
      /\ files' \in [AllPaths -> Seq(Bytes)]
      /\ \A t \in Streams \ {s} : Open(t) => files'[fds[t].path] = files[fds[t].path]
      /\ program' = program /\ hook' = hook /\ phase' = phase
      /\ opened' \in 0..MaxOpens /\ opened <= opened'
  BY DEF Replaces
<1>2. TypeOK'  BY <1>1 DEF StreamsInv, TypeOK
<1>3. streams'[s] = f /\ fds'[s] = fd /\ last'[s] = "none" /\ back'[s] = 0
      /\ \A t \in Streams \ {s} :
           /\ streams'[t] = streams[t] /\ fds'[t] = fds[t] /\ last'[t] = last[t] /\ back'[t] = back[t]
           /\ Open(t)' <=> Open(t)
  BY <1>1 DEF StreamsInv, TypeOK, Open
<1>4. Open(s)' => /\ fd \in Fd /\ fd.off = 0 /\ s <= opened'
                  /\ \A t \in Streams \ {s} : fds[t].path # fd.path
                  /\ f.wbuf = <<>> /\ f.rbuf = <<>> /\ f.rpos = 0 /\ "inited" \notin f.flags
  BY <1>3 DEF Open
<1>5. ~Open(s)' => f = Absent
  BY <1>3, NoFdNotFd DEF Open
<1>6. Apart'
  <2>1. SUFFICES ASSUME NEW t \in Streams, NEW u \in Streams, Open(t)', Open(u)', fds'[t].path = fds'[u].path
                 PROVE  t = u
    BY DEF Apart
  <2>2. CASE t # s /\ u # s
    <3>1. Open(t) /\ Open(u) /\ fds[t].path = fds[u].path  BY <2>1, <2>2, <1>3
    <3>2. QED  BY <3>1 DEF StreamsInv, Apart
  <2>3. CASE t = s /\ u # s
    <3>1. fds[u].path = fd.path  BY <2>1, <2>3, <1>3
    <3>2. QED  BY <1>4, <2>1, <2>3, <3>1
  <2>4. CASE t # s /\ u = s
    <3>1. fds[t].path = fd.path  BY <2>1, <2>4, <1>3
    <3>2. QED  BY <1>4, <2>1, <2>4, <3>1
  <2>5. QED  BY <2>2, <2>3, <2>4
<1>7. ASSUME NEW t \in Streams, Open(t)'
      PROVE  SoundAt(t)'
  <2>1. CASE t = s
    <3>1. /\ fd \in Fd /\ fd.off = 0 /\ f.wbuf = <<>> /\ f.rbuf = <<>> /\ f.rpos = 0 /\ "inited" \notin f.flags
      BY <1>4, <1>7, <2>1
    <3>2. PICK c \in Seq(Bytes) : c = files'[fd.path]  BY <1>1, <3>1 DEF Fd
    <3>3. PICK e : e = <<>> /\ Len(e) = 0  OBVIOUS
    <3>4. (0 + 0 + 1)..Len(e) = {} /\ 0 + 0 <= Len(e)  BY <3>3
    <3>5. Sound(f, fd, c, hook', "none", 0)  BY <3>1, <3>3, <3>4 DEF Sound
    <3>6. QED  BY <1>3, <2>1, <3>1, <3>2, <3>4, <3>5 DEF SoundAt
  <2>2. CASE t # s
    <3>1. /\ Open(t) /\ fds'[t] = fds[t] /\ files'[fds[t].path] = files[fds[t].path]
          /\ streams'[t] = streams[t] /\ last'[t] = last[t] /\ back'[t] = back[t]
      BY <1>1, <1>3, <1>7, <2>2
    <3>2. Sound(streams[t], fds[t], files[fds[t].path], hook, last[t], back[t])
      BY <3>1 DEF StreamsInv, SoundAt
    <3>3. QED  BY <1>1, <3>1, <3>2 DEF SoundAt
  <2>3. QED  BY <2>1, <2>2
<1>8. ASSUME NEW t \in Streams, ~Open(t)'
      PROVE  streams'[t] = Absent /\ last'[t] = "none" /\ back'[t] = 0
  <2>1. CASE t = s  BY <1>3, <1>5, <1>8, <2>1
  <2>2. CASE t # s
    <3>1. ~Open(t) /\ streams'[t] = streams[t] /\ last'[t] = last[t] /\ back'[t] = back[t]
      BY <1>3, <1>8, <2>2
    <3>2. QED  BY <3>1 DEF StreamsInv
  <2>3. QED  BY <2>1, <2>2
<1>9. ASSUME NEW t \in Streams, t > opened' PROVE ~Open(t)'
  <2>1. opened \in Nat /\ opened' \in Nat /\ t \in Nat /\ s \in Nat  BY <1>1 DEF StreamsInv, TypeOK, Streams
  <2>2. CASE t = s  BY <1>4, <1>9, <2>1, <2>2
  <2>3. CASE t # s
    <3>1. t > opened  BY <1>1, <1>9, <2>1
    <3>2. ~Open(t)  BY <3>1 DEF StreamsInv
    <3>3. QED  BY <1>3, <2>3, <3>2
  <2>4. QED  BY <2>2, <2>3
<1>10. QED  BY <1>2, <1>6, <1>7, <1>8, <1>9 DEF StreamsInv

\* The FILE that is not there, and one with flags only.
LEMMA AbsentFile ==
  ASSUME NEW x \in SUBSET AllFlags
  PROVE  /\ [Absent EXCEPT !.flags = x] \in File /\ Absent \in File
         /\ [Absent EXCEPT !.flags = x].flags = x /\ [Absent EXCEPT !.flags = x].wbuf = <<>>
         /\ [Absent EXCEPT !.flags = x].rbuf = <<>> /\ [Absent EXCEPT !.flags = x].rpos = 0
<1>1. <<>> \in Seq(Bytes)  OBVIOUS
<1>2. Absent \in File /\ Absent.wbuf = <<>> /\ Absent.rbuf = <<>> /\ Absent.rpos = 0
  BY <1>1 DEF File, Absent
<1>3. PICK a \in File : a = Absent  BY <1>2
<1>4. PICK b : b = [a EXCEPT !.flags = x]  OBVIOUS
<1>5. b \in File /\ b.flags = x /\ b.wbuf = a.wbuf /\ b.rbuf = a.rbuf /\ b.rpos = a.rpos
  BY <1>4 DEF File
<1>6. b = [Absent EXCEPT !.flags = x]  BY <1>3, <1>4
<1>7. QED  BY <1>2, <1>3, <1>5, <1>6

\* fopen: a stream that was not there.
LEMMA FopenReplaces ==
  ASSUME StreamsInv, NEW p \in program.paths, NEW m \in program.modes, Fopen(p, m)
  PROVE  \E s \in Streams : \E f, fd :
           /\ s = opened + 1 /\ ~Open(s) /\ opened' = s
           /\ Replaces(s, f, fd) /\ f = [Absent EXCEPT !.flags = FlagsOf(m)]
           /\ fd = [path |-> p, off |-> 0, append |-> m.kind = "a"]
           /\ f \in File /\ fd \in Fd /\ fd.off = 0
           /\ \A t \in Streams \ {s} : fds[t].path # fd.path
           /\ f.wbuf = <<>> /\ f.rbuf = <<>> /\ f.rpos = 0 /\ "inited" \notin f.flags
           /\ files' = IF m.kind = "w" THEN [files EXCEPT ![p] = <<>>] ELSE files
<1>1. PICK s, f, fd : s = opened + 1 /\ f = [Absent EXCEPT !.flags = FlagsOf(m)]
                      /\ fd = [path |-> p, off |-> 0, append |-> m.kind = "a"]
  OBVIOUS
<1>2. p \in AllPaths /\ p \in Paths /\ FlagsOf(m) \in SUBSET {"read", "write"}  BY ProgramOpens
<1>3. /\ HostOpen(s, p, m, files) /\ opened < MaxOpens /\ streams' = [streams EXCEPT ![s] = f] /\ opened' = s
      /\ UNCHANGED <<program, hook, phase>>
  BY <1>1 DEF Fopen
<1>4. opened \in 0..MaxOpens /\ MaxOpens \in Nat  BY BoundsAssumption DEF StreamsInv, TypeOK
<1>5. s \in Streams /\ s > opened /\ s \in 0..MaxOpens /\ opened <= s  BY <1>1, <1>3, <1>4 DEF Streams
<1>6. ~Open(s)  BY <1>5 DEF StreamsInv
<1>7. f \in File /\ f.flags = FlagsOf(m) /\ f.wbuf = <<>> /\ f.rbuf = <<>> /\ f.rpos = 0
  <2>1. FlagsOf(m) \in SUBSET AllFlags  BY <1>2 DEF AllFlags
  <2>2. PICK x \in SUBSET AllFlags : x = FlagsOf(m)  BY <2>1
  <2>3. f = [Absent EXCEPT !.flags = x]  BY <1>1, <2>2
  <2>4. QED  BY <2>2, <2>3, AbsentFile
<1>8. "inited" \notin f.flags  BY <1>2, <1>7
<1>9. fd \in Fd /\ fd.off = 0 /\ fd.path = p  BY <1>1, <1>2 DEF Fd
<1>10. /\ \A t \in Streams \ {s} : fds[t].path # fd.path
       /\ fds' = [fds EXCEPT ![s] = fd]
       /\ files' = IF m.kind = "w" THEN [files EXCEPT ![p] = <<>>] ELSE files
       /\ last' = [last EXCEPT ![s] = "none"] /\ back' = [back EXCEPT ![s] = 0]
  BY <1>1, <1>3, <1>9 DEF HostOpen, FreePath
<1>11. /\ files' \in [AllPaths -> Seq(Bytes)]
       /\ \A t \in Streams \ {s} : Open(t) => files'[fds[t].path] = files[fds[t].path]
  <2>1. files \in [AllPaths -> Seq(Bytes)] /\ <<>> \in Seq(Bytes)  BY DEF StreamsInv, TypeOK
  <2>2. \A t \in Streams : Open(t) => fds[t].path \in AllPaths  BY OpenType
  <2>3. QED  BY <1>2, <1>9, <1>10, <2>1, <2>2
<1>12. Replaces(s, f, fd)
  BY <1>3, <1>5, <1>10, <1>11 DEF Replaces
<1>13. QED  BY <1>1, <1>3, <1>5, <1>6, <1>7, <1>8, <1>9, <1>10, <1>12

\* The file of a stream that closes or is reopened gets what the stream held; the other files stay.
FileWith(p, c) == [files EXCEPT ![p] = c]

\* After the flush of a stream, only its own file differs.
LEMMA FlushedFiles ==
  ASSUME StreamsInv, NEW s \in Streams, Open(s), NEW ok \in Nat, NEW q, q = FlushWriteBuf(Work(s, ok)),
         NEW file, file = FileWith(q.fd.path, q.c)
  PROVE  /\ file \in [AllPaths -> Seq(Bytes)] /\ q.fd.path = fds[s].path
         /\ \A p \in AllPaths : p # fds[s].path => file[p] = files[p]
         /\ \A t \in Streams \ {s} : Open(t) => file[fds[t].path] = files[fds[t].path]
         /\ ~q.eof => file[fds[s].path] = Meant(Work(s, ok))
<1>1. q \in Works /\ q.fd.path = fds[s].path /\ (~q.eof => q.c = Meant(Work(s, ok)))  BY FlushSound
<1>2. files \in [AllPaths -> Seq(Bytes)]  BY DEF StreamsInv, TypeOK
<1>3. \A t \in Streams : Open(t) => fds[t].path \in AllPaths  BY OpenType
<1>4. \A t \in Streams \ {s} : Open(t) => fds[t].path # fds[s].path  BY DEF StreamsInv, Apart
<1>5. q.c \in Seq(Bytes)  BY <1>1 DEF Works
<1>6. QED  BY <1>1, <1>2, <1>3, <1>4, <1>5 DEF FileWith

\* A stream that is gone has no FILE and no descriptor.
LEMMA GoneReplaces ==
  ASSUME StreamsInv, NEW s \in Streams, Gone(s), files' \in [AllPaths -> Seq(Bytes)],
         \A t \in Streams \ {s} : Open(t) => files'[fds[t].path] = files[fds[t].path]
  PROVE  Replaces(s, Absent, NoFd)
<1>1. opened \in 0..MaxOpens  BY DEF StreamsInv, TypeOK
<1>2. QED  BY <1>1 DEF Gone, Replaces

\* fclose leaves no stream, and the file it was meant to be unless it fails.
LEMMA FcloseReplaces ==
  ASSUME StreamsInv, NEW s \in Streams, Fclose(s)
  PROVE  /\ Open(s) /\ Replaces(s, Absent, NoFd)
         /\ \A p \in AllPaths : p # fds[s].path => files'[p] = files[p]
         /\ \/ reply' = "failed"
            \/ reply' = "ok" /\ files'[fds[s].path] = Meant(Work(s, AllSucceed))
<1>1. PICK ok \in {0, AllSucceed}, closes \in BOOLEAN :
        \E r \in {FlushWriteBuf(Work(s, ok))} :
          /\ files' = [files EXCEPT ![r.fd.path] = r.c]
          /\ reply' = IF r.eof \/ ~closes THEN "failed" ELSE "ok"
  BY DEF Fclose
<1>2. PICK r : /\ r = FlushWriteBuf(Work(s, ok)) /\ files' = FileWith(r.fd.path, r.c)
               /\ reply' = IF r.eof \/ ~closes THEN "failed" ELSE "ok"
  BY <1>1 DEF FileWith
<1>3. Open(s) /\ Gone(s) /\ ok \in Nat  BY <1>1 DEF Fclose, Usable, AllSucceed
<1>4. /\ files' \in [AllPaths -> Seq(Bytes)]
      /\ \A p \in AllPaths : p # fds[s].path => files'[p] = files[p]
      /\ \A t \in Streams \ {s} : Open(t) => files'[fds[t].path] = files[fds[t].path]
      /\ ~r.eof => files'[fds[s].path] = Meant(Work(s, ok))
  BY <1>2, <1>3, FlushedFiles
<1>5. Meant(Work(s, ok)) = Meant(Work(s, AllSucceed))  BY DEF Meant, Work
<1>6. QED  BY <1>2, <1>3, <1>4, <1>5, GoneReplaces

\* freopen: the stream on another file, or no stream.
LEMMA FreopenReplaces ==
  ASSUME StreamsInv, NEW s \in Streams, NEW p \in program.paths, NEW m \in program.modes, Freopen(s, p, m)
  PROVE  /\ Open(s)
         /\ \E file : /\ file \in [AllPaths -> Seq(Bytes)] /\ file[fds[s].path] = Meant(Work(s, AllSucceed))
                      /\ \A x \in AllPaths : x # fds[s].path => file[x] = files[x]
                      /\ \/ /\ reply' = "failed" /\ Replaces(s, Absent, NoFd) /\ files' = file /\ Gone(s)
                         \/ /\ reply' = "ok" /\ registry' = registry /\ opened' = opened
                            /\ files' = (IF m.kind = "w" THEN [file EXCEPT ![p] = <<>>] ELSE file)
                            /\ \E f \in File, fd \in Fd :
                                 /\ Replaces(s, f, fd) /\ fd = [path |-> p, off |-> 0, append |-> m.kind = "a"]
                                 /\ fd.off = 0 /\ s <= opened' /\ \A t \in Streams \ {s} : fds[t].path # fd.path
                                 /\ f.wbuf = <<>> /\ f.rbuf = <<>> /\ f.rpos = 0 /\ "inited" \notin f.flags
<1>1. PICK r, file : /\ r = FlushWriteBuf(Work(s, AllSucceed)) /\ file = FileWith(r.fd.path, r.c)
                     /\ \/ /\ HostOpen(s, p, m, file)
                           /\ streams' = [streams EXCEPT ![s] =
                                [r.f EXCEPT !.flags = FlagsOf(m), !.wbuf = <<>>, !.rbuf = <<>>, !.rpos = 0]]
                           /\ reply' = "ok" /\ UNCHANGED <<program, registry, hook, handlers, phase, opened>>
                        \/ files' = file /\ reply' = "failed" /\ Gone(s)
  BY DEF Freopen, FileWith
<1>2. Open(s)  BY DEF Freopen, Usable
<1>3. p \in AllPaths /\ p \in Paths /\ FlagsOf(m) \in SUBSET {"read", "write"}  BY ProgramOpens
<1>4. /\ r \in Works /\ ~r.eof
  <2>1. AllSucceed \in Nat /\ AllSucceed # 0  BY DEF AllSucceed
  <2>2. QED  BY <1>1, <1>2, <2>1, FlushSound
<1>5. /\ file \in [AllPaths -> Seq(Bytes)]
      /\ \A x \in AllPaths : x # fds[s].path => file[x] = files[x]
      /\ \A t \in Streams \ {s} : Open(t) => file[fds[t].path] = files[fds[t].path]
      /\ file[fds[s].path] = Meant(Work(s, AllSucceed))
  <2>1. AllSucceed \in Nat  BY DEF AllSucceed
  <2>2. QED  BY <1>1, <1>2, <1>4, <2>1, FlushedFiles
<1>6. CASE files' = file /\ reply' = "failed" /\ Gone(s)
  BY <1>2, <1>5, <1>6, GoneReplaces
<1>7. CASE /\ HostOpen(s, p, m, file)
           /\ streams' = [streams EXCEPT ![s] =
                [r.f EXCEPT !.flags = FlagsOf(m), !.wbuf = <<>>, !.rbuf = <<>>, !.rpos = 0]]
           /\ reply' = "ok" /\ UNCHANGED <<program, registry, hook, handlers, phase, opened>>
  <2>1. PICK f, fd : f = [r.f EXCEPT !.flags = FlagsOf(m), !.wbuf = <<>>, !.rbuf = <<>>, !.rpos = 0]
                     /\ fd = [path |-> p, off |-> 0, append |-> m.kind = "a"]
    OBVIOUS
  <2>2. f \in File /\ f.flags = FlagsOf(m) /\ f.wbuf = <<>> /\ f.rbuf = <<>> /\ f.rpos = 0
    <3>1. PICK g \in File : g = r.f  BY <1>4 DEF Works
    <3>2. PICK x \in SUBSET AllFlags : x = FlagsOf(m)  BY <1>3 DEF AllFlags
    <3>3. f = [flags |-> x, wbuf |-> <<>>, wsize |-> g.wsize, rbuf |-> <<>>, rpos |-> 0, ralloc |-> g.ralloc]
      BY <2>1, <3>1, <3>2 DEF File
    <3>4. <<>> \in Seq(Bytes) /\ g.wsize \in Nat /\ g.ralloc \in BOOLEAN  BY FileFields
    <3>5. QED  BY <3>2, <3>3, <3>4 DEF File
  <2>3. "inited" \notin f.flags  BY <1>3, <2>2
  <2>4. fd \in Fd /\ fd.off = 0 /\ fd.path = p  BY <1>3, <2>1 DEF Fd
  <2>5. /\ \A t \in Streams \ {s} : fds[t].path # fd.path
        /\ fds' = [fds EXCEPT ![s] = fd] /\ streams' = [streams EXCEPT ![s] = f]
        /\ files' = (IF m.kind = "w" THEN [file EXCEPT ![p] = <<>>] ELSE file)
        /\ last' = [last EXCEPT ![s] = "none"] /\ back' = [back EXCEPT ![s] = 0]
        /\ program' = program /\ hook' = hook /\ phase' = phase /\ opened' = opened /\ registry' = registry
    BY <1>7, <2>1, <2>4 DEF HostOpen, FreePath
  <2>6. /\ files' \in [AllPaths -> Seq(Bytes)]
        /\ \A t \in Streams \ {s} : Open(t) => files'[fds[t].path] = files[fds[t].path]
    <3>1. \A t \in Streams : Open(t) => fds[t].path \in AllPaths  BY OpenType
    <3>2. <<>> \in Seq(Bytes)  OBVIOUS
    <3>3. QED  BY <1>3, <1>5, <2>4, <2>5, <3>1, <3>2
  <2>7. opened \in 0..MaxOpens /\ s \in Nat /\ s <= opened
    <3>1. opened \in 0..MaxOpens /\ s \in Nat /\ MaxOpens \in Nat  BY BoundsAssumption DEF StreamsInv, TypeOK, Streams
    <3>2. ~(s > opened)  BY <1>2 DEF StreamsInv
    <3>3. QED  BY <3>1, <3>2
  <2>8. opened <= opened'  BY <2>5, <2>7
  <2>9. Replaces(s, f, fd)  BY <2>5, <2>6, <2>7, <2>8 DEF Replaces
  <2>10. QED  BY <1>2, <1>5, <1>7, <2>1, <2>2, <2>3, <2>4, <2>5, <2>7, <2>9
<1>8. QED  BY <1>1, <1>6, <1>7

\* What exit() leaves of an open stream s, whose FILE, descriptor and file r holds.
Exited(s, r) ==
  /\ r \in Works /\ r.fd.path = fds[s].path /\ r.fd.append = fds[s].append
  /\ Sound(r.f, r.fd, r.c, hook, last[s], back[s])
  /\ (s \in Flushed \/ streams[s].wbuf = <<>>) => r.c = Meant(Work(s, AllSucceed))
  /\ Keeps(Work(s, AllSucceed), r) /\ r.f.rpos = streams[s].rpos /\ r.f.rbuf = streams[s].rbuf

\* The hook of exit() flushes the open streams, each in its own file.
LEMMA StdioExitWorks ==
  ASSUME StreamsInv, StdioExit
  PROVE  /\ streams' \in [Streams -> File] /\ fds' \in [Streams -> Fd \cup {NoFd}]
         /\ files' \in [AllPaths -> Seq(Bytes)]
         /\ \A s \in Streams : ~Open(s) => streams'[s] = streams[s] /\ fds'[s] = fds[s]
         /\ \A s \in Streams : Open(s) => Exited(s, [f |-> streams'[s], fd |-> fds'[s], c |-> files'[fds[s].path],
                                                     ok |-> AllSucceed, eof |-> FALSE])
         /\ \A p \in AllPaths : (\A s \in Streams : Open(s) => fds[s].path # p) => files'[p] = files[p]
<1> DEFINE written(s) == IF Open(s) /\ s \in Flushed THEN FlushWriteBuf(Work(s, AllSucceed))
                         ELSE Work(s, AllSucceed)
<1>1. /\ files' = [p \in DOMAIN files |->
                     IF \E s \in Streams : Open(s) /\ fds[s].path = p
                     THEN written(CHOOSE s \in Streams : Open(s) /\ fds[s].path = p).c
                     ELSE files[p]]
      /\ streams' = [s \in Streams |-> IF Open(s) THEN written(s).f ELSE streams[s]]
      /\ fds' = [s \in Streams |-> IF Open(s) THEN written(s).fd ELSE fds[s]]
  BY DEF StdioExit
<1>2. ASSUME NEW s \in Streams, Open(s)
      PROVE  Exited(s, written(s))
  <2>1. PICK w : w = Work(s, AllSucceed)  OBVIOUS
  <2>2. AllSucceed \in Nat /\ AllSucceed # 0  BY DEF AllSucceed
  <2>3. /\ w \in Works /\ w.f = streams[s] /\ w.fd = fds[s] /\ w.c = files[fds[s].path] /\ ~w.eof
        /\ Sound(w.f, w.fd, w.c, hook, last[s], back[s])
    BY <1>2, <2>1, <2>2, WorkType
  <2>4. CASE s \in Flushed
    <3>1. PICK q : q = FlushWriteBuf(w)  OBVIOUS
    <3>2. written(s) = q  BY <1>2, <2>1, <2>4, <3>1
    <3>3. /\ q \in Works /\ q.fd.path = fds[s].path /\ q.fd.append = fds[s].append
          /\ Follows(w, q) /\ Keeps(w, q) /\ Sound(q.f, q.fd, q.c, hook, last[s], back[s])
          /\ q.c = Meant(w)
      BY <1>2, <2>1, <2>2, <3>1, FlushSound
    <3>4. QED  BY <2>1, <2>3, <3>2, <3>3 DEF Exited, Follows
  <2>5. CASE s \notin Flushed
    <3>1. written(s) = w  BY <2>1, <2>5
    <3>2. w.f.wbuf = <<>> => w.c = Meant(w)  BY <2>3, NothingHeld
    <3>3. QED  BY <2>1, <2>3, <2>5, <3>1, <3>2 DEF Exited, Keeps
  <2>6. QED  BY <2>4, <2>5
<1> HIDE DEF written
<1>3. ASSUME NEW s \in Streams, Open(s)
      PROVE  /\ files'[fds[s].path] = written(s).c /\ streams'[s] = written(s).f /\ fds'[s] = written(s).fd
  <2>1. fds[s].path \in DOMAIN files  BY <1>3, OpenType
  <2>2. \A t \in Streams : Open(t) /\ fds[t].path = fds[s].path => t = s
    BY <1>3 DEF StreamsInv, Apart
  <2>3. (CHOOSE t \in Streams : Open(t) /\ fds[t].path = fds[s].path) = s
    BY <1>3, <2>2
  <2>4. QED  BY <1>1, <1>3, <2>1, <2>3
<1>4. /\ streams' \in [Streams -> File] /\ fds' \in [Streams -> Fd \cup {NoFd}]
  <2>1. \A s \in Streams : Open(s) => written(s).f \in File /\ written(s).fd \in Fd
    BY <1>2 DEF Exited, Works
  <2>2. QED  BY <1>1, <2>1 DEF StreamsInv, TypeOK
<1>5. files' \in [AllPaths -> Seq(Bytes)]
  <2>1. \A s \in Streams : Open(s) => written(s).c \in Seq(Bytes)
    BY <1>2 DEF Exited, Works
  <2>2. DOMAIN files' = AllPaths /\ DOMAIN files = AllPaths  BY <1>1 DEF StreamsInv, TypeOK
  <2>3. ASSUME NEW p \in AllPaths PROVE files'[p] \in Seq(Bytes)
    <3>1. CASE \E s \in Streams : Open(s) /\ fds[s].path = p
      <4>1. PICK s \in Streams : Open(s) /\ fds[s].path = p  BY <3>1
      <4>2. QED  BY <1>3, <2>1, <4>1
    <3>2. CASE ~\E s \in Streams : Open(s) /\ fds[s].path = p
      <4>1. files'[p] = files[p]  BY <1>1, <2>2, <3>2
      <4>2. QED  BY <4>1 DEF StreamsInv, TypeOK
    <3>3. QED  BY <3>1, <3>2
  <2>4. files' = [p \in AllPaths |-> files'[p]]  BY <1>1, <2>2
  <2>5. QED  BY <2>3, <2>4
<1>6. ASSUME NEW s \in Streams, Open(s)
      PROVE  Exited(s, [f |-> streams'[s], fd |-> fds'[s], c |-> files'[fds[s].path],
                        ok |-> AllSucceed, eof |-> FALSE])
  <2>1. PICK q, r : q = written(s) /\ r = [f |-> q.f, fd |-> q.fd, c |-> q.c, ok |-> AllSucceed, eof |-> FALSE]
    OBVIOUS
  <2>2. Exited(s, q)  BY <1>2, <1>6, <2>1
  <2>3. r \in Works /\ r.f = q.f /\ r.fd = q.fd /\ r.c = q.c
    BY <2>1, <2>2 DEF Exited, Works, AllSucceed
  <2>4. Meant(r) = Meant(q) /\ End(r) = End(q)  BY <2>3 DEF Meant, End
  <2>5. Exited(s, r)  BY <2>2, <2>3, <2>4 DEF Exited, Keeps
  <2>6. QED  BY <1>3, <1>6, <2>1, <2>5
<1>7. QED
  <2>1. \A s \in Streams : ~Open(s) => streams'[s] = streams[s] /\ fds'[s] = fds[s]  BY <1>1
  <2>2. \A p \in AllPaths : (\A s \in Streams : Open(s) => fds[s].path # p) => files'[p] = files[p]
    BY <1>1 DEF StreamsInv, TypeOK
  <2>3. QED  BY <1>4, <1>5, <1>6, <2>1, <2>2

\* The end of the program keeps the streams sound.
LEMMA SysExitKeeps ==
  ASSUME StreamsInv, SysExit
  PROVE  StreamsInv'
<1>1. /\ phase' = "ended" /\ UNCHANGED <<program, registry, hook, opened, last, back>>
      /\ (StdioExit \/ UNCHANGED <<files, streams, fds>>)
  BY DEF SysExit
<1>2. CASE UNCHANGED <<files, streams, fds>>
  <2>1. TypeOK'  BY <1>1, <1>2 DEF StreamsInv, TypeOK
  <2>2. QED  BY <1>1, <1>2, <2>1 DEF StreamsInv, Apart, Open, SoundAt
<1>3. CASE StdioExit
  <2>1. /\ streams' \in [Streams -> File] /\ fds' \in [Streams -> Fd \cup {NoFd}]
        /\ files' \in [AllPaths -> Seq(Bytes)]
        /\ \A s \in Streams : ~Open(s) => streams'[s] = streams[s] /\ fds'[s] = fds[s]
        /\ \A s \in Streams : Open(s) => Exited(s, [f |-> streams'[s], fd |-> fds'[s], c |-> files'[fds[s].path],
                                                    ok |-> AllSucceed, eof |-> FALSE])
    BY <1>3, StdioExitWorks
  <2>2. ASSUME NEW s \in Streams, Open(s)
        PROVE  /\ Open(s)' /\ fds'[s].path = fds[s].path
               /\ Sound(streams'[s], fds'[s], files'[fds[s].path], hook, last[s], back[s])
    <3>1. PICK r : r = [f |-> streams'[s], fd |-> fds'[s], c |-> files'[fds[s].path], ok |-> AllSucceed, eof |-> FALSE]
      OBVIOUS
    <3>2. r.f = streams'[s] /\ r.fd = fds'[s] /\ r.c = files'[fds[s].path]  BY <3>1
    <3>3. r \in Works /\ r.fd.path = fds[s].path /\ Sound(r.f, r.fd, r.c, hook, last[s], back[s])
      BY <2>1, <2>2, <3>1 DEF Exited
    <3>4. r.fd \in Fd  BY <3>3 DEF Works
    <3>5. QED  BY <3>2, <3>3, <3>4, NoFdNotFd DEF Open
  <2>3. \A s \in Streams : Open(s)' <=> Open(s)  BY <2>1, <2>2 DEF Open
  <2>4. TypeOK'  BY <1>1, <2>1 DEF StreamsInv, TypeOK
  <2>5. Apart'
    <3>1. SUFFICES ASSUME NEW t \in Streams, NEW u \in Streams, Open(t)', Open(u)', fds'[t].path = fds'[u].path
                   PROVE  t = u
      BY DEF Apart
    <3>2. Open(t) /\ Open(u) /\ fds[t].path = fds[u].path  BY <2>2, <2>3, <3>1
    <3>3. QED  BY <3>2 DEF StreamsInv, Apart
  <2>6. ASSUME NEW s \in Streams, Open(s)'
        PROVE  SoundAt(s)'
    BY <1>1, <2>2, <2>3, <2>6 DEF SoundAt
  <2>7. ASSUME NEW s \in Streams, ~Open(s)'
        PROVE  streams'[s] = Absent /\ last'[s] = "none" /\ back'[s] = 0
    <3>1. ~Open(s) /\ streams'[s] = streams[s]  BY <2>1, <2>3, <2>7
    <3>2. QED  BY <1>1, <3>1 DEF StreamsInv
  <2>8. \A s \in Streams : s > opened' => ~Open(s)'  BY <1>1, <2>3 DEF StreamsInv
  <2>9. QED  BY <2>4, <2>5, <2>6, <2>7, <2>8 DEF StreamsInv
<1>4. QED  BY <1>1, <1>2, <1>3

\* A step that leaves the streams alone.
LEMMA StillKeeps ==
  ASSUME StreamsInv, UNCHANGED <<program, files, fds, streams, hook, opened, last, back>>,
         phase' \in {"running", "exiting", "handler", "ended"}
  PROVE  StreamsInv'
<1>1. TypeOK'  BY DEF StreamsInv, TypeOK
<1>2. QED  BY <1>1 DEF StreamsInv, Apart, Open, SoundAt

\* At the start only the standard output is open, and it holds nothing.
LEMMA InitStreams == Init => StreamsInv
<1>1. SUFFICES ASSUME Init PROVE StreamsInv  OBVIOUS
<1>2. /\ program \in Programs /\ files = [p \in AllPaths |-> IF p = Terminal THEN <<>> ELSE InitialFiles[p]]
      /\ streams = [s \in Streams |-> IF s = Stdout THEN [Absent EXCEPT !.flags = {"write", "linebuf"}] ELSE Absent]
      /\ fds = [s \in Streams |-> IF s = Stdout THEN [NoFd EXCEPT !.path = Terminal] ELSE NoFd]
      /\ hook = FALSE /\ phase = "running" /\ opened = 0
      /\ last = [s \in Streams |-> "none"] /\ back = [s \in Streams |-> 0]
  BY <1>1 DEF Init, AllPaths
<1>3. files \in [AllPaths -> Seq(Bytes)]
  <2>1. <<>> \in Seq(Bytes)  OBVIOUS
  <2>2. \A p \in AllPaths : (IF p = Terminal THEN <<>> ELSE InitialFiles[p]) \in Seq(Bytes)
    BY <2>1, FilesAssumption DEF AllPaths
  <2>3. QED  BY <1>2, <2>2
<1>4. PICK f \in File : f = [Absent EXCEPT !.flags = {"write", "linebuf"}]
                        /\ f.flags = {"write", "linebuf"} /\ f.wbuf = <<>> /\ f.rbuf = <<>> /\ f.rpos = 0
  <2>1. PICK x \in SUBSET AllFlags : x = {"write", "linebuf"}  BY DEF AllFlags
  <2>2. QED  BY <2>1, AbsentFile
<1>5. PICK fd \in Fd : fd = [NoFd EXCEPT !.path = Terminal] /\ fd.off = 0
  <2>1. [NoFd EXCEPT !.path = Terminal] = [path |-> Terminal, off |-> 0, append |-> FALSE]
    <3>1. PICK x, t : x = FALSE /\ t = Terminal  OBVIOUS
    <3>2. NoFd = [path |-> "none", off |-> 0, append |-> x]  BY <3>1 DEF NoFd
    <3>3. [NoFd EXCEPT !.path = t] = [path |-> t, off |-> 0, append |-> x]  BY <3>2
    <3>4. QED  BY <3>1, <3>3
  <2>2. [path |-> Terminal, off |-> 0, append |-> FALSE] \in Fd
        /\ [path |-> Terminal, off |-> 0, append |-> FALSE].off = 0
    BY DEF Fd, AllPaths
  <2>3. QED  BY <2>1, <2>2
<1>6. Absent \in File  BY AbsentFile
<1>7. 0 \in Streams /\ MaxOpens \in Nat  BY BoundsAssumption DEF Streams
<1>8. TypeOK
  <2>1. streams \in [Streams -> File] /\ fds \in [Streams -> Fd \cup {NoFd}]
    <3>1. streams = [s \in Streams |-> IF s = Stdout THEN f ELSE Absent]
          /\ fds = [s \in Streams |-> IF s = Stdout THEN fd ELSE NoFd]
      BY <1>2, <1>4, <1>5
    <3>2. QED  BY <1>6, <3>1
  <2>2. last \in [Streams -> {"none", "read", "write"}] /\ back \in [Streams -> Nat]  BY <1>2
  <2>3. hook \in BOOLEAN  BY <1>2
  <2>4. opened \in 0..MaxOpens /\ phase \in {"running", "exiting", "handler", "ended"}  BY <1>2, <1>7
  <2>5. program \in Programs  BY <1>2
  <2>6. QED  BY <1>3, <2>1, <2>2, <2>3, <2>4, <2>5 DEF TypeOK
<1>9. \A s \in Streams : Open(s) <=> s = Stdout
  BY <1>2, <1>5, NoFdNotFd DEF Open
<1>10. SoundAt(Stdout)
  <2>1. PICK c \in Seq(Bytes) : c = files[fd.path]  BY <1>3 DEF Fd
  <2>2. PICK e : e = <<>> /\ Len(e) = 0  OBVIOUS
  <2>3. (0 + 0 + 1)..Len(e) = {} /\ 0 + 0 <= Len(e)  BY <2>2
  <2>4. Sound(f, fd, c, hook, "none", 0)  BY <1>4, <2>2, <2>3 DEF Sound
  <2>5. streams[Stdout] = f /\ fds[Stdout] = fd /\ last[Stdout] = "none" /\ back[Stdout] = 0
    BY <1>2, <1>4, <1>5, <1>7 DEF Stdout
  <2>6. QED  BY <1>5, <2>1, <2>3, <2>4, <2>5 DEF SoundAt
<1>11. Apart  BY <1>9 DEF Apart
<1>12. \A s \in Streams : ~Open(s) => streams[s] = Absent /\ last[s] = "none" /\ back[s] = 0
  BY <1>2, <1>9
<1>13. \A s \in Streams : s > opened => ~Open(s)  BY <1>2, <1>9 DEF Stdout
<1>14. QED  BY <1>8, <1>9, <1>10, <1>11, <1>12, <1>13 DEF StreamsInv

\* What each action is to the streams.
LEMMA StepStreams == StreamsInv /\ [Next]_vars => StreamsInv'
<1>1. SUFFICES ASSUME StreamsInv, [Next]_vars PROVE StreamsInv'  OBVIOUS
<1> USE <1>1
<1>2. ASSUME NEW s \in Streams, Fputc(s) \/ Fwrite(s) PROVE StreamsInv'
  <2>1. PICK bs \in Runs, ok \in Nat : Put(s, bs, ok)
    <3>1. 0 \in Nat /\ 1 \in Nat /\ AllSucceed \in Nat  BY DEF AllSucceed
    <3>2. CASE Fputc(s)
      <4>1. PICK b \in Bytes, ok \in {0, AllSucceed} : Put(s, <<b>>, ok)  BY <3>2 DEF Fputc
      <4>2. <<b>> \in Runs /\ ok \in Nat  BY <3>1 DEF Runs
      <4>3. QED  BY <4>1, <4>2
    <3>3. CASE Fwrite(s)
      <4>1. PICK a \in Bytes, b \in Bytes, ok \in {0, 1, AllSucceed} : Put(s, <<a, b>>, ok)  BY <3>3 DEF Fwrite
      <4>2. <<a, b>> \in Runs /\ ok \in Nat  BY <3>1 DEF Runs
      <4>3. QED  BY <4>1, <4>2
    <3>4. QED  BY <1>2, <3>2, <3>3
  <2>2. CASE \E w, q : w = Work(s, ok) /\ Call(s, q, "write") /\ Outcome(w, q, bs) /\ Answer(q) /\ UNCHANGED back
                       /\ w.f.rpos = Len(w.f.rbuf) /\ q.f.rpos = w.f.rpos /\ q.f.rbuf = w.f.rbuf
    BY <2>2, CallKeeps
  <2>3. CASE UNCHANGED <<program, files, fds, streams, registry, hook, handlers, phase, opened, last, back>>
    <3>1. phase' \in {"running", "exiting", "handler", "ended"}  BY <2>3 DEF StreamsInv, TypeOK
    <3>2. QED  BY <2>3, <3>1, StillKeeps
  <2>4. QED  BY <2>1, <2>2, <2>3, PutCall
<1>3. ASSUME NEW s \in Streams, Fflush(s) PROVE StreamsInv'
  BY <1>3, FflushCall, CallKeeps
<1>4. ASSUME NEW s \in Streams, FgetcBuffered(s) PROVE StreamsInv'
  BY <1>4, FgetcBufferedCall, CallKeeps
<1>5. ASSUME NEW s \in Streams, FgetcRefill(s) PROVE StreamsInv'
  BY <1>5, FgetcRefillCall, CallKeeps
<1>6. ASSUME NEW s \in Streams, NEW b \in Bytes, Ungetc(s, b) PROVE StreamsInv'
  <2>1. CASE UNCHANGED <<program, files, fds, streams, registry, hook, handlers, phase, opened, last, back>>
    <3>1. phase' \in {"running", "exiting", "handler", "ended"}  BY <2>1 DEF StreamsInv, TypeOK
    <3>2. QED  BY <2>1, <3>1, StillKeeps
  <2>2. CASE \E q : Call(s, q, "read")  BY <2>2, CallKeeps
  <2>3. QED  BY <1>6, <2>1, <2>2, UngetcCall
<1>7. ASSUME NEW s \in Streams, NEW whence \in Whences, NEW offset \in program.offsets, Fseek(s, whence, offset)
      PROVE  StreamsInv'
  <2>1. \E q, did : Call(s, q, did)  BY <1>7, ProgramSeeks, FseekCall
  <2>2. QED  BY <2>1, CallKeeps
<1>8. ASSUME NEW s \in Streams, Clearerr(s) PROVE StreamsInv'
  BY <1>8, ClearerrCall, CallKeeps
<1>9. ASSUME NEW s \in Streams, Setvbuf(s, "full", 1) \/ Setvbuf(s, "linebuf", 0) \/ Setvbuf(s, "unbuf", 1)
      PROVE  StreamsInv'
  <2>1. \E q : Call(s, q, last[s])
    <3>1. "full" \in {"full", "linebuf", "unbuf"} /\ "linebuf" \in {"full", "linebuf", "unbuf"}
          /\ "unbuf" \in {"full", "linebuf", "unbuf"} /\ 0 \in Nat /\ 1 \in Nat
      OBVIOUS
    <3>2. QED  BY <1>9, <3>1, SetvbufCall
  <2>2. QED  BY <2>1, CallKeeps
<1>10. ASSUME NEW s \in Streams, Fclose(s) PROVE StreamsInv'
  <2>1. Replaces(s, Absent, NoFd)  BY <1>10, FcloseReplaces
  <2>2. Absent \in File  BY AbsentFile
  <2>3. QED  BY <2>1, <2>2, ReplaceKeeps
<1>11. ASSUME NEW s \in Streams, NEW p \in program.paths, NEW m \in program.modes, Freopen(s, p, m)
       PROVE  StreamsInv'
  <2>1. \/ Replaces(s, Absent, NoFd)
        \/ \E f \in File, fd \in Fd :
             /\ Replaces(s, f, fd) /\ fd.off = 0 /\ s <= opened' /\ \A t \in Streams \ {s} : fds[t].path # fd.path
             /\ f.wbuf = <<>> /\ f.rbuf = <<>> /\ f.rpos = 0 /\ "inited" \notin f.flags
    BY <1>11, FreopenReplaces
  <2>2. Absent \in File  BY AbsentFile
  <2>3. QED  BY <2>1, <2>2, ReplaceKeeps
<1>12. ASSUME NEW p \in program.paths, NEW m \in program.modes, Fopen(p, m) PROVE StreamsInv'
  <2>1. PICK s \in Streams, f \in File, fd \in Fd :
           /\ opened' = s /\ Replaces(s, f, fd) /\ fd.off = 0
           /\ \A t \in Streams \ {s} : fds[t].path # fd.path
           /\ f.wbuf = <<>> /\ f.rbuf = <<>> /\ f.rpos = 0 /\ "inited" \notin f.flags
    BY <1>12, FopenReplaces
  <2>2. s <= opened'
    <3>1. s \in Nat  BY DEF Streams
    <3>2. QED  BY <2>1, <3>1
  <2>3. QED  BY <2>1, <2>2, ReplaceKeeps
<1>13. ASSUME SysExit PROVE StreamsInv'
  BY <1>13, SysExitKeeps
<1>14. ASSUME Atexit \/ Exit \/ RunHandler \/ HandlerReturns \/ Quit \/ (\E s \in Streams : Ftell(s)) \/ UNCHANGED vars
       PROVE  StreamsInv'
  <2>1. UNCHANGED <<program, files, fds, streams, hook, opened, last, back>>
    BY <1>14 DEF Atexit, Exit, RunHandler, HandlerReturns, Quit, Ftell, Still, vars
  <2>2. phase' \in {"running", "exiting", "handler", "ended"}
    <3>1. phase \in {"running", "exiting", "handler", "ended"}  BY DEF StreamsInv, TypeOK
    <3>2. phase' = phase \/ phase' \in {"running", "exiting", "handler", "ended"}
      BY <1>14 DEF Atexit, Exit, RunHandler, HandlerReturns, Quit, Ftell, vars
    <3>3. QED  BY <3>1, <3>2
  <2>3. QED  BY <2>1, <2>2, StillKeeps
<1>15. QED
  BY <1>2, <1>3, <1>4, <1>5, <1>6, <1>7, <1>8, <1>9, <1>10, <1>11, <1>12, <1>13, <1>14 DEF Next

\* Type correctness and what every stream keeps: what it holds back was put by a set-up writer whose hook is
\* registered, and what it has read ahead is what the file has there.
THEOREM StreamsSound == Spec => []StreamsInv
<1>1. QED  BY InitStreams, StepStreams, PTL DEF Spec

-----------------------------------------------------------------------------
(***************************************************************************)
(* The registry, of a program that opens no more streams than it has slots.*)
(***************************************************************************)
RegistryInv ==
  /\ registry \in Seq(Int) /\ Len(registry) = opened
  /\ \A i \in 1..opened : registry[i] \in {i, NoStream} /\ (Open(i) => registry[i] = i)

\* A closed stream leaves its own slot and no other.
LEMMA UnregisteredWorks ==
  ASSUME StreamsInv, RegistryInv, NEW s \in Streams, Open(s)
  PROVE  /\ Unregistered(s) \in Seq(Int) /\ Len(Unregistered(s)) = opened
         /\ \A i \in 1..opened : i # s => Unregistered(s)[i] = registry[i]
         /\ s \in 1..opened => Unregistered(s)[s] = NoStream
<1>1. registry \in Seq(Int) /\ Len(registry) = opened /\ opened \in Nat /\ DOMAIN registry = 1..opened
      /\ \A i \in 1..opened : registry[i] \in {i, NoStream} /\ (Open(i) => registry[i] = i)
  <2>1. opened \in Nat  BY BoundsAssumption DEF StreamsInv, TypeOK
  <2>2. registry \in Seq(Int) /\ Len(registry) = opened  BY DEF RegistryInv
  <2>3. DOMAIN registry = 1..opened  BY <2>2
  <2>4. QED  BY <2>1, <2>2, <2>3 DEF RegistryInv
<1> DEFINE at == {i \in DOMAIN registry : registry[i] = s}
<1>2. s \in Nat /\ NoStream = -1  BY DEF Streams, NoStream
<1>3. at \subseteq {s}  BY <1>1, <1>2
<1>4. s \in 1..opened => at = {s}  BY <1>1, <1>3
<1>5. s \in 1..opened => (CHOOSE k \in at : \A j \in at : k <= j) = s
  <2>1. \A k \in {s} : k = s /\ k <= s  BY <1>2
  <2>2. QED  BY <1>4, <2>1
<1>6. s \notin 1..opened => at = {}  BY <1>1, <1>3
<1> DEFINE u == [i \in DOMAIN registry |->
                   IF at # {} /\ i = (CHOOSE k \in at : \A j \in at : k <= j) THEN NoStream ELSE registry[i]]
<1>7. Unregistered(s) = u  BY DEF Unregistered
<1> HIDE DEF at
<1>8. \A i \in 1..opened : u[i] = IF i = s THEN NoStream ELSE registry[i]
  <2>1. CASE s \in 1..opened  BY <1>1, <1>4, <1>5, <2>1
  <2>2. CASE s \notin 1..opened  BY <1>1, <1>6, <2>2
  <2>3. QED  BY <2>1, <2>2
<1>9. u \in [1..opened -> Int]
  <2>1. \A i \in 1..opened : u[i] \in Int  BY <1>1, <1>2, <1>8
  <2>2. u = [i \in 1..opened |-> u[i]]  BY <1>1
  <2>3. QED  BY <2>1, <2>2
<1> HIDE DEF u
<1>10. u \in Seq(Int) /\ Len(u) = opened  BY <1>1, <1>9
<1>11. QED  BY <1>7, <1>8, <1>10

\* The registry starts empty.
LEMMA RegistryInit == Init => RegistryInv
<1>1. <<>> \in Seq(Int) /\ Len(<<>>) = 0  OBVIOUS
<1>2. QED  BY <1>1 DEF Init, RegistryInv

\* Only fopen, fclose and freopen touch the registry or open and close streams.
SameRegistry == registry' = registry /\ opened' = opened /\ \A s \in Streams : Open(s)' => Open(s)

\* A step that opens no stream and leaves the registry alone.
LEMMA SameRegistryKeeps ==
  ASSUME StreamsInv, RegistryInv, SameRegistry PROVE RegistryInv'
<1>1. opened \in 0..MaxOpens /\ MaxOpens \in Nat  BY BoundsAssumption DEF StreamsInv, TypeOK
<1>2. \A i \in 1..opened : i \in Streams  BY <1>1 DEF Streams
<1>3. QED  BY <1>2 DEF RegistryInv, SameRegistry

\* A call on a stream does not touch the registry.
LEMMA CallRegistry ==
  ASSUME StreamsInv, NEW s \in Streams, NEW r, NEW did, Call(s, r, did)
  PROVE  SameRegistry
<1>1. Open(s) /\ r \in Works /\ r.fd.path = fds[s].path /\ did \in {"none", "read", "write"} /\ Commit(s, r, did)
  BY DEF Call
<1>2. \A t \in Streams \ {s} : Open(t)' <=> Open(t)  BY <1>1, CommitChanges
<1>3. QED  BY <1>1, <1>2 DEF SameRegistry, Commit

\* A stream that goes takes its own slot.
LEMMA GoneRegistry ==
  ASSUME StreamsInv, RegistryInv, NEW s \in Streams, Open(s), Gone(s)
  PROVE  RegistryInv'
<1>1. registry' = Unregistered(s) /\ opened' = opened /\ fds' = [fds EXCEPT ![s] = NoFd]  BY DEF Gone
<1>2. ~Open(s)' /\ \A t \in Streams \ {s} : Open(t)' <=> Open(t)
  BY <1>1 DEF Open, StreamsInv, TypeOK
<1>3. opened \in 0..MaxOpens /\ MaxOpens \in Nat  BY BoundsAssumption DEF StreamsInv, TypeOK
<1>4. ASSUME NEW i \in 1..opened PROVE registry'[i] \in {i, NoStream} /\ (Open(i)' => registry'[i] = i)
  <2>1. i \in Streams  BY <1>3 DEF Streams
  <2>2. CASE i = s  BY <1>1, <1>2, <2>2, UnregisteredWorks
  <2>3. CASE i # s
    <3>1. registry'[i] = registry[i]  BY <1>1, <2>3, UnregisteredWorks
    <3>2. Open(i)' <=> Open(i)  BY <1>2, <2>1, <2>3
    <3>3. QED  BY <3>1, <3>2 DEF RegistryInv
  <2>4. QED  BY <2>2, <2>3
<1>5. registry' \in Seq(Int) /\ Len(registry') = opened'  BY <1>1, UnregisteredWorks
<1>6. QED  BY <1>1, <1>4, <1>5 DEF RegistryInv

\* fopen registers the stream in the slot of its number, while there are slots.
LEMMA FopenRegistry ==
  ASSUME MaxOpens <= StreamsMax, StreamsInv, RegistryInv,
         NEW p \in program.paths, NEW m \in program.modes, Fopen(p, m)
  PROVE  RegistryInv'
<1>1. PICK s : /\ s = opened + 1 /\ opened' = s /\ opened < MaxOpens
               /\ registry' = IF Len(registry) < StreamsMax THEN Append(registry, s) ELSE registry
               /\ fds' = [fds EXCEPT ![s] = [path |-> p, off |-> 0, append |-> m.kind = "a"]]
  BY DEF Fopen, HostOpen
<1>2. /\ registry \in Seq(Int) /\ Len(registry) = opened /\ opened \in 0..MaxOpens
      /\ MaxOpens \in Nat /\ StreamsMax \in Nat
      /\ \A i \in 1..opened : registry[i] \in {i, NoStream} /\ (Open(i) => registry[i] = i)
  BY BoundsAssumption DEF StreamsInv, TypeOK, RegistryInv
<1>3. registry' = Append(registry, s) /\ s \in Int  BY <1>1, <1>2
<1>4. /\ registry' \in Seq(Int) /\ Len(registry') = s /\ registry'[s] = s
      /\ \A i \in 1..opened : registry'[i] = registry[i]
  BY <1>1, <1>2, <1>3
<1>5. \A i \in 1..opened : i \in Streams /\ i # s  BY <1>1, <1>2 DEF Streams
<1>6. \A i \in 1..opened : Open(i)' <=> Open(i)  BY <1>1, <1>5 DEF Open, StreamsInv, TypeOK
<1>7. ASSUME NEW i \in 1..s PROVE registry'[i] \in {i, NoStream} /\ (Open(i)' => registry'[i] = i)
  <2>1. CASE i = s  BY <1>4, <2>1
  <2>2. CASE i # s
    <3>1. i \in 1..opened  BY <1>1, <1>2, <2>2
    <3>2. QED  BY <1>2, <1>4, <1>6, <3>1
  <2>3. QED  BY <2>1, <2>2
<1>8. QED  BY <1>1, <1>4, <1>7 DEF RegistryInv

\* Every step keeps the registry: one case per action.
LEMMA StepRegistry ==
  ASSUME MaxOpens <= StreamsMax
  PROVE  StreamsInv /\ RegistryInv /\ [Next]_vars => RegistryInv'
<1>1. SUFFICES ASSUME StreamsInv, RegistryInv, [Next]_vars PROVE RegistryInv'  OBVIOUS
<1> USE <1>1
<1>2. ASSUME UNCHANGED <<fds, registry, opened>> PROVE SameRegistry
  BY <1>2 DEF SameRegistry, Open
<1>3. ASSUME NEW s \in Streams, Fputc(s) \/ Fwrite(s) PROVE SameRegistry
  <2>1. PICK bs \in Runs, ok \in Nat : Put(s, bs, ok)
    <3>1. 0 \in Nat /\ 1 \in Nat /\ AllSucceed \in Nat  BY DEF AllSucceed
    <3>2. CASE Fputc(s)
      <4>1. PICK b \in Bytes, ok \in {0, AllSucceed} : Put(s, <<b>>, ok)  BY <3>2 DEF Fputc
      <4>2. <<b>> \in Runs /\ ok \in Nat  BY <3>1 DEF Runs
      <4>3. QED  BY <4>1, <4>2
    <3>3. CASE Fwrite(s)
      <4>1. PICK a \in Bytes, b \in Bytes, ok \in {0, 1, AllSucceed} : Put(s, <<a, b>>, ok)  BY <3>3 DEF Fwrite
      <4>2. <<a, b>> \in Runs /\ ok \in Nat  BY <3>1 DEF Runs
      <4>3. QED  BY <4>1, <4>2
    <3>4. QED  BY <1>3, <3>2, <3>3
  <2>2. (\E q : Call(s, q, "write")) \/ UNCHANGED <<fds, registry, opened>>
    BY <2>1, PutCall
  <2>3. QED  BY <1>2, <2>2, CallRegistry
<1>4. ASSUME NEW s \in Streams, Fflush(s) \/ FgetcBuffered(s) \/ FgetcRefill(s) \/ Clearerr(s)
      PROVE  SameRegistry
  <2>1. \E q, did : Call(s, q, did)
    BY <1>4, FflushCall, FgetcBufferedCall, FgetcRefillCall, ClearerrCall
  <2>2. QED  BY <2>1, CallRegistry
<1>a. ASSUME NEW s \in Streams, NEW whence \in Whences, NEW offset \in program.offsets, Fseek(s, whence, offset)
      PROVE  SameRegistry
  <2>1. \E q, did : Call(s, q, did)  BY <1>a, ProgramSeeks, FseekCall
  <2>2. QED  BY <2>1, CallRegistry
<1>5. ASSUME NEW s \in Streams, NEW b \in Bytes, Ungetc(s, b) PROVE SameRegistry
  <2>1. (\E q : Call(s, q, "read")) \/ UNCHANGED <<fds, registry, opened>>
    BY <1>5, UngetcCall
  <2>2. QED  BY <1>2, <2>1, CallRegistry
<1>6. ASSUME NEW s \in Streams, Setvbuf(s, "full", 1) \/ Setvbuf(s, "linebuf", 0) \/ Setvbuf(s, "unbuf", 1)
      PROVE  SameRegistry
  <2>1. \E q : Call(s, q, last[s])
    <3>1. "full" \in {"full", "linebuf", "unbuf"} /\ "linebuf" \in {"full", "linebuf", "unbuf"}
          /\ "unbuf" \in {"full", "linebuf", "unbuf"} /\ 0 \in Nat /\ 1 \in Nat
      OBVIOUS
    <3>2. QED  BY <1>6, <3>1, SetvbufCall
  <2>2. QED  BY <2>1, CallRegistry
<1>7. ASSUME NEW s \in Streams, Fclose(s) PROVE RegistryInv'
  <2>1. Open(s) /\ Gone(s)  BY <1>7 DEF Fclose, Usable
  <2>2. QED  BY <2>1, GoneRegistry
<1>8. ASSUME NEW s \in Streams, NEW p \in program.paths, NEW m \in program.modes, Freopen(s, p, m)
      PROVE  RegistryInv'
  <2>1. Open(s) /\ \/ Gone(s)
                   \/ /\ registry' = registry /\ opened' = opened
                      /\ \E f \in File, fd \in Fd : Replaces(s, f, fd)
    BY <1>8, FreopenReplaces
  <2>2. CASE Gone(s)  BY <2>1, <2>2, GoneRegistry
  <2>3. CASE /\ registry' = registry /\ opened' = opened
             /\ \E f \in File, fd \in Fd : Replaces(s, f, fd)
    <3>1. \A t \in Streams \ {s} : Open(t)' <=> Open(t)
      BY <2>3 DEF Replaces, Open, StreamsInv, TypeOK
    <3>2. SameRegistry  BY <2>1, <2>3, <3>1 DEF SameRegistry
    <3>3. QED  BY <3>2, SameRegistryKeeps
  <2>4. QED  BY <2>1, <2>2, <2>3
<1>9. ASSUME NEW p \in program.paths, NEW m \in program.modes, Fopen(p, m) PROVE RegistryInv'
  BY <1>9, FopenRegistry
<1>10. ASSUME SysExit PROVE SameRegistry
  <2>1. registry' = registry /\ opened' = opened /\ (StdioExit \/ UNCHANGED fds)
    BY <1>10 DEF SysExit
  <2>2. CASE StdioExit
    <3>1. \A s \in Streams : ~Open(s) => fds'[s] = fds[s]  BY <2>2, StdioExitWorks
    <3>2. QED  BY <2>1, <3>1 DEF SameRegistry, Open
  <2>3. CASE UNCHANGED fds  BY <1>2, <2>1, <2>3
  <2>4. QED  BY <2>1, <2>2, <2>3
<1>11. ASSUME Atexit \/ Exit \/ RunHandler \/ HandlerReturns \/ Quit \/ (\E s \in Streams : Ftell(s)) \/ UNCHANGED vars
       PROVE  SameRegistry
  <2>1. UNCHANGED <<fds, registry, opened>>
    BY <1>11 DEF Atexit, Exit, RunHandler, HandlerReturns, Quit, Ftell, Still, vars
  <2>2. QED  BY <1>2, <2>1
<1>12. QED
  BY <1>3, <1>4, <1>a, <1>5, <1>6, <1>7, <1>8, <1>9, <1>10, <1>11, SameRegistryKeeps DEF Next

\* When the program has ended, the hook was registered for each writer that held something, and found it in the registry.
LEMMA HeldReached == ASSUME StreamsInv, RegistryInv PROVE HeldIsFlushedAtExit
<1>1. SUFFICES ASSUME NEW s \in Streams, streams[s].wbuf # <<>> PROVE hook /\ s \in Flushed
  BY DEF HeldIsFlushedAtExit
<1>2. Open(s)
  <2>1. Absent.wbuf = <<>>  BY DEF Absent
  <2>2. QED  BY <1>1, <2>1 DEF StreamsInv
<1>3. hook  BY <1>1, <1>2 DEF StreamsInv, SoundAt, Sound
<1>4. s \in Flushed
  <2>1. opened \in Nat /\ s \in Nat  BY BoundsAssumption DEF StreamsInv, TypeOK, Streams
  <2>2. ~(s > opened)  BY <1>2 DEF StreamsInv
  <2>3. CASE s = 0  BY <2>3 DEF Flushed, Stdout
  <2>4. CASE s # 0
    <3>1. s \in 1..opened  BY <2>1, <2>2, <2>4
    <3>2. registry[s] = s /\ s \in DOMAIN registry
      <4>1. DOMAIN registry = 1..opened  BY <2>1 DEF RegistryInv
      <4>2. QED  BY <1>2, <3>1, <4>1 DEF RegistryInv
    <3>3. QED  BY <3>2 DEF Flushed
  <2>5. QED  BY <2>3, <2>4
<1>5. QED  BY <1>3, <1>4

\* What a stream holds back when the program ends, exit() will flush: the stream is stdout or has its slot of the
\* registry, and stdio has registered its hook. Of a program that opens at most _STREAMS_MAX streams: the next one
\* is not registered (register_stream).
THEOREM HeldIsReached ==
  ASSUME MaxOpens <= StreamsMax
  PROVE  Spec => []HeldIsFlushedAtExit
<1>1. Init => StreamsInv /\ RegistryInv  BY InitStreams, RegistryInit
<1>2. StreamsInv /\ RegistryInv /\ [Next]_vars => StreamsInv' /\ RegistryInv'
  BY StepStreams, StepRegistry
<1>3. StreamsInv /\ RegistryInv => HeldIsFlushedAtExit  BY HeldReached
<1>4. QED  BY <1>1, <1>2, <1>3, PTL DEF Spec

-----------------------------------------------------------------------------
(***************************************************************************)
(* The buffered streams implement the streams without buffers of           *)
(* AbstractStdio: each step is a step of the stream it works on, of no     *)
(* stream, or the end.  A stream without buffers is at the end of what was *)
(* put or before what is unread, in the file as it is once flushed.        *)
(***************************************************************************)
Views == [s \in Streams |-> View(s)]

PosIn(r) ==
  IF r.fd.append /\ r.f.wbuf # <<>> THEN Len(Meant(r)) ELSE r.fd.off - (Len(r.f.rbuf) - r.f.rpos) + Len(r.f.wbuf)
ViewIn(r, k) ==
  [path |-> r.fd.path, pos |-> PosIn(r), append |-> r.fd.append,
   pushed |-> SubSeq(r.f.rbuf, r.f.rpos + 1, r.f.rpos + k)]

\* A stream that holds back has nothing unread.
LEMMA PosIsEnd ==
  ASSUME NEW r \in Works, r.f.wbuf # <<>> => r.f.rpos = Len(r.f.rbuf)
  PROVE  PosIn(r) = End(r) - (Len(r.f.rbuf) - r.f.rpos)
<1>1. PICK l \in Nat, n \in Nat, o \in Nat, h \in Nat :
        l = Len(r.f.rbuf) /\ n = r.f.rpos /\ o = r.fd.off /\ h = Len(r.f.wbuf)
  <2>1. r.f \in File /\ r.fd \in Fd  BY DEF Works
  <2>2. r.f.rbuf \in Seq(Bytes) /\ r.f.wbuf \in Seq(Bytes) /\ r.f.rpos \in Nat /\ r.fd.off \in Nat
    BY <2>1 DEF File, Fd
  <2>3. Len(r.f.rbuf) \in Nat /\ Len(r.f.wbuf) \in Nat  BY <2>2
  <2>4. QED  BY <2>2, <2>3
<1>2. CASE r.fd.append /\ r.f.wbuf # <<>>
  <2>1. PosIn(r) = Len(Meant(r)) /\ End(r) = Len(Meant(r)) /\ l = n  BY <1>1, <1>2 DEF PosIn, End
  <2>2. Len(Meant(r)) \in Nat
    <3>1. PICK m \in Seq(Bytes) : m = Meant(r)  BY MeantType
    <3>2. QED  BY <3>1
  <2>3. QED  BY <1>1, <2>1, <2>2
<1>3. CASE ~(r.fd.append /\ r.f.wbuf # <<>>)
  <2>1. PosIn(r) = o - (l - n) + h /\ End(r) = o + h  BY <1>1, <1>3 DEF PosIn, End
  <2>2. o - (l - n) + h = (o + h) - (l - n)  OBVIOUS
  <2>3. PosIn(r) = End(r) - (l - n)  BY <2>1, <2>2
  <2>4. QED  BY <1>1, <2>3
<1>4. QED  BY <1>2, <1>3

\* An abstract stream is what Work sees of it, an abstract file what its stream means, or the file.
ViewAt ==
  \A s \in Streams : Open(s) => /\ View(s) = ViewIn(Work(s, 0), back[s])
                                /\ phase # "ended" => Contents[fds[s].path] = Meant(Work(s, 0))
FileAt ==
  \A p \in AllPaths : \/ \E s \in Streams : Open(s) /\ fds[s].path = p
                      \/ Contents[p] = files[p]

\* The mapping at a state: what a stream shows is its record of work, and a file without a stream is itself.
LEMMA ViewsSeen == StreamsInv => ViewAt /\ FileAt /\ DOMAIN Contents = AllPaths
<1>1. SUFFICES ASSUME StreamsInv PROVE ViewAt /\ FileAt /\ DOMAIN Contents = AllPaths  OBVIOUS
<1>2. DOMAIN files = AllPaths /\ DOMAIN Contents = AllPaths  BY <1>1 DEF StreamsInv, TypeOK, Contents
<1>3. ASSUME NEW s \in Streams, Open(s)
      PROVE  /\ View(s) = ViewIn(Work(s, 0), back[s])
             /\ phase # "ended" => Contents[fds[s].path] = Meant(Work(s, 0))
  <2>1. PICK w : w = Work(s, 0)  OBVIOUS
  <2>2. w.f = streams[s] /\ w.fd = fds[s] /\ w.c = files[fds[s].path]  BY <2>1 DEF Work
  <2>3. Flushing(s) = Meant(w)  BY <2>2 DEF Flushing, Meant
  <2>4. Position(s) = PosIn(w)  BY <2>2, <2>3 DEF Position, PosIn, Unread
  <2>5. View(s) = ViewIn(w, back[s])  BY <1>3, <2>2, <2>4 DEF View, ViewIn
  <2>6. ASSUME phase # "ended" PROVE Contents[fds[s].path] = Meant(w)
    <3>1. fds[s].path \in DOMAIN files  BY <1>1, <1>3, OpenType
    <3>2. \A t \in Streams : Open(t) /\ fds[t].path = fds[s].path => t = s  BY <1>1, <1>3 DEF StreamsInv, Apart
    <3>3. StreamOf(fds[s].path) = s  BY <1>3, <3>2 DEF StreamOf
    <3>4. QED  BY <1>3, <2>3, <2>6, <3>1, <3>3 DEF Contents
  <2>7. QED  BY <2>1, <2>5, <2>6
<1>4. FileAt  BY <1>2 DEF FileAt, Contents
<1>5. QED  BY <1>2, <1>3, <1>4 DEF ViewAt

\* The same after a step.
LEMMA ViewsSeenNext == (StreamsInv => ViewAt /\ FileAt /\ DOMAIN Contents = AllPaths)'
BY ViewsSeen, PTL

\* A stream that a step leaves alone is seen as before, with its file.
LEMMA OthersSeen ==
  ASSUME StreamsInv, StreamsInv', NEW t \in Streams, Open(t)' <=> Open(t), streams'[t] = streams[t],
         fds'[t] = fds[t], back'[t] = back[t], Open(t) => files'[fds[t].path] = files[fds[t].path],
         phase # "ended", phase' # "ended"
  PROVE  View(t)' = View(t) /\ (Open(t) => Contents'[fds[t].path] = Contents[fds[t].path])
<1>1. ViewAt /\ ViewAt'  BY ViewsSeen, ViewsSeenNext
<1>2. CASE ~Open(t)
  <2>1. View(t) = Closed  BY <1>2 DEF View
  <2>2. View(t)' = Closed  BY <1>2 DEF View, Closed
  <2>3. QED  BY <1>2, <2>1, <2>2
<1>3. CASE Open(t)
  <2>1. PICK w, v : w = Work(t, 0) /\ v = Work(t, 0)'  OBVIOUS
  <2>2. w = v  BY <1>3, <2>1 DEF Work
  <2>3. View(t) = ViewIn(w, back[t]) /\ Contents[fds[t].path] = Meant(w)
    BY <1>1, <1>3, <2>1 DEF ViewAt
  <2>4. View(t)' = ViewIn(v, back'[t]) /\ Contents'[fds'[t].path] = Meant(v)
    BY <1>1, <1>3, <2>1 DEF ViewAt, ViewIn, PosIn, Meant
  <2>5. QED  BY <2>2, <2>3, <2>4
<1>4. QED  BY <1>2, <1>3

\* What the program sees of a call: the file and the place of its stream.
LEMMA CallSeen ==
  ASSUME StreamsInv, NEW s \in Streams, NEW r, NEW did, Call(s, r, did), phase # "ended"
  PROVE  /\ Contents' = [Contents EXCEPT ![fds[s].path] = Meant(r)]
         /\ Views' = [Views EXCEPT ![s] = ViewIn(r, back'[s])]
         /\ phase' = phase
<1>1. /\ Open(s) /\ r \in Works /\ r.fd.path = fds[s].path /\ did \in {"none", "read", "write"} /\ Commit(s, r, did)
      /\ \A t \in Streams \ {s} : back'[t] = back[t]
  BY DEF Call
<1>2. /\ streams' \in [Streams -> File] /\ fds' \in [Streams -> Fd \cup {NoFd}]
      /\ streams'[s] = r.f /\ fds'[s] = r.fd /\ files'[fds'[s].path] = r.c /\ Open(s)'
      /\ \A t \in Streams \ {s} :
           /\ streams'[t] = streams[t] /\ fds'[t] = fds[t]
           /\ Open(t)' <=> Open(t)
           /\ Open(t) => fds[t].path # fds[s].path /\ files'[fds[t].path] = files[fds[t].path]
  BY <1>1, CommitChanges
<1>3. StreamsInv'  BY CallKeeps
<1>4. phase' = phase /\ files' = [files EXCEPT ![r.fd.path] = r.c]  BY <1>1 DEF Commit
<1>5. /\ FileAt /\ DOMAIN Contents = AllPaths /\ ViewAt' /\ FileAt' /\ DOMAIN Contents' = AllPaths
  BY <1>3, ViewsSeen, ViewsSeenNext
<1>6. ASSUME NEW t \in Streams \ {s}
      PROVE  View(t)' = View(t) /\ (Open(t) => Contents'[fds[t].path] = Contents[fds[t].path])
  BY <1>1, <1>2, <1>3, <1>4, OthersSeen
<1>7. View(s)' = ViewIn(r, back'[s]) /\ Contents'[fds[s].path] = Meant(r)
  <2>1. PICK v : v = Work(s, 0)'  OBVIOUS
  <2>2. v.f = r.f /\ v.fd = r.fd /\ v.c = r.c  BY <1>2, <2>1 DEF Work
  <2>3. Meant(v) = Meant(r) /\ ViewIn(v, back'[s]) = ViewIn(r, back'[s])
    BY <2>2 DEF Meant, ViewIn, PosIn
  <2>4. View(s)' = ViewIn(v, back'[s]) /\ Contents'[fds'[s].path] = Meant(v)
    BY <1>2, <1>4, <1>5, <2>1 DEF ViewAt, ViewIn, PosIn, Meant
  <2>5. QED  BY <1>1, <1>2, <2>3, <2>4
<1>8. Views' = [Views EXCEPT ![s] = ViewIn(r, back'[s])]
  BY <1>6, <1>7 DEF Views
<1>9. ASSUME NEW p \in AllPaths, p # fds[s].path PROVE Contents'[p] = Contents[p]
  <2>1. CASE \E t \in Streams : Open(t) /\ fds[t].path = p
    <3>1. PICK t \in Streams : Open(t) /\ fds[t].path = p  BY <2>1
    <3>2. t # s  BY <1>9, <3>1
    <3>3. QED  BY <1>6, <3>1, <3>2
  <2>2. CASE ~\E t \in Streams : Open(t) /\ fds[t].path = p
    <3>1. ~\E t \in Streams : Open(t)' /\ fds'[t].path = p
      <4>1. SUFFICES ASSUME NEW t \in Streams, Open(t)', fds'[t].path = p PROVE FALSE  OBVIOUS
      <4>2. t # s  BY <1>1, <1>2, <1>9, <4>1
      <4>3. QED  BY <1>2, <2>2, <4>1, <4>2
    <3>2. Contents'[p] = files'[p]  BY <1>5, <3>1 DEF FileAt
    <3>3. Contents[p] = files[p]  BY <1>5, <2>2 DEF FileAt
    <3>4. files'[p] = files[p]  BY <1>1, <1>4, <1>9 DEF StreamsInv, TypeOK
    <3>5. QED  BY <3>2, <3>3, <3>4
  <2>3. QED  BY <2>1, <2>2
<1>10. Contents = [p \in AllPaths |-> Contents[p]] /\ Contents' = [p \in AllPaths |-> Contents'[p]]
  BY <1>5 DEF Contents
<1>11. fds[s].path \in AllPaths  BY <1>1, OpenType
<1>12. Contents' = [Contents EXCEPT ![fds[s].path] = Meant(r)]
  <2>1. PICK a, b, p, m : a = Contents /\ b = Contents' /\ p = fds[s].path /\ m = Meant(r)  OBVIOUS
  <2>2. /\ a = [x \in AllPaths |-> a[x]] /\ b = [x \in AllPaths |-> b[x]] /\ p \in AllPaths /\ b[p] = m
        /\ \A x \in AllPaths : x # p => b[x] = a[x]
    BY <1>7, <1>9, <1>10, <1>11, <2>1
  <2>3. b = [a EXCEPT ![p] = m]  BY <2>2
  <2>4. QED  BY <2>1, <2>3
<1>13. QED  BY <1>4, <1>8, <1>12

\* An open stream before a call, as the program sees it.
LEMMA StreamSeen ==
  ASSUME StreamsInv, NEW s \in Streams, Open(s), NEW ok \in Nat, NEW w, w = Work(s, ok), phase # "ended"
  PROVE  /\ Views[s] = ViewIn(w, back[s]) /\ Contents[fds[s].path] = Meant(w) /\ Views[s] # Closed
         /\ Views[s].path = fds[s].path /\ Views[s].append = fds[s].append
         /\ Views[s].pos = End(w) - (Len(w.f.rbuf) - w.f.rpos)
         /\ Views[s].pushed = SubSeq(w.f.rbuf, w.f.rpos + 1, w.f.rpos + back[s])
<1>1. PICK v : v = Work(s, 0)  OBVIOUS
<1>2. v.f = w.f /\ v.fd = w.fd /\ v.c = w.c /\ w.fd = fds[s]  BY <1>1 DEF Work
<1>3. View(s) = ViewIn(v, back[s]) /\ Contents[fds[s].path] = Meant(v)
  BY <1>1, ViewsSeen DEF ViewAt
<1>4. Meant(v) = Meant(w) /\ ViewIn(v, back[s]) = ViewIn(w, back[s])
  BY <1>2 DEF Meant, ViewIn, PosIn
<1>5. Views[s] = View(s)  BY DEF Views
<1>6. Views[s] # Closed
  <2>1. ViewIn(w, back[s]).path = fds[s].path /\ Closed.path = "none"  BY <1>2 DEF ViewIn, Closed
  <2>2. fds[s].path \in AllPaths /\ "none" \notin AllPaths
    BY OpenType, FilesAssumption DEF AllPaths, Terminal
  <2>3. QED  BY <1>3, <1>4, <1>5, <2>1, <2>2
<1>7. PosIn(w) = End(w) - (Len(w.f.rbuf) - w.f.rpos)
  <2>1. w \in Works /\ Sound(w.f, w.fd, w.c, hook, last[s], back[s])  BY WorkType
  <2>2. w.f.wbuf # <<>> => w.f.rpos = Len(w.f.rbuf)  BY <2>1 DEF Sound
  <2>3. QED  BY <2>1, <2>2, PosIsEnd
<1>8. PICK pu : pu = SubSeq(w.f.rbuf, w.f.rpos + 1, w.f.rpos + back[s])  OBVIOUS
<1>9. ViewIn(w, back[s]) = [path |-> fds[s].path, pos |-> PosIn(w), append |-> fds[s].append, pushed |-> pu]
  BY <1>2, <1>8 DEF ViewIn
<1>10. Views[s] = ViewIn(w, back[s]) /\ Contents[fds[s].path] = Meant(w)
  BY <1>3, <1>4, <1>5
<1>11. PICK y, a, b, x : y = Views[s] /\ a = fds[s].path /\ b = fds[s].append /\ x = PosIn(w)  OBVIOUS
<1>12. y = [path |-> a, pos |-> x, append |-> b, pushed |-> pu]  BY <1>9, <1>10, <1>11
<1>13. y.path = a /\ y.pos = x /\ y.append = b /\ y.pushed = pu  BY <1>12
<1>14. QED  BY <1>6, <1>7, <1>8, <1>10, <1>11, <1>13

\* Both modules overlay alike.
LEMMA SameOverlay ==
  ASSUME NEW c, NEW p, NEW bs PROVE Promised!Overlay(c, p, bs) = Overlay(c, p, bs)
BY DEF Promised!Overlay, Overlay

\* What a stream without buffers stores.
LEMMA PromisedStored ==
  ASSUME NEW s \in Streams, NEW x
  PROVE  /\ Promised!Stored(s, x) = IF Views[s].append THEN Contents[Views[s].path] \o x
                                    ELSE Overlay(Contents[Views[s].path], Views[s].pos, x)
         /\ Promised!Open(s) <=> Views[s] # Closed
BY SameOverlay DEF Promised!Stored, Promised!Open, Views

\* An open stream is open without buffers, on the same file.
LEMMA OpenSeen ==
  ASSUME StreamsInv, NEW s \in Streams, Open(s)
  PROVE  Promised!Open(s) /\ Views[s].path = fds[s].path /\ fds[s].path \in AllPaths
<1>1. Views[s].path = fds[s].path /\ Closed.path = "none"  BY DEF Views, View, Closed
<1>2. fds[s].path \in AllPaths /\ "none" \notin AllPaths
  BY OpenType, FilesAssumption DEF AllPaths, Terminal
<1>3. Views[s] # Closed  BY <1>1, <1>2
<1>4. QED  BY <1>1, <1>2, <1>3, PromisedStored

\* What was put of a run is put at once by the stream without buffers.
LEMMA PutImplements ==
  ASSUME StreamsInv, NEW s \in Streams, NEW bs \in Runs, NEW i \in 0..Len(bs), NEW x \in Runs, x = SubSeq(bs, 1, i),
         NEW ok \in Nat, NEW w, w = Work(s, ok), NEW q, Call(s, q, "write"), Puts(w, q, x), back' = back,
         phase # "ended", reply' \in {"ok", "failed"}, reply' = "ok" => i = Len(bs),
         w.f.rpos = Len(w.f.rbuf), q.f.rpos = w.f.rpos, q.f.rbuf = w.f.rbuf
  PROVE  Promised!Put(s, bs) /\ Promised!Open(s)
<1>1. Open(s) /\ q \in Works /\ q.fd.path = fds[s].path /\ q.fd.append = fds[s].append
  BY DEF Call
<1>2. /\ Contents' = [Contents EXCEPT ![fds[s].path] = Meant(q)]
      /\ Views' = [Views EXCEPT ![s] = ViewIn(q, back[s])] /\ phase' = phase
  BY CallSeen
<1>3. w \in Works /\ w.fd = fds[s]  BY <1>1, WorkType
<1>4. /\ Views[s] = ViewIn(w, back[s]) /\ Contents[fds[s].path] = Meant(w) /\ Views[s] # Closed
      /\ Views[s].path = fds[s].path /\ Views[s].append = fds[s].append
      /\ Views[s].pos = End(w) - (Len(w.f.rbuf) - w.f.rpos)
      /\ Views[s].pushed = SubSeq(w.f.rbuf, w.f.rpos + 1, w.f.rpos + back[s])
  BY <1>1, StreamSeen
<1>5. PICK e \in Nat, n \in Nat : e = End(w) /\ n = w.f.rpos /\ n = Len(w.f.rbuf)
  <2>1. End(w) \in Nat  BY <1>3, MeantType
  <2>2. w.f.rpos \in Nat  BY <1>3 DEF Works, File
  <2>3. QED  BY <2>1, <2>2
<1>6. Views[s].pos = e  BY <1>4, <1>5
<1>7. Promised!Stored(s, x) = Stored(w, x)
  BY <1>3, <1>4, <1>5, <1>6, PromisedStored DEF Stored
<1>8. PosIn(q) = End(q)
  <2>1. PosIn(q) = End(q) - (Len(q.f.rbuf) - q.f.rpos)  BY <1>1, PosIsEnd
  <2>2. PICK g \in Nat : g = End(q)  BY <1>1, MeantType
  <2>3. QED  BY <1>5, <2>1, <2>2
<1>9. x \in Seq(Bytes) /\ Len(x) \in {1, 2}  BY RunType
<1>10. x # <<>>  BY RunFull
<1>11. Promised!After(s, x) = ViewIn(q, back[s])
  <2>1. PICK st, pu : st = Views[s] /\ pu = SubSeq(w.f.rbuf, w.f.rpos + 1, w.f.rpos + back[s])  OBVIOUS
  <2>2. st = [path |-> fds[s].path, pos |-> e, append |-> fds[s].append, pushed |-> pu]
    <3>1. PosIn(w) = e  BY <1>4, <1>6 DEF ViewIn
    <3>2. QED  BY <1>3, <1>4, <2>1, <3>1 DEF ViewIn
  <2>3. ViewIn(q, back[s]) = [path |-> fds[s].path, pos |-> End(q), append |-> fds[s].append, pushed |-> pu]
    BY <1>1, <1>8, <2>1 DEF ViewIn
  <2>4. End(q) = IF fds[s].append THEN Len(Stored(w, x)) ELSE e + Len(x)
    BY <1>3, <1>5 DEF Puts
  <2>5. Promised!After(s, x) = [st EXCEPT !.pos = IF x = <<>> THEN @
                                                  ELSE IF st.append THEN Len(Promised!Stored(s, x)) ELSE @ + Len(x)]
    BY <2>1 DEF Promised!After, Views
  <2>6. Promised!After(s, x) = [st EXCEPT !.pos = End(q)]
    BY <1>7, <1>10, <2>2, <2>4, <2>5
  <2>7. QED  BY <2>2, <2>3, <2>6
<1>13. Contents' = [Contents EXCEPT ![Views[s].path] = Promised!Stored(s, x)]
  BY <1>2, <1>4, <1>7 DEF Puts
<1>14. Views' = [Views EXCEPT ![s] = Promised!After(s, x)]
  BY <1>2, <1>11
<1>15. Promised!Put(s, bs)
  BY <1>2, <1>13, <1>14 DEF Promised!Put, Views
<1>16. QED  BY <1>4, <1>15, PromisedStored

\* A call that keeps what the file means and what is unread shows the program nothing.
LEMMA KeepsSeen ==
  ASSUME StreamsInv, NEW s \in Streams, NEW ok \in Nat, NEW w, w = Work(s, ok), NEW q, NEW did, Call(s, q, did),
         Keeps(w, q), q.f.rbuf = w.f.rbuf, q.f.rpos = w.f.rpos, back'[s] = back[s], phase # "ended"
  PROVE  Contents' = Contents /\ Views' = Views /\ phase' = phase
<1>1. /\ Open(s) /\ q \in Works /\ q.fd.path = fds[s].path /\ q.fd.append = fds[s].append
      /\ Sound(q.f, q.fd, q.c, hook', did, back'[s])
  BY DEF Call
<1>2. /\ Contents' = [Contents EXCEPT ![fds[s].path] = Meant(q)]
      /\ Views' = [Views EXCEPT ![s] = ViewIn(q, back'[s])] /\ phase' = phase
  BY CallSeen
<1>3. /\ w \in Works /\ w.fd = fds[s] /\ Sound(w.f, w.fd, w.c, hook, last[s], back[s])
  BY <1>1, WorkType
<1>4. Views[s] = ViewIn(w, back[s]) /\ Contents[fds[s].path] = Meant(w)
  BY <1>1, StreamSeen
<1>5. PosIn(q) = PosIn(w)
  <2>1. q.f.wbuf # <<>> => q.f.rpos = Len(q.f.rbuf)  BY <1>1 DEF Sound
  <2>2. w.f.wbuf # <<>> => w.f.rpos = Len(w.f.rbuf)  BY <1>3 DEF Sound
  <2>3. PosIn(q) = End(q) - (Len(q.f.rbuf) - q.f.rpos) /\ PosIn(w) = End(w) - (Len(w.f.rbuf) - w.f.rpos)
    BY <1>1, <1>3, <2>1, <2>2, PosIsEnd
  <2>4. QED  BY <2>3 DEF Keeps
<1>6. ViewIn(q, back'[s]) = ViewIn(w, back[s])
  BY <1>1, <1>3, <1>5 DEF ViewIn
<1>7. Meant(q) = Meant(w)  BY DEF Keeps
<1>8. [Views EXCEPT ![s] = Views[s]] = Views  BY DEF Views
<1>9. [Contents EXCEPT ![fds[s].path] = Contents[fds[s].path]] = Contents  BY DEF Contents
<1>10. QED  BY <1>2, <1>4, <1>6, <1>7, <1>8, <1>9

\* A step that leaves the files and the streams alone shows nothing, unless it is the end.
LEMMA StillSeen ==
  ASSUME UNCHANGED <<files, fds, streams, back>>, (phase = "ended") <=> (phase' = "ended")
  PROVE  Contents' = Contents /\ Views' = Views
<1>1. Contents' = Contents  BY DEF Contents, StreamOf, Flushing, Open
<1>2. Views' = Views  BY DEF Views, View, Position, Flushing, Open, Unread, Closed
<1>3. QED  BY <1>1, <1>2

\* A call that changes nothing the program can see.
LEMMA ObserveImplements ==
  ASSUME Contents' = Contents, Views' = Views, (phase' = "ended") <=> (phase = "ended"), reply' \in {"ok", "failed"}
  PROVE  Promised!Observe
BY DEF Promised!Observe, Views

\* The bytes pushed back, first and rest.
LEMMA Pushed ==
  ASSUME NEW b \in Seq(Bytes), NEW n \in Nat, NEW k \in Nat, n + k <= Len(b)
  PROVE  /\ k = 0 => SubSeq(b, n + 1, n + k) = <<>>
         /\ k > 0 => /\ SubSeq(b, n + 1, n + k) # <<>> /\ Head(SubSeq(b, n + 1, n + k)) = b[n + 1]
                     /\ Tail(SubSeq(b, n + 1, n + k)) = SubSeq(b, n + 2, n + k)
<1>1. CASE k = 0  BY <1>1
<1>2. CASE k > 0
  <2>1. PICK p \in Seq(Bytes) : p = SubSeq(b, n + 1, n + k) /\ Len(p) = k /\ \A i \in 1..k : p[i] = b[n + i]
    <3>1. SubSeq(b, n + 1, n + k) \in Seq(Bytes) /\ Len(SubSeq(b, n + 1, n + k)) = k
          /\ \A i \in 1..k : SubSeq(b, n + 1, n + k)[i] = b[n + i]
      BY <1>2
    <3>2. QED  BY <3>1
  <2>2. PICK t \in Seq(Bytes) : t = SubSeq(b, n + 2, n + k) /\ Len(t) = k - 1 /\ \A i \in 1..(k - 1) : t[i] = b[n + 1 + i]
    <3>1. SubSeq(b, n + 2, n + k) \in Seq(Bytes) /\ Len(SubSeq(b, n + 2, n + k)) = k - 1
          /\ \A i \in 1..(k - 1) : SubSeq(b, n + 2, n + k)[i] = b[n + 1 + i]
      BY <1>2
    <3>2. QED  BY <3>1
  <2>3. p # <<>> /\ Head(p) = p[1]  BY <1>2, <2>1
  <2>4. PICK u \in Seq(Bytes) : u = Tail(p) /\ Len(u) = k - 1 /\ \A i \in 1..(k - 1) : u[i] = p[i + 1]
    <3>1. Tail(p) \in Seq(Bytes) /\ Len(Tail(p)) = k - 1 /\ \A i \in 1..(k - 1) : Tail(p)[i] = p[i + 1]
      BY <1>2, <2>1, <2>3
    <3>2. QED  BY <3>1
  <2>5. u = t
    <3>1. \A i \in 1..(k - 1) : u[i] = t[i]
      <4>1. ASSUME NEW i \in 1..(k - 1) PROVE u[i] = t[i]
        <5>1. i + 1 \in 1..k /\ n + (i + 1) = n + 1 + i  BY <1>2
        <5>2. QED  BY <2>1, <2>2, <2>4, <5>1
      <4>2. QED  BY <4>1
    <3>2. QED  BY <1>2, <2>2, <2>4, <3>1, SameSequence
  <2>6. p[1] = b[n + 1]  BY <1>2, <2>1
  <2>7. p # <<>> /\ Head(p) = b[n + 1] /\ Tail(p) = SubSeq(b, n + 2, n + k)
    BY <2>2, <2>3, <2>4, <2>5, <2>6
  <2>8. /\ SubSeq(b, n + 1, n + k) # <<>> /\ Head(SubSeq(b, n + 1, n + k)) = b[n + 1]
        /\ Tail(SubSeq(b, n + 1, n + k)) = SubSeq(b, n + 2, n + k)
    BY <2>1, <2>7, Zenon
  <2>9. ~(k = 0)  BY <1>2
  <2>10. QED  BY <2>8, <2>9
<1>3. QED  BY <1>1, <1>2

\* The empty sequence of bytes pushed back.
LEMMA NothingPushed == \E e \in Seq(Bytes) : e = <<>> /\ Len(e) = 0 /\ SubSeq(e, 0 + 1, 0 + 0) = e
<1>1. <<>> \in Seq(Bytes) /\ Len(<<>>) = 0  OBVIOUS
<1>2. PICK e \in Seq(Bytes) : e = <<>> /\ Len(e) = 0  BY <1>1
<1>3. 0 + 0 <= Len(e)  BY <1>2
<1>4. SubSeq(e, 0 + 1, 0 + 0) = <<>>  BY <1>3, Pushed
<1>5. QED  BY <1>2, <1>4

\* fgetc from the buffer takes what was pushed back, or the next byte of the file.
LEMMA FgetcBufferedImplements ==
  ASSUME StreamsInv, NEW s \in Streams, FgetcBuffered(s), phase # "ended"
  PROVE  Promised!Open(s) /\ (Promised!GetPushed(s) \/ Promised!GetFromFile(s))
<1>1. PICK q : /\ Call(s, q, "read") /\ q.c = files[fds[s].path] /\ q.fd = fds[s]
               /\ streams[s].wbuf = <<>> /\ q.f.wbuf = <<>>
               /\ q.f.rbuf = streams[s].rbuf /\ q.f.rpos = streams[s].rpos + 1
               /\ streams[s].rpos < Len(streams[s].rbuf)
  BY FgetcBufferedCall
<1>2. /\ reply' = streams[s].rbuf[streams[s].rpos + 1]
      /\ back' = [back EXCEPT ![s] = IF @ > 0 THEN @ - 1 ELSE 0]
  BY DEF FgetcBuffered
<1>3. Open(s) /\ q \in Works  BY <1>1 DEF Call
<1>4. PICK w : w = Work(s, AllSucceed)  OBVIOUS
<1>5. /\ w \in Works /\ w.f = streams[s] /\ w.fd = fds[s] /\ w.c = files[fds[s].path]
      /\ Sound(w.f, w.fd, w.c, hook, last[s], back[s])
  BY <1>3, <1>4, WorkType DEF AllSucceed
<1>6. PICK b \in Seq(Bytes), n \in Nat, k \in Nat, l \in Nat, o \in Nat, c \in Seq(Bytes) :
        /\ b = w.f.rbuf /\ n = w.f.rpos /\ k = back[s] /\ l = Len(b) /\ o = w.fd.off /\ c = w.c
  <2>1. /\ w.f.rbuf \in Seq(Bytes) /\ w.f.rpos \in Nat /\ back[s] \in Nat /\ w.fd.off \in Nat /\ w.c \in Seq(Bytes)
    BY <1>5, OpenType DEF Works, File, Fd
  <2>2. Len(w.f.rbuf) \in Nat  BY <2>1
  <2>3. QED  BY <2>1, <2>2
<1>7. n < l /\ n + k <= l
  BY <1>1, <1>5, <1>6 DEF Sound
<1>8. /\ Meant(w) = c /\ End(w) = o /\ Meant(q) = c /\ End(q) = o
  BY <1>1, <1>3, <1>5, <1>6, NothingHeld
<1>9. /\ Contents' = [Contents EXCEPT ![fds[s].path] = Meant(q)]
      /\ Views' = [Views EXCEPT ![s] = ViewIn(q, back'[s])] /\ phase' = phase
  BY <1>1, CallSeen
<1>10. /\ Views[s] = ViewIn(w, back[s]) /\ Contents[fds[s].path] = Meant(w) /\ Views[s] # Closed
       /\ Views[s].path = fds[s].path
       /\ Views[s].pos = End(w) - (Len(w.f.rbuf) - w.f.rpos)
       /\ Views[s].pushed = SubSeq(w.f.rbuf, w.f.rpos + 1, w.f.rpos + back[s])
  BY <1>3, <1>4, StreamSeen DEF AllSucceed
<1>11. Contents' = Contents
  <2>1. [Contents EXCEPT ![fds[s].path] = Contents[fds[s].path]] = Contents  BY DEF Contents
  <2>2. QED  BY <1>8, <1>9, <1>10, <2>1
<1>12. PICK p \in Int, j \in Nat : /\ p = o - (l - n) /\ (k > 0 => j = k - 1) /\ (k = 0 => j = 0)
  <2>1. o - (l - n) \in Int /\ (k > 0 => k - 1 \in Nat) /\ 0 \in Nat  OBVIOUS
  <2>2. CASE k > 0  BY <2>1, <2>2
  <2>3. CASE k = 0  BY <2>1, <2>3
  <2>4. QED  BY <2>2, <2>3
<1>22. PICK u, v : u = SubSeq(b, n + 1, n + k) /\ v = SubSeq(b, n + 1 + 1, n + 1 + j)
  OBVIOUS
<1>13. back'[s] = j  BY <1>2, <1>6, <1>12 DEF StreamsInv, TypeOK
<1>14. PICK st, path, app : st = Views[s] /\ path = fds[s].path /\ app = fds[s].append  OBVIOUS
<1>15. st = [path |-> path, pos |-> p, append |-> app, pushed |-> u]
  <2>1. PosIn(w) = p  BY <1>6, <1>8, <1>10, <1>12 DEF ViewIn
  <2>2. QED  BY <1>5, <1>6, <1>10, <1>22, <1>14, <2>1 DEF ViewIn
<1>16. PosIn(q) = p + 1
  <2>1. PosIn(q) = End(q) - (Len(q.f.rbuf) - q.f.rpos)  BY <1>1, <1>3, PosIsEnd
  <2>2. PosIn(q) = o - (l - (n + 1))  BY <1>1, <1>5, <1>6, <1>8, <2>1
  <2>3. o - (l - (n + 1)) = p + 1  BY <1>12
  <2>4. QED  BY <2>2, <2>3
<1>17. ViewIn(q, back'[s]) = [path |-> path, pos |-> p + 1, append |-> app, pushed |-> v]
  BY <1>1, <1>5, <1>6, <1>22, <1>13, <1>14, <1>16 DEF ViewIn
<1>18. reply' = b[n + 1]  BY <1>2, <1>5, <1>6
<1>19. CASE k > 0
  <2>1. u # <<>> /\ Head(u) = b[n + 1] /\ Tail(u) = SubSeq(b, n + 2, n + k)
    BY <1>6, <1>7, <1>22, <1>19, Pushed
  <2>2. n + 1 + 1 = n + 2 /\ n + 1 + j = n + k  BY <1>12, <1>19
  <2>3. v = Tail(u)  BY <1>22, <2>1, <2>2
  <2>4. ViewIn(q, back'[s]) = [st EXCEPT !.pushed = Tail(@), !.pos = @ + 1]
    <3>1. st.pushed = u /\ st.pos = p  BY <1>15
    <3>2. [[st EXCEPT !.pushed = v] EXCEPT !.pos = p + 1] = [path |-> path, pos |-> p + 1, append |-> app, pushed |-> v]
      <4>1. PICK x : x = p + 1  OBVIOUS
      <4>2. PICK su : su = [st EXCEPT !.pushed = v]  OBVIOUS
      <4>3. su = [path |-> path, pos |-> p, append |-> app, pushed |-> v]  BY <1>15, <4>2
      <4>4. [su EXCEPT !.pos = x] = [path |-> path, pos |-> x, append |-> app, pushed |-> v]
        BY <4>3
      <4>5. QED  BY <4>1, <4>2, <4>4
    <3>3. [st EXCEPT !.pushed = Tail(@), !.pos = @ + 1] = [[st EXCEPT !.pushed = Tail(st.pushed)] EXCEPT !.pos = st.pos + 1]
      OBVIOUS
    <3>4. QED  BY <1>17, <2>3, <3>1, <3>2, <3>3
  <2>5. Promised!GetPushed(s)
    <3>1. Views[s] = st /\ st.pushed = u  BY <1>14, <1>15
    <3>2. Views' = [Views EXCEPT ![s].pushed = Tail(@), ![s].pos = @ + 1]
      BY <1>9, <2>4, <3>1
    <3>3. reply' = Head(Views[s].pushed) /\ Views[s].pushed # <<>>
      BY <1>18, <2>1, <3>1
    <3>4. QED  BY <1>9, <1>11, <3>2, <3>3 DEF Promised!GetPushed, Views
  <2>6. QED  BY <1>10, <2>5, PromisedStored
<1>20. CASE k = 0
  <2>1. n + k <= Len(b)  BY <1>6, <1>7
  <2>2. u = <<>>  BY <1>22, <1>20, <2>1, Pushed
  <2>3. j = 0 /\ n + 1 \in Nat /\ n + 1 <= l  BY <1>7, <1>12, <1>20
  <2>4. v = <<>>
    <3>1. PICK m \in Nat : m = n + 1 /\ m + 0 <= Len(b)  BY <1>6, <2>3
    <3>2. SubSeq(b, m + 1, m + 0) = <<>>  BY <3>1, Pushed
    <3>3. QED  BY <1>22, <2>3, <3>1, <3>2
  <2>5. l <= o /\ o <= Len(c) /\ b[n + 1] = c[o - l + (n + 1)]
    <3>1. n + 1 \in (n + k + 1)..l  BY <1>7, <1>20
    <3>2. QED  BY <1>5, <1>6, <3>1 DEF Sound
  <2>6. p \in Nat /\ p < Len(c) /\ o - l + (n + 1) = p + 1
    <3>1. PICK lc \in Nat : lc = Len(c) /\ o <= lc  BY <2>5
    <3>2. p \in Nat /\ p < lc /\ o - l + (n + 1) = p + 1
      BY <1>7, <1>12, <2>5, <3>1
    <3>3. QED  BY <3>1, <3>2
  <2>7. ViewIn(q, back'[s]) = [st EXCEPT !.pos = @ + 1]
    <3>1. [st EXCEPT !.pos = st.pos + 1] = [path |-> path, pos |-> p + 1, append |-> app, pushed |-> u]
      BY <1>15
    <3>2. QED  BY <1>17, <2>2, <2>4, <3>1
  <2>8. Contents[st.path] = c /\ st.pos = p /\ st.pushed = <<>>
    BY <1>8, <1>10, <1>14, <1>15, <2>2
  <2>9. Promised!GetFromFile(s)
    <3>1. Views[s] = st /\ Views[s].pushed = <<>> /\ Views[s].pos = p /\ Contents[Views[s].path] = c
      BY <1>14, <2>8
    <3>2. Views' = [Views EXCEPT ![s].pos = @ + 1]
      BY <1>9, <2>7, <3>1
    <3>3. reply' = c[p + 1]  BY <1>18, <2>5, <2>6
    <3>4. QED  BY <1>9, <1>11, <2>6, <3>1, <3>2, <3>3 DEF Promised!GetFromFile, Views
  <2>10. QED  BY <1>10, <2>9, PromisedStored
<1>21. QED  BY <1>19, <1>20

\* A call that put nothing and says so is one that may.
LEMMA PutNothing ==
  ASSUME StreamsInv, NEW s \in Streams, Open(s), NEW bs \in Runs, Contents' = Contents, Views' = Views,
         phase # "ended", phase' = phase, reply' = "failed"
  PROVE  Promised!Open(s) /\ Promised!Put(s, bs)
<1>1. PICK e \in Seq(Bytes) : e = <<>>  BY NothingPushed
<1>2. PICK w : w = Work(s, AllSucceed) /\ AllSucceed \in Nat  BY DEF AllSucceed
<1>3. w \in Works /\ w.fd = fds[s]  BY <1>2, WorkType
<1>4. /\ Views[s] = ViewIn(w, back[s]) /\ Contents[fds[s].path] = Meant(w) /\ Views[s] # Closed
      /\ Views[s].path = fds[s].path
  BY <1>2, StreamSeen
<1>5. PICK c \in Seq(Bytes) : c = Meant(w)  BY <1>3, MeantType
<1>6. Promised!Stored(s, e) = Contents[Views[s].path]
  <2>1. c \o e = c  BY <1>1
  <2>2. Overlay(c, Views[s].pos, e) = c  BY <1>1 DEF Overlay
  <2>3. QED  BY <1>4, <1>5, <2>1, <2>2, PromisedStored
<1>7. Promised!After(s, e) = Views[s]
  <2>1. PICK st : st = Views[s]  OBVIOUS
  <2>2. st = [path |-> st.path, pos |-> st.pos, append |-> st.append, pushed |-> st.pushed]
    BY <1>4, <2>1 DEF ViewIn
  <2>3. Promised!After(s, e) = [st EXCEPT !.pos = st.pos]  BY <1>1, <2>1 DEF Promised!After, Views
  <2>4. QED  BY <2>1, <2>2, <2>3
<1>8. [Contents EXCEPT ![Views[s].path] = Contents[Views[s].path]] = Contents  BY DEF Contents
<1>9. [Views EXCEPT ![s] = Views[s]] = Views  BY DEF Views
<1>10. SubSeq(bs, 1, 0) = e /\ 0 \in 0..Len(bs)
  <2>1. bs \in Seq(Bytes) /\ Len(bs) \in {1, 2}  BY RunType
  <2>2. QED  BY <1>1, <2>1
<1>11. Contents' = [Contents EXCEPT ![Views[s].path] = Promised!Stored(s, e)]  BY <1>6, <1>8
<1>12. Views' = [Views EXCEPT ![s] = Promised!After(s, e)]  BY <1>7, <1>9
<1>13. Promised!Put(s, bs)  BY <1>10, <1>11, <1>12 DEF Promised!Put, Views
<1>14. QED  BY <1>4, <1>13, PromisedStored

\* fputc and fwrite: all of the bytes, the first of them or none is put.
LEMMA PutsImplements ==
  ASSUME StreamsInv, NEW s \in Streams, NEW bs \in Runs, NEW ok \in Nat, Put(s, bs, ok), phase # "ended"
  PROVE  Promised!Open(s) /\ Promised!Put(s, bs)
<1>1. CASE UNCHANGED <<program, files, fds, streams, registry, hook, handlers, phase, opened, last, back>>
           /\ reply' = "failed"
  <2>1. Contents' = Contents /\ Views' = Views  BY <1>1, StillSeen
  <2>2. Open(s)  BY DEF Put
  <2>3. QED  BY <1>1, <2>1, <2>2, PutNothing
<1>2. CASE \E w, q : /\ w = Work(s, ok) /\ Call(s, q, "write") /\ Outcome(w, q, bs) /\ Answer(q) /\ UNCHANGED back
                     /\ w.f.rpos = Len(w.f.rbuf) /\ q.f.rpos = w.f.rpos /\ q.f.rbuf = w.f.rbuf
  <2>1. PICK w, q : /\ w = Work(s, ok) /\ Call(s, q, "write") /\ Outcome(w, q, bs) /\ Answer(q) /\ UNCHANGED back
                    /\ w.f.rpos = Len(w.f.rbuf) /\ q.f.rpos = w.f.rpos /\ q.f.rbuf = w.f.rbuf
    BY <1>2
  <2>2. reply' \in {"ok", "failed"} /\ (q.eof => reply' = "failed")  BY <2>1 DEF Answer
  <2>3. CASE Keeps(w, q) /\ q.eof
    <3>1. Contents' = Contents /\ Views' = Views /\ phase' = phase  BY <2>1, <2>3, KeepsSeen
    <3>2. Open(s)  BY DEF Put
    <3>3. QED  BY <2>2, <2>3, <3>1, <3>2, PutNothing
  <2>4. ASSUME NEW i \in 0..Len(bs), NEW x \in Runs, x = SubSeq(bs, 1, i), Puts(w, q, x), reply' = "ok" => i = Len(bs)
        PROVE  Promised!Open(s) /\ Promised!Put(s, bs)
    BY <2>1, <2>2, <2>4, PutImplements
  <2>5. /\ 1 \in 0..Len(bs) /\ <<bs[1]>> \in Runs /\ <<bs[1]>> = SubSeq(bs, 1, 1)
        /\ Len(bs) \in 0..Len(bs) /\ bs = SubSeq(bs, 1, Len(bs))
    <3>1. bs \in Seq(Bytes) /\ Len(bs) \in {1, 2} /\ bs[1] \in Bytes  BY RunType
    <3>2. QED  BY <3>1 DEF Runs
  <2>6. CASE Puts(w, q, <<bs[1]>>) /\ q.eof  BY <2>2, <2>4, <2>5, <2>6
  <2>7. CASE Puts(w, q, bs)  BY <2>4, <2>5, <2>7
  <2>8. QED  BY <2>1, <2>3, <2>6, <2>7 DEF Outcome
<1>3. QED  BY <1>1, <1>2, PutCall

\* Calls that show the program nothing: it flushes, clears the error, chooses a buffer.
LEMMA FflushImplements ==
  ASSUME StreamsInv, NEW s \in Streams, Fflush(s), phase # "ended"
  PROVE  Promised!Observe
<1>1. PICK ok \in Nat : \E q, did :
           /\ q = FlushWriteBuf(Work(s, ok)) /\ Call(s, q, did) /\ Answer(q) /\ UNCHANGED back
           /\ streams[s].rpos = Len(streams[s].rbuf)
  BY FflushCall
<1>2. PICK q, did, w : /\ w = Work(s, ok) /\ q = FlushWriteBuf(w) /\ Call(s, q, did) /\ Answer(q) /\ UNCHANGED back
  BY <1>1
<1>3. w \in Works /\ ~w.eof  BY <1>2, WorkType DEF Call
<1>4. Keeps(w, q)  BY <1>2, <1>3, FlushKeeps
<1>5. q.f.rbuf = w.f.rbuf /\ q.f.rpos = w.f.rpos  BY <1>2, <1>3, FlushWorks DEF Follows
<1>6. Contents' = Contents /\ Views' = Views /\ phase' = phase
  BY <1>2, <1>4, <1>5, KeepsSeen
<1>7. reply' \in {"ok", "failed"}  BY <1>2 DEF Answer
<1>8. QED  BY <1>6, <1>7, ObserveImplements

\* A call that changes only flags or sizes changes nothing the program can see.
LEMMA SameSeen ==
  ASSUME StreamsInv, NEW s \in Streams, NEW q, NEW did, Call(s, q, did), q.c = files[fds[s].path], q.fd = fds[s],
         q.f.wbuf = streams[s].wbuf, q.f.rbuf = streams[s].rbuf, q.f.rpos = streams[s].rpos, back'[s] = back[s],
         phase # "ended"
  PROVE  Contents' = Contents /\ Views' = Views /\ phase' = phase
<1>1. PICK w : w = Work(s, AllSucceed) /\ AllSucceed \in Nat  BY DEF AllSucceed
<1>2. w.f = streams[s] /\ w.fd = fds[s] /\ w.c = files[fds[s].path]  BY <1>1 DEF Work
<1>3. Keeps(w, q)  BY <1>2 DEF Keeps, Meant, End
<1>4. QED  BY <1>1, <1>2, <1>3, KeepsSeen

\* clearerr: nothing to see.
LEMMA ClearerrImplements ==
  ASSUME StreamsInv, NEW s \in Streams, Clearerr(s), phase # "ended"
  PROVE  Promised!Observe
<1>1. PICK q : /\ Call(s, q, last[s]) /\ q.c = files[fds[s].path] /\ q.fd = fds[s]
               /\ q.f.wbuf = streams[s].wbuf /\ q.f.rbuf = streams[s].rbuf /\ q.f.rpos = streams[s].rpos
  BY ClearerrCall
<1>2. reply' = "ok" /\ back' = back  BY DEF Clearerr
<1>3. Contents' = Contents /\ Views' = Views /\ phase' = phase  BY <1>1, <1>2, SameSeen
<1>4. QED  BY <1>2, <1>3, ObserveImplements

\* setvbuf: nothing to see.
LEMMA SetvbufImplements ==
  ASSUME StreamsInv, NEW s \in Streams, NEW mode \in {"full", "linebuf", "unbuf"}, NEW own \in Nat,
         Setvbuf(s, mode, own), phase # "ended"
  PROVE  Promised!Observe
<1>1. PICK q : /\ Call(s, q, last[s]) /\ q.c = files[fds[s].path] /\ q.fd = fds[s] /\ UNCHANGED back
               /\ reply' = "ok"
               /\ q.f.wbuf = streams[s].wbuf /\ q.f.rbuf = streams[s].rbuf /\ q.f.rpos = streams[s].rpos
  BY SetvbufCall
<1>2. Contents' = Contents /\ Views' = Views /\ phase' = phase  BY <1>1, SameSeen
<1>3. QED  BY <1>1, <1>2, ObserveImplements

\* The view of a stream that holds nothing back.
LEMMA ViewFields ==
  ASSUME NEW r \in Works, NEW k, r.f.wbuf = <<>>, NEW x, x = r.fd.off - (Len(r.f.rbuf) - r.f.rpos),
         NEW u, u = SubSeq(r.f.rbuf, r.f.rpos + 1, r.f.rpos + k)
  PROVE  ViewIn(r, k) = [path |-> r.fd.path, pos |-> x, append |-> r.fd.append, pushed |-> u]
<1>1. End(r) = r.fd.off  BY NothingHeld
<1>2. PosIn(r) = x  BY <1>1, PosIsEnd
<1>3. QED  BY <1>2 DEF ViewIn

Seen(path, pos, append, pushed) == [path |-> path, pos |-> pos, append |-> append, pushed |-> pushed]
SeenBut(s, v) == [Views EXCEPT ![s] = v]

\* A step of a stream that holds nothing back, before it: the place, the bytes pushed back, the file.
LEMMA IdleSeen ==
  ASSUME StreamsInv, NEW s \in Streams, Open(s), streams[s].wbuf = <<>>, phase # "ended",
         NEW x, x = fds[s].off - (Len(streams[s].rbuf) - streams[s].rpos),
         NEW u, u = SubSeq(streams[s].rbuf, streams[s].rpos + 1, streams[s].rpos + back[s])
  PROVE  /\ Views[s] = Seen(fds[s].path, x, fds[s].append, u)
         /\ Contents[fds[s].path] = files[fds[s].path] /\ Promised!Open(s)
<1>1. PICK w : w = Work(s, AllSucceed) /\ AllSucceed \in Nat  BY DEF AllSucceed
<1>2. w \in Works /\ w.f = streams[s] /\ w.fd = fds[s] /\ w.c = files[fds[s].path]  BY <1>1, WorkType
<1>3. Views[s] = ViewIn(w, back[s]) /\ Contents[fds[s].path] = Meant(w) /\ Views[s] # Closed
  BY <1>1, StreamSeen
<1>4. Meant(w) = files[fds[s].path]  BY <1>2, NothingHeld
<1>5. ViewIn(w, back[s]) = [path |-> fds[s].path, pos |-> x, append |-> fds[s].append, pushed |-> u]
  BY <1>2, ViewFields
<1>6. QED  BY <1>3, <1>4, <1>5, PromisedStored DEF Seen

\* A step that leaves nothing held back and the file as it was.
LEMMA IdleAfter ==
  ASSUME StreamsInv, NEW s \in Streams, NEW q, NEW did, Call(s, q, did), q.c = files[fds[s].path],
         streams[s].wbuf = <<>>, q.f.wbuf = <<>>, phase # "ended",
         NEW x, x = q.fd.off - (Len(q.f.rbuf) - q.f.rpos),
         NEW u, u = SubSeq(q.f.rbuf, q.f.rpos + 1, q.f.rpos + back'[s])
  PROVE  /\ Views' = SeenBut(s, Seen(fds[s].path, x, fds[s].append, u))
         /\ Contents' = Contents /\ phase' = phase
<1>1. Open(s) /\ q \in Works /\ q.fd.path = fds[s].path /\ q.fd.append = fds[s].append  BY DEF Call
<1>2. /\ Contents' = [Contents EXCEPT ![fds[s].path] = Meant(q)]
      /\ Views' = [Views EXCEPT ![s] = ViewIn(q, back'[s])] /\ phase' = phase
  BY CallSeen
<1>3. Meant(q) = Contents[fds[s].path]
  <2>1. PICK v, e : /\ v = fds[s].off - (Len(streams[s].rbuf) - streams[s].rpos)
                    /\ e = SubSeq(streams[s].rbuf, streams[s].rpos + 1, streams[s].rpos + back[s])
    OBVIOUS
  <2>2. Contents[fds[s].path] = files[fds[s].path]  BY <1>1, <2>1, IdleSeen
  <2>3. QED  BY <1>1, <2>2, NothingHeld
<1>4. [Contents EXCEPT ![fds[s].path] = Contents[fds[s].path]] = Contents  BY DEF Contents
<1>5. ViewIn(q, back'[s]) = [path |-> fds[s].path, pos |-> x, append |-> fds[s].append, pushed |-> u]
  BY <1>1, ViewFields
<1>6. QED  BY <1>2, <1>3, <1>4, <1>5 DEF Seen, SeenBut

\* fgetc that asks the host takes the next byte of the file, or none.
LEMMA FgetcRefillImplements ==
  ASSUME StreamsInv, NEW s \in Streams, FgetcRefill(s), phase # "ended"
  PROVE  Promised!Open(s) /\ (Promised!GetNothing(s) \/ Promised!GetFromFile(s))
<1>1. PICK q : /\ Call(s, q, "read") /\ q.c = files[fds[s].path] /\ UNCHANGED back
               /\ streams[s].wbuf = <<>> /\ q.f.wbuf = <<>> /\ streams[s].rpos = Len(streams[s].rbuf) /\ back[s] = 0
               /\ \/ /\ reply' = "failed" /\ q.fd = fds[s]
                     /\ q.f.rbuf = streams[s].rbuf /\ q.f.rpos = streams[s].rpos
                  \/ /\ fds[s].off < Len(q.c) /\ reply' = q.c[fds[s].off + 1]
                     /\ Len(q.f.rbuf) \in Nat /\ q.f.rpos = 1 /\ q.fd.off = fds[s].off + Len(q.f.rbuf)
  BY FgetcRefillCall
<1>2. Open(s) /\ q \in Works  BY <1>1 DEF Call
<1>3. PICK n \in Nat, b \in Seq(Bytes), o \in Nat : b = streams[s].rbuf /\ n = Len(b) /\ n = streams[s].rpos /\ o = fds[s].off
  <2>1. streams[s].rbuf \in Seq(Bytes) /\ streams[s].rpos \in Nat /\ fds[s].off \in Nat
    BY <1>2, OpenType DEF File, Fd
  <2>2. QED  BY <1>1, <2>1
<1>4. SubSeq(b, n + 1, n + 0) = <<>>
  <2>1. n + 0 <= Len(b) /\ 0 \in Nat  BY <1>3
  <2>2. QED  BY <2>1, Pushed
<1>5. PICK path, app, e : path = fds[s].path /\ app = fds[s].append /\ e = <<>>  OBVIOUS
<1>6. /\ Views[s] = [path |-> path, pos |-> o, append |-> app, pushed |-> e]
      /\ Contents[path] = files[path] /\ Promised!Open(s)
  <2>1. o = fds[s].off - (Len(streams[s].rbuf) - streams[s].rpos)  BY <1>3
  <2>2. e = SubSeq(streams[s].rbuf, streams[s].rpos + 1, streams[s].rpos + back[s])  BY <1>1, <1>3, <1>4, <1>5
  <2>3. QED  BY <1>1, <1>2, <1>5, <2>1, <2>2, IdleSeen DEF Seen
<1>7. PICK st : st = Views[s]  OBVIOUS
<1>8. st.path = path /\ st.pos = o /\ st.pushed = e  BY <1>6, <1>7
<1>9. CASE /\ reply' = "failed" /\ q.fd = fds[s]
           /\ q.f.rbuf = streams[s].rbuf /\ q.f.rpos = streams[s].rpos
  <2>1. Contents' = Contents /\ Views' = Views /\ phase' = phase  BY <1>1, <1>9, SameSeen
  <2>2. Promised!GetNothing(s)  BY <1>5, <1>7, <1>8, <1>9, <2>1 DEF Promised!GetNothing, Views
  <2>3. QED  BY <1>6, <2>2
<1>10. CASE /\ fds[s].off < Len(q.c) /\ reply' = q.c[fds[s].off + 1]
            /\ Len(q.f.rbuf) \in Nat /\ q.f.rpos = 1 /\ q.fd.off = fds[s].off + Len(q.f.rbuf)
  <2>1. PICK m \in Nat, g \in Seq(Bytes) : g = q.f.rbuf /\ m = Len(g)
    <3>1. q.f.rbuf \in Seq(Bytes)  BY <1>2 DEF Works, File
    <3>2. QED  BY <1>10, <3>1
  <2>2. q.fd.off - (Len(q.f.rbuf) - q.f.rpos) = o + 1  BY <1>3, <1>10, <2>1
  <2>3. SubSeq(q.f.rbuf, q.f.rpos + 1, q.f.rpos + back'[s]) = e
    <3>1. back'[s] = 0  BY <1>1
    <3>2. SubSeq(g, 2, 1) = <<>>  OBVIOUS
    <3>3. 1 + 1 = 2 /\ 1 + 0 = 1  OBVIOUS
    <3>4. QED  BY <1>5, <1>10, <2>1, <3>1, <3>2, <3>3
  <2>4. /\ Views' = [Views EXCEPT ![s] = [path |-> path, pos |-> o + 1, append |-> app, pushed |-> e]]
        /\ Contents' = Contents /\ phase' = phase
    <3>1. PICK z : z = o + 1  OBVIOUS
    <3>2. /\ Views' = SeenBut(s, Seen(fds[s].path, z, fds[s].append, e))
          /\ Contents' = Contents /\ phase' = phase
      <4>1. z = q.fd.off - (Len(q.f.rbuf) - q.f.rpos)  BY <2>2, <3>1
      <4>2. e = SubSeq(q.f.rbuf, q.f.rpos + 1, q.f.rpos + back'[s])  BY <2>3
      <4>3. Call(s, q, "read") /\ q.c = files[fds[s].path] /\ streams[s].wbuf = <<>> /\ q.f.wbuf = <<>>
        BY <1>1
      <4>4. QED  BY <4>1, <4>2, <4>3, IdleAfter
    <3>3. QED  BY <1>5, <3>1, <3>2 DEF Seen, SeenBut
  <2>5. [path |-> path, pos |-> o + 1, append |-> app, pushed |-> e] = [st EXCEPT !.pos = @ + 1]
    BY <1>6, <1>7
  <2>6. o < Len(Contents[path]) /\ reply' = Contents[path][o + 1]
    BY <1>1, <1>3, <1>5, <1>6, <1>10
  <2>7. Promised!GetFromFile(s)
    <3>1. Views[s] = st /\ Views[s].pushed = <<>> /\ Views[s].pos = o /\ Views[s].path = path  BY <1>5, <1>7, <1>8
    <3>2. Views' = [Views EXCEPT ![s].pos = @ + 1]  BY <2>4, <2>5, <3>1
    <3>3. QED  BY <2>4, <2>6, <3>1, <3>2 DEF Promised!GetFromFile, Views
  <2>8. QED  BY <1>6, <2>7
<1>11. QED  BY <1>1, <1>9, <1>10

\* A byte pushed back is before the bytes pushed back earlier.
LEMMA PushedOne ==
  ASSUME NEW b \in Seq(Bytes), NEW n \in Nat, NEW k \in Nat, n > 0, n + k <= Len(b), NEW a \in Bytes,
         NEW d, d = [b EXCEPT ![n] = a]
  PROVE  d \in Seq(Bytes) /\ Len(d) = Len(b) /\ SubSeq(d, n, n + k) = <<a>> \o SubSeq(b, n + 1, n + k)
<1>1. d \in Seq(Bytes) /\ Len(d) = Len(b) /\ d[n] = a /\ \A i \in 1..Len(b) : i # n => d[i] = b[i]
  OBVIOUS
<1>2. PICK g \in Seq(Bytes) : g = SubSeq(d, n, n + k) /\ Len(g) = k + 1 /\ \A i \in 1..(k + 1) : g[i] = d[n - 1 + i]
  <2>1. /\ SubSeq(d, n, n + k) \in Seq(Bytes) /\ Len(SubSeq(d, n, n + k)) = k + 1
        /\ \A i \in 1..(k + 1) : SubSeq(d, n, n + k)[i] = d[n - 1 + i]
    BY <1>1
  <2>2. QED  BY <2>1
<1>3. PICK u \in Seq(Bytes) : u = SubSeq(b, n + 1, n + k) /\ Len(u) = k /\ \A i \in 1..k : u[i] = b[n + i]
  <2>1. /\ SubSeq(b, n + 1, n + k) \in Seq(Bytes) /\ Len(SubSeq(b, n + 1, n + k)) = k
        /\ \A i \in 1..k : SubSeq(b, n + 1, n + k)[i] = b[n + i]
    OBVIOUS
  <2>2. QED  BY <2>1
<1>4. PICK h \in Seq(Bytes) : h = <<a>> \o u /\ Len(h) = k + 1 /\ h[1] = a /\ \A i \in 2..(k + 1) : h[i] = u[i - 1]
  <2>1. /\ <<a>> \o u \in Seq(Bytes) /\ Len(<<a>> \o u) = k + 1 /\ (<<a>> \o u)[1] = a
        /\ \A i \in 2..(k + 1) : (<<a>> \o u)[i] = u[i - 1]
    BY <1>3
  <2>2. QED  BY <2>1
<1>5. ASSUME NEW i \in 1..(k + 1) PROVE g[i] = h[i]
  <2>1. CASE i = 1
    <3>1. n - 1 + 1 = n  OBVIOUS
    <3>2. QED  BY <1>1, <1>2, <1>4, <2>1, <3>1
  <2>2. CASE i # 1
    <3>1. /\ i \in 2..(k + 1) /\ i - 1 \in 1..k /\ n - 1 + i \in 1..Len(b) /\ n - 1 + i # n /\ n + (i - 1) = n - 1 + i
      BY <2>2
    <3>2. g[i] = d[n - 1 + i] /\ d[n - 1 + i] = b[n - 1 + i]  BY <1>1, <1>2, <3>1
    <3>3. h[i] = u[i - 1] /\ u[i - 1] = b[n + (i - 1)]  BY <1>3, <1>4, <3>1
    <3>4. QED  BY <3>1, <3>2, <3>3
  <2>3. QED  BY <2>1, <2>2
<1>6. g = h  BY <1>2, <1>4, <1>5, SameSequence
<1>7. QED  BY <1>1, <1>2, <1>3, <1>4, <1>6

\* ungetc pushes the byte back, or is refused.
LEMMA UngetcImplements ==
  ASSUME StreamsInv, NEW s \in Streams, NEW b \in Bytes, Ungetc(s, b), phase # "ended"
  PROVE  Promised!Open(s) /\ (Promised!Unget(s, b) \/ Promised!Refuse)
<1>1. CASE UNCHANGED <<program, files, fds, streams, registry, hook, handlers, phase, opened, last, back>>
           /\ reply' = "failed"
  <2>1. Contents' = Contents /\ Views' = Views  BY <1>1, StillSeen
  <2>2. Promised!Open(s)  BY OpenSeen DEF Ungetc, Usable
  <2>3. QED  BY <1>1, <2>1, <2>2 DEF Promised!Refuse, Views
<1>2. CASE /\ reply' = "ok"
           /\ \E q : /\ Call(s, q, "read") /\ q.c = files[fds[s].path] /\ q.fd = fds[s]
                     /\ streams[s].wbuf = <<>> /\ q.f.wbuf = <<>> /\ streams[s].rpos > 0
                     /\ streams[s].rpos \in 1..Len(streams[s].rbuf)
                     /\ q.f.rbuf = [streams[s].rbuf EXCEPT ![streams[s].rpos] = b]
                     /\ q.f.rpos = streams[s].rpos - 1 /\ back'[s] = back[s] + 1
  <2>1. PICK q : /\ Call(s, q, "read") /\ q.c = files[fds[s].path] /\ q.fd = fds[s]
                 /\ streams[s].wbuf = <<>> /\ q.f.wbuf = <<>> /\ streams[s].rpos > 0
                 /\ streams[s].rpos \in 1..Len(streams[s].rbuf)
                 /\ q.f.rbuf = [streams[s].rbuf EXCEPT ![streams[s].rpos] = b]
                 /\ q.f.rpos = streams[s].rpos - 1 /\ back'[s] = back[s] + 1
    BY <1>2
  <2>2. Open(s) /\ q \in Works  BY <2>1 DEF Call
  <2>3. PICK r \in Seq(Bytes), n \in Nat, k \in Nat, o \in Nat :
          r = streams[s].rbuf /\ n = streams[s].rpos /\ k = back[s] /\ o = fds[s].off
    BY <2>2, OpenType DEF File, Fd
  <2>4. n + k <= Len(r) /\ n > 0 /\ n <= Len(r)
    BY <2>1, <2>2, <2>3 DEF StreamsInv, SoundAt, Sound
  <2>5. PICK d \in Seq(Bytes) : d = q.f.rbuf /\ Len(d) = Len(r) /\ SubSeq(d, n, n + k) = <<b>> \o SubSeq(r, n + 1, n + k)
    <3>1. PICK d : d = [r EXCEPT ![n] = b]  OBVIOUS
    <3>2. d \in Seq(Bytes) /\ Len(d) = Len(r) /\ SubSeq(d, n, n + k) = <<b>> \o SubSeq(r, n + 1, n + k)
      BY <2>4, <3>1, PushedOne
    <3>3. d = q.f.rbuf  BY <2>1, <2>3, <3>1
    <3>4. QED  BY <3>2, <3>3
  <2>6. PICK x, l, u : x = o - (l - n) /\ l = Len(r) /\ u = SubSeq(r, n + 1, n + k)
    OBVIOUS
  <2>7. PICK y, v, path, app : y = x - 1 /\ v = <<b>> \o u /\ path = fds[s].path /\ app = fds[s].append  OBVIOUS
  <2>8. PICK st : st = Views[s] /\ st = [path |-> path, pos |-> x, append |-> app, pushed |-> u] /\ Promised!Open(s)
    <3>1. x = fds[s].off - (Len(streams[s].rbuf) - streams[s].rpos)  BY <2>3, <2>6
    <3>2. u = SubSeq(streams[s].rbuf, streams[s].rpos + 1, streams[s].rpos + back[s])  BY <2>3, <2>6
    <3>3. Views[s] = Seen(fds[s].path, x, fds[s].append, u) /\ Promised!Open(s)
      <4>1. streams[s].wbuf = <<>> /\ Open(s)  BY <2>1, <2>2
      <4>2. QED  BY <3>1, <3>2, <4>1, IdleSeen
    <3>4. QED  BY <2>7, <3>3 DEF Seen
  <2>9. /\ Views' = SeenBut(s, Seen(fds[s].path, y, fds[s].append, v)) /\ Contents' = Contents /\ phase' = phase
    <3>1. y = q.fd.off - (Len(q.f.rbuf) - q.f.rpos)
      <4>1. o - (l - (n - 1)) = x - 1
        <5>1. l \in Nat  BY <2>6
        <5>2. QED  BY <2>6, <5>1
      <4>2. QED  BY <2>1, <2>3, <2>5, <2>6, <2>7, <4>1
    <3>2. v = SubSeq(q.f.rbuf, q.f.rpos + 1, q.f.rpos + back'[s])
      <4>1. (n - 1) + 1 = n /\ (n - 1) + (k + 1) = n + k  OBVIOUS
      <4>2. q.f.rpos = n - 1 /\ back'[s] = k + 1  BY <2>1, <2>3
      <4>3. QED  BY <2>5, <2>6, <2>7, <4>1, <4>2
    <3>3. Call(s, q, "read") /\ q.c = files[fds[s].path] /\ streams[s].wbuf = <<>> /\ q.f.wbuf = <<>>
      BY <2>1
    <3>4. QED  BY <3>1, <3>2, <3>3, IdleAfter
  <2>10. Seen(fds[s].path, y, fds[s].append, v) = [st EXCEPT !.pushed = <<b>> \o @, !.pos = @ - 1]
    <3>1. st.pushed = u /\ st.pos = x  BY <2>8
    <3>2. PICK su : su = [st EXCEPT !.pushed = v]  OBVIOUS
    <3>3. su = [path |-> path, pos |-> x, append |-> app, pushed |-> v]  BY <2>8, <3>2
    <3>4. [su EXCEPT !.pos = y] = [path |-> path, pos |-> y, append |-> app, pushed |-> v]
      BY <3>3
    <3>5. [st EXCEPT !.pushed = <<b>> \o @, !.pos = @ - 1]
            = [[st EXCEPT !.pushed = <<b>> \o st.pushed] EXCEPT !.pos = st.pos - 1]
      OBVIOUS
    <3>6. QED  BY <2>7, <3>1, <3>2, <3>4, <3>5 DEF Seen
  <2>11. Promised!Unget(s, b)
    <3>1. Views' = [Views EXCEPT ![s].pushed = <<b>> \o @, ![s].pos = @ - 1]
      BY <2>8, <2>9, <2>10 DEF SeenBut
    <3>2. QED  BY <1>2, <2>9, <3>1 DEF Promised!Unget, Views
  <2>12. QED  BY <2>8, <2>11
<1>3. QED  BY <1>1, <1>2, UngetcCall

\* ftell answers the position of the stream without buffers.
LEMMA FtellImplements ==
  ASSUME StreamsInv, NEW s \in Streams, Ftell(s)
  PROVE  Promised!Open(s) /\ Promised!Tell(s)
<1>1. /\ Open(s) /\ ~(fds[s].append /\ streams[s].wbuf # <<>>)
      /\ reply' = IF fds[s].path = Terminal THEN "failed"
                  ELSE ToString(fds[s].off - Unread(s) + Len(streams[s].wbuf))
      /\ UNCHANGED <<program, files, fds, streams, registry, hook, handlers, phase, opened, last, back>>
  BY DEF Ftell, Usable
<1>2. Contents' = Contents /\ Views' = Views  BY <1>1, StillSeen
<1>3. Position(s) = fds[s].off - Unread(s) + Len(streams[s].wbuf)  BY <1>1 DEF Position
<1>4. Views[s].pos = Position(s)  BY <1>1 DEF Views, View
<1>5. Promised!Open(s) /\ Views[s].path = fds[s].path /\ fds[s].path \in AllPaths  BY <1>1, OpenSeen
<1>6. Views[s].path \in Paths <=> fds[s].path # Terminal  BY <1>5, FilesAssumption DEF AllPaths
<1>7. Promised!Tell(s)  BY <1>1, <1>2, <1>3, <1>4, <1>6 DEF Promised!Tell, Views
<1>8. QED  BY <1>5, <1>7

\* A place in the file as the stream without buffers counts it: that of the host, when nothing is unread.
LEMMA PlaceSeen ==
  ASSUME StreamsInv, NEW s \in Streams, Open(s), phase # "ended", NEW whence \in Whences, NEW offset \in Int,
         NEW w, w = Work(s, AllSucceed), NEW to, to = From(w, whence) + offset
  PROVE  /\ Unread(s) = 0 \/ whence # "cur" => Promised!Place(s, whence, offset) = to
         /\ Unread(s) = 0 => Views[s].pos = End(w) /\ back[s] = 0
         /\ to \in Int /\ End(w) \in Nat
<1>1. AllSucceed \in Nat  BY DEF AllSucceed
<1>2. w \in Works /\ w.f = streams[s] /\ Sound(w.f, w.fd, w.c, hook, last[s], back[s])  BY <1>1, WorkType
<1>3. PICK e \in Nat, c \in Seq(Bytes), l \in Nat :
        e = End(w) /\ c = Meant(w) /\ l = Len(c)
  <2>1. PICK c \in Seq(Bytes) : c = Meant(w)  BY <1>2, MeantType
  <2>2. Len(c) \in Nat /\ End(w) \in Nat  BY <1>2, MeantType
  <2>3. QED  BY <2>1, <2>2
<1>4. PICK u \in Int, k \in Nat : u = Len(w.f.rbuf) - w.f.rpos /\ u = Unread(s) /\ k = back[s] /\ k <= u
  <2>1. PICK b \in Seq(Bytes), n \in Nat, k \in Nat : b = w.f.rbuf /\ n = w.f.rpos /\ k = back[s]
    <3>1. w.f \in File /\ back[s] \in Nat  BY <1>2, OpenType DEF Works
    <3>2. QED  BY <3>1 DEF File
  <2>2. PICK lb \in Nat : lb = Len(b)  OBVIOUS
  <2>3. n + k <= lb  BY <1>2, <2>1, <2>2 DEF Sound
  <2>4. Unread(s) = lb - n  BY <1>2, <2>1, <2>2 DEF Unread
  <2>5. QED  BY <2>1, <2>2, <2>3, <2>4
<1>5. Contents[fds[s].path] = c /\ Views[s].pos = e - u /\ Views[s].path = fds[s].path
  BY <1>1, <1>3, <1>4, StreamSeen
<1>6. Promised!Place(s, whence, offset)
        = offset + (IF whence = "set" THEN 0 ELSE IF whence = "cur" THEN e - u ELSE l)
  BY <1>3, <1>5 DEF Promised!Place, Views
<1>7. to = (IF whence = "set" THEN 0 ELSE IF whence = "cur" THEN e ELSE l) + offset
  BY <1>3 DEF From
<1>8. to \in Int  BY <1>7
<1>9. ASSUME u = 0 \/ whence # "cur" PROVE Promised!Place(s, whence, offset) = to
  BY <1>6, <1>7, <1>9
<1>10. ASSUME u = 0 PROVE e - u = e /\ k = 0  BY <1>4, <1>10
<1>11. QED  BY <1>3, <1>4, <1>5, <1>8, <1>9, <1>10

\* fseek of a careful program moves it where a stream without buffers would go, or leaves it where it was.
LEMMA FseekImplements ==
  ASSUME StreamsInv, NEW s \in Streams, NEW whence \in Whences, NEW offset \in Int, Fseek(s, whence, offset),
         program.careful, phase # "ended"
  PROVE  Promised!Open(s) /\ Promised!Seek(s, whence, offset)
<1>1. PICK w : w = Work(s, AllSucceed) /\ AllSucceed \in Nat  BY DEF AllSucceed
<1>2. PICK to, q, did : /\ to = From(w, whence) + offset
                        /\ Call(s, q, did) /\ q.c = Meant(w)
                        /\ q.f.wbuf = <<>> /\ q.f.rbuf = <<>> /\ q.f.rpos = 0
                        /\ q.fd.off = (IF Reached(s, to) THEN to ELSE End(w))
                        /\ Unread(s) = 0 \/ (whence # "cur" /\ Reached(s, to))
                        /\ back'[s] = 0 /\ reply' = (IF Reached(s, to) THEN "ok" ELSE "failed")
  BY <1>1, FseekCall
<1>3. Open(s) /\ q \in Works /\ q.fd.path = fds[s].path /\ q.fd.append = fds[s].append  BY <1>2 DEF Call
<1>4. PICK e : e = <<>> /\ Len(e) = 0 /\ SubSeq(e, 0 + 1, 0 + 0) = e
  BY NothingPushed
<1>5. /\ Contents' = [Contents EXCEPT ![fds[s].path] = Meant(q)]
      /\ Views' = SeenBut(s, ViewIn(q, 0)) /\ phase' = phase
  BY <1>2, CallSeen DEF SeenBut
<1>6. /\ Views[s] = ViewIn(w, back[s]) /\ Contents[fds[s].path] = Meant(w) /\ w.fd = fds[s]
      /\ Views[s].pushed = SubSeq(w.f.rbuf, w.f.rpos + 1, w.f.rpos + back[s])
  BY <1>1, <1>3, StreamSeen, WorkType
<1>7. Promised!Open(s) /\ Views[s].path = fds[s].path /\ (Views[s].path \in Paths <=> fds[s].path # Terminal)
  BY <1>3, OpenSeen, FilesAssumption DEF AllPaths
<1>8. /\ Promised!Place(s, whence, offset) = to
      /\ Unread(s) = 0 => Views[s].pos = End(w) /\ back[s] = 0
      /\ to \in Int /\ End(w) \in Nat
  <2>1. Unread(s) = 0 \/ whence # "cur"  BY <1>2
  <2>2. QED  BY <1>1, <1>2, <1>3, <2>1, PlaceSeen
<1>9. Contents' = Contents
  <2>1. Meant(q) = Meant(w)  BY <1>2, <1>3, NothingHeld
  <2>2. [Contents EXCEPT ![fds[s].path] = Contents[fds[s].path]] = Contents  BY DEF Contents
  <2>3. QED  BY <1>5, <1>6, <2>1, <2>2
<1>10. PICK p \in Nat : p = q.fd.off  BY <1>3 DEF Works, Fd
<1>11. ViewIn(q, 0) = Seen(fds[s].path, p, fds[s].append, e)
  <2>1. q.f.rbuf = e /\ q.f.rpos = 0 /\ p - (0 - 0) = p  BY <1>2, <1>4
  <2>2. e = SubSeq(q.f.rbuf, q.f.rpos + 1, q.f.rpos + 0)  BY <1>4, <2>1
  <2>3. p = q.fd.off - (Len(q.f.rbuf) - q.f.rpos)  BY <1>4, <1>10, <2>1
  <2>4. PICK z : z = p  OBVIOUS
  <2>5. q.f.wbuf = <<>> /\ z = q.fd.off - (Len(q.f.rbuf) - q.f.rpos)  BY <1>2, <2>3, <2>4
  <2>6. ViewIn(q, 0) = [path |-> q.fd.path, pos |-> z, append |-> q.fd.append, pushed |-> e]
    BY <1>3, <2>2, <2>5, ViewFields
  <2>7. QED  BY <1>3, <2>4, <2>6 DEF Seen
<1>12. PICK st, path, app, x, u : /\ st = Views[s] /\ path = fds[s].path /\ app = fds[s].append /\ x = PosIn(w)
                                  /\ u = SubSeq(w.f.rbuf, w.f.rpos + 1, w.f.rpos + back[s])
  OBVIOUS
<1>13. st = [path |-> path, pos |-> x, append |-> app, pushed |-> u]
  BY <1>6, <1>12 DEF ViewIn
<1>14. CASE Reached(s, to)
  <2>1. p = to /\ to >= 0 /\ fds[s].path # Terminal  BY <1>2, <1>10, <1>14 DEF Reached
  <2>2. Seen(fds[s].path, p, fds[s].append, e) = [[st EXCEPT !.pos = p] EXCEPT !.pushed = e]
    <3>1. PICK sp : sp = [st EXCEPT !.pos = p]  OBVIOUS
    <3>2. sp = [path |-> path, pos |-> p, append |-> app, pushed |-> u]  BY <1>13, <3>1
    <3>3. [sp EXCEPT !.pushed = e] = [path |-> path, pos |-> p, append |-> app, pushed |-> e]  BY <3>2
    <3>4. QED  BY <1>12, <3>1, <3>3 DEF Seen
  <2>3. Views' = [Views EXCEPT ![s].pos = p, ![s].pushed = <<>>]
    <3>1. Views' = [Views EXCEPT ![s] = [[Views[s] EXCEPT !.pos = p] EXCEPT !.pushed = e]]
      BY <1>5, <1>11, <1>12, <2>2 DEF SeenBut
    <3>2. QED  BY <1>4, <3>1
  <2>4. Promised!Seek(s, whence, offset)
    BY <1>2, <1>5, <1>7, <1>8, <1>9, <1>14, <2>1, <2>3 DEF Promised!Seek, Views
  <2>5. QED  BY <1>7, <2>4
<1>15. CASE ~Reached(s, to)
  <2>1. Unread(s) = 0 /\ reply' = "failed" /\ p = End(w)  BY <1>2, <1>10, <1>15
  <2>2. ~(Views[s].path \in Paths /\ to >= 0)  BY <1>7, <1>15 DEF Reached
  <2>3. x = p
    <3>1. st.pos = x  BY <1>13
    <3>2. st.pos = End(w)  BY <1>8, <1>12, <2>1
    <3>3. QED  BY <2>1, <3>1, <3>2
  <2>4. u = e
    <3>1. PICK b \in Seq(Bytes), n \in Nat : b = w.f.rbuf /\ n = w.f.rpos /\ n + 0 <= Len(b)
      <4>1. w \in Works /\ w.f = streams[s] /\ Sound(w.f, w.fd, w.c, hook, last[s], back[s])
        BY <1>1, <1>3, WorkType
      <4>2. w.f.rbuf \in Seq(Bytes) /\ w.f.rpos \in Nat  BY <4>1 DEF Works, File
      <4>3. QED  BY <1>8, <2>1, <4>1, <4>2 DEF Sound
    <3>2. SubSeq(b, n + 1, n + 0) = <<>>  BY <3>1, Pushed
    <3>3. QED  BY <1>4, <1>8, <1>12, <2>1, <3>1, <3>2
  <2>5. Seen(fds[s].path, p, fds[s].append, e) = st  BY <1>12, <1>13, <2>3, <2>4 DEF Seen
  <2>6. [Views EXCEPT ![s] = Views[s]] = Views  BY DEF Views
  <2>7. Views' = Views  BY <1>5, <1>11, <1>12, <2>5, <2>6 DEF SeenBut
  <2>8. Promised!Seek(s, whence, offset)
    BY <1>5, <1>8, <1>9, <2>1, <2>2, <2>7 DEF Promised!Seek, Views
  <2>9. QED  BY <1>7, <2>8
<1>16. QED  BY <1>14, <1>15

-----------------------------------------------------------------------------
(* opening and closing *)

WorkAt == \A s \in Streams : Open(s) => Work(s, 0) \in Works
\* The work of a call starts well typed.
LEMMA WorkAtHolds == StreamsInv => WorkAt
<1>1. 0 \in Nat  OBVIOUS
<1>2. QED  BY <1>1, WorkType DEF WorkAt
\* The same after a step.
LEMMA WorkAtNext == (StreamsInv => WorkAt)'
BY WorkAtHolds, PTL

OtherHas(s, x) == \E t \in Streams \ {s} : Open(t) /\ fds[t].path = x

\* What the program sees of a stream that changes its file: itself anew, the other streams and their files as before.
LEMMA ReplaceSeen ==
  ASSUME StreamsInv, NEW s \in Streams, NEW f \in File, NEW fd, Replaces(s, f, fd),
         \/ fd = NoFd /\ f = Absent
         \/ /\ fd \in Fd /\ fd.off = 0 /\ s <= opened'
            /\ \A t \in Streams \ {s} : fds[t].path # fd.path
            /\ f.wbuf = <<>> /\ f.rbuf = <<>> /\ f.rpos = 0 /\ "inited" \notin f.flags,
         phase # "ended"
  PROVE  /\ fd = NoFd => Views' = SeenBut(s, Closed)
         /\ fd # NoFd => \E e : e = <<>> /\ Views' = SeenBut(s, Seen(fd.path, 0, fd.append, e))
         /\ \A x \in AllPaths : Contents'[x] = IF OtherHas(s, x) THEN Contents[x] ELSE files'[x]
         /\ phase' = phase
<1>1. /\ streams' = [streams EXCEPT ![s] = f] /\ fds' = [fds EXCEPT ![s] = fd]
      /\ back' = [back EXCEPT ![s] = 0]
      /\ \A t \in Streams \ {s} : Open(t) => files'[fds[t].path] = files[fds[t].path]
      /\ phase' = phase
  BY DEF Replaces
<1>2. /\ streams'[s] = f /\ fds'[s] = fd /\ back'[s] = 0
      /\ \A t \in Streams \ {s} : /\ streams'[t] = streams[t] /\ fds'[t] = fds[t] /\ back'[t] = back[t]
                                  /\ Open(t)' <=> Open(t)
  BY <1>1 DEF StreamsInv, TypeOK, Open
<1>3. StreamsInv'  BY ReplaceKeeps
<1>4. ViewAt' /\ FileAt' /\ DOMAIN Contents' = AllPaths  BY <1>3, ViewsSeenNext
<1>5. ASSUME NEW t \in Streams \ {s}
      PROVE  View(t)' = View(t) /\ (Open(t) => Contents'[fds[t].path] = Contents[fds[t].path])
  BY <1>1, <1>2, <1>3, OthersSeen
<1>6. Open(s)' <=> fd # NoFd  BY <1>2 DEF Open
<1>7. CASE fd = NoFd
  <2>1. View(s)' = Closed  BY <1>6, <1>7 DEF View, Closed
  <2>2. Views' = SeenBut(s, Closed)  BY <1>5, <2>1 DEF Views, SeenBut
  <2>3. ASSUME NEW x \in AllPaths PROVE Contents'[x] = IF OtherHas(s, x) THEN Contents[x] ELSE files'[x]
    <3>1. CASE OtherHas(s, x)
      <4>1. PICK t \in Streams \ {s} : Open(t) /\ fds[t].path = x  BY <3>1 DEF OtherHas
      <4>2. QED  BY <1>5, <3>1, <4>1
    <3>2. CASE ~OtherHas(s, x)
      <4>1. ~\E t \in Streams : Open(t)' /\ fds'[t].path = x
        <5>1. SUFFICES ASSUME NEW t \in Streams, Open(t)', fds'[t].path = x PROVE FALSE  OBVIOUS
        <5>2. t # s  BY <1>6, <1>7, <5>1
        <5>3. QED  BY <1>2, <3>2, <5>1, <5>2 DEF OtherHas
      <4>2. QED  BY <1>4, <3>2, <4>1 DEF FileAt
    <3>3. QED  BY <3>1, <3>2
  <2>4. QED  BY <1>1, <1>7, <2>2, <2>3
<1>8. CASE fd # NoFd
  <2>1. /\ fd \in Fd /\ fd.off = 0 /\ f.wbuf = <<>> /\ f.rbuf = <<>> /\ f.rpos = 0 /\ f \in File
    BY <1>8
  <2>2. PICK v : v = Work(s, 0)'  OBVIOUS
  <2>3. v.f = f /\ v.fd = fd /\ v.c = files'[fd.path] /\ v \in Works
    <3>1. v.f = f /\ v.fd = fd /\ v.c = files'[fd.path]  BY <1>2, <2>2 DEF Work
    <3>2. WorkAt'  BY <1>3, WorkAtNext
    <3>3. QED  BY <1>6, <1>8, <2>2, <3>1, <3>2 DEF WorkAt
  <2>4. View(s)' = ViewIn(v, 0) /\ Contents'[fd.path] = Meant(v)
    BY <1>1, <1>2, <1>4, <1>6, <1>8, <2>2 DEF ViewAt, ViewIn, PosIn, Meant
  <2>5. PICK e : e = <<>> /\ Len(e) = 0 /\ SubSeq(e, 0 + 1, 0 + 0) = e
    BY NothingPushed
  <2>6. View(s)' = Seen(fd.path, 0, fd.append, e)
    <3>1. v.f.rbuf = e /\ v.f.rpos = 0 /\ v.f.wbuf = <<>> /\ v.fd = fd /\ fd.off = 0
      BY <2>1, <2>3, <2>5
    <3>2. 0 = v.fd.off - (Len(v.f.rbuf) - v.f.rpos)
      <4>1. v.fd.off = 0 /\ Len(v.f.rbuf) = 0  BY <2>5, <3>1
      <4>2. 0 = 0 - (0 - 0)  OBVIOUS
      <4>3. QED  BY <3>1, <4>1, <4>2
    <3>3. e = SubSeq(v.f.rbuf, v.f.rpos + 1, v.f.rpos + 0)  BY <2>5, <3>1
    <3>4. QED  BY <2>3, <2>4, <3>1, <3>2, <3>3, ViewFields DEF Seen
  <2>7. Views' = SeenBut(s, Seen(fd.path, 0, fd.append, e))  BY <1>5, <2>6 DEF Views, SeenBut
  <2>8. Meant(v) = files'[fd.path]  BY <2>1, <2>3, NothingHeld
  <2>9. ~OtherHas(s, fd.path)
    BY <1>8 DEF OtherHas
  <2>10. ASSUME NEW x \in AllPaths PROVE Contents'[x] = IF OtherHas(s, x) THEN Contents[x] ELSE files'[x]
    <3>1. CASE OtherHas(s, x)
      <4>1. PICK t \in Streams \ {s} : Open(t) /\ fds[t].path = x  BY <3>1 DEF OtherHas
      <4>2. QED  BY <1>5, <3>1, <4>1
    <3>2. CASE x = fd.path  BY <2>4, <2>8, <2>9, <3>2
    <3>3. CASE ~OtherHas(s, x) /\ x # fd.path
      <4>1. ~\E t \in Streams : Open(t)' /\ fds'[t].path = x
        <5>1. SUFFICES ASSUME NEW t \in Streams, Open(t)', fds'[t].path = x PROVE FALSE  OBVIOUS
        <5>2. t # s  BY <1>2, <3>3, <5>1
        <5>3. QED  BY <1>2, <3>3, <5>1, <5>2 DEF OtherHas
      <4>2. QED  BY <1>4, <3>3, <4>1 DEF FileAt
    <3>4. QED  BY <3>1, <3>2, <3>3
  <2>11. QED  BY <1>1, <1>8, <2>5, <2>7, <2>10
<1>9. QED  BY <1>7, <1>8

\* A file no other stream has, as the program sees it: what stream s means, or what the host holds.
LEMMA OwnFile ==
  ASSUME StreamsInv, NEW s \in Streams, NEW x \in AllPaths, ~OtherHas(s, x), phase # "ended"
  PROVE  /\ Open(s) /\ fds[s].path = x => Contents[x] = Meant(Work(s, AllSucceed))
         /\ ~(Open(s) /\ fds[s].path = x) => Contents[x] = files[x]
<1>1. FileAt  BY ViewsSeen
<1>2. CASE Open(s) /\ fds[s].path = x
  <2>1. PICK w : w = Work(s, AllSucceed) /\ AllSucceed \in Nat  BY DEF AllSucceed
  <2>2. Contents[fds[s].path] = Meant(w)  BY <1>2, <2>1, StreamSeen
  <2>3. QED  BY <1>2, <2>1, <2>2
<1>3. CASE ~(Open(s) /\ fds[s].path = x)
  <2>1. ~\E t \in Streams : Open(t) /\ fds[t].path = x  BY <1>3 DEF OtherHas
  <2>2. QED  BY <1>1, <1>3, <2>1 DEF FileAt
<1>4. QED  BY <1>2, <1>3

\* Contents are equal when they are at every path.
LEMMA SameContents ==
  ASSUME DOMAIN Contents = AllPaths, DOMAIN Contents' = AllPaths, \A x \in AllPaths : Contents'[x] = Contents[x]
  PROVE  Contents' = Contents
<1>1. Contents = [x \in AllPaths |-> Contents[x]] /\ Contents' = [x \in AllPaths |-> Contents'[x]]
  BY DEF Contents
<1>2. PICK a, b : a = Contents /\ b = Contents'  OBVIOUS
<1>3. a = [x \in AllPaths |-> a[x]] /\ b = [x \in AllPaths |-> b[x]] /\ \A x \in AllPaths : b[x] = a[x]
  BY <1>1, <1>2
<1>4. a = b  BY <1>3
<1>5. QED  BY <1>2, <1>4

\* What an open of kind makes of the files, and of the descriptor.
Emptied(file, p) == [file EXCEPT ![p] = <<>>]
OpenedAs(file, p, kind) == files' = IF kind = "w" THEN Emptied(file, p) ELSE file
AppendsAs(fd, kind) == fd.append = (kind = "a")

\* fopen, and freopen of an open stream: its old file is, for the program, what was meant of it.
LEMMA OpenImplements ==
  ASSUME StreamsInv, NEW s \in Streams, NEW f \in File, NEW fd \in Fd, Replaces(s, f, fd),
         fd.off = 0, s <= opened', \A t \in Streams \ {s} : fds[t].path # fd.path,
         f.wbuf = <<>>, f.rbuf = <<>>, f.rpos = 0, "inited" \notin f.flags, phase # "ended",
         NEW p \in AllPaths, fd.path = p, NEW kind, AppendsAs(fd, kind), reply' = "ok",
         NEW file \in [AllPaths -> Seq(Bytes)], \A x \in AllPaths : OtherHas(s, x) \/ Contents[x] = file[x],
         OpenedAs(file, p, kind)
  PROVE  Promised!OpenFile(s, p, kind)
<1>1. fd # NoFd  BY NoFdNotFd
<1>2. StreamsInv'  BY ReplaceKeeps
<1>3. /\ \E e : e = <<>> /\ Views' = SeenBut(s, Seen(fd.path, 0, fd.append, e))
      /\ \A x \in AllPaths : Contents'[x] = IF OtherHas(s, x) THEN Contents[x] ELSE files'[x]
      /\ phase' = phase
  BY <1>1, ReplaceSeen
<1>4. DOMAIN Contents = AllPaths /\ DOMAIN Contents' = AllPaths  BY <1>2, ViewsSeen, ViewsSeenNext
<1>5. Views' = [Views EXCEPT ![s] = [path |-> p, pos |-> 0, append |-> kind = "a", pushed |-> <<>>]]
  <2>1. \E app, e : app = fd.append /\ e = <<>>
           /\ Views' = [Views EXCEPT ![s] = [path |-> p, pos |-> 0, append |-> app, pushed |-> e]]
    BY <1>3 DEF Seen, SeenBut
  <2>2. fd.append = (kind = "a")  BY DEF AppendsAs
  <2>3. QED  BY <2>1, <2>2
<1>6. CASE kind # "w"
  <2>1. \A x \in AllPaths : Contents'[x] = Contents[x]  BY <1>3, <1>6 DEF OpenedAs
  <2>2. Contents' = Contents  BY <1>4, <2>1, SameContents
  <2>3. QED  BY <1>3, <1>5, <1>6, <2>2 DEF Promised!OpenFile, Views
<1>7. CASE kind = "w"
  <2>1. ~OtherHas(s, p)  BY DEF OtherHas
  <2>2. files'[p] = <<>> /\ \A x \in AllPaths : x # p => files'[x] = file[x]  BY <1>7 DEF Emptied, OpenedAs
  <2>3. Contents'[p] = <<>>  BY <1>3, <2>1, <2>2
  <2>4. \A x \in AllPaths : x # p => Contents'[x] = Contents[x]  BY <1>3, <2>2
  <2>5. Contents' = [Contents EXCEPT ![p] = <<>>]
    <3>1. Contents = [x \in AllPaths |-> Contents[x]] /\ Contents' = [x \in AllPaths |-> Contents'[x]]
      BY <1>4 DEF Contents
    <3>2. PICK a, b, e : a = Contents /\ b = Contents' /\ e = <<>>  OBVIOUS
    <3>3. /\ a = [x \in AllPaths |-> a[x]] /\ b = [x \in AllPaths |-> b[x]] /\ b[p] = e
          /\ \A x \in AllPaths : x # p => b[x] = a[x]
      BY <2>3, <2>4, <3>1, <3>2
    <3>4. b = [a EXCEPT ![p] = e]  BY <3>3
    <3>5. QED  BY <3>2, <3>4
  <2>6. QED  BY <1>3, <1>5, <1>7, <2>5 DEF Promised!OpenFile, Views
<1>8. QED  BY <1>6, <1>7

\* fclose, and a freopen that fails.
LEMMA CloseImplements ==
  ASSUME StreamsInv, NEW s \in Streams, Open(s), Replaces(s, Absent, NoFd), phase # "ended",
         \A x \in AllPaths : x # fds[s].path => files'[x] = files[x],
         \/ reply' = "failed"
         \/ reply' = "ok" /\ files'[fds[s].path] = Meant(Work(s, AllSucceed))
  PROVE  Promised!Open(s) /\ Promised!CloseFile(s)
<1>1. PICK w : w = Work(s, AllSucceed) /\ AllSucceed \in Nat  BY DEF AllSucceed
<1>2. Views[s].path = fds[s].path /\ Promised!Open(s) /\ Contents[fds[s].path] = Meant(w)
  BY <1>1, StreamSeen, PromisedStored
<1>3. Absent \in File  BY AbsentFile
<1>4. StreamsInv'  BY <1>3, ReplaceKeeps
<1>5. /\ Views' = SeenBut(s, Closed) /\ phase' = phase
      /\ \A x \in AllPaths : Contents'[x] = IF OtherHas(s, x) THEN Contents[x] ELSE files'[x]
  BY <1>3, ReplaceSeen
<1>6. ASSUME NEW x \in AllPaths, x # fds[s].path PROVE Contents'[x] = Contents[x]
  <2>1. CASE OtherHas(s, x)  BY <1>5, <2>1
  <2>2. CASE ~OtherHas(s, x)  BY <1>5, <1>6, <2>2, OwnFile
  <2>3. QED  BY <2>1, <2>2
<1>7. CASE reply' = "failed"
  <2>1. \A x \in AllPaths \ {Views[s].path} : Contents'[x] = Contents[x]  BY <1>2, <1>6
  <2>2. Promised!CloseFile(s)  BY <1>5, <1>7, <2>1 DEF Promised!CloseFile, Views, SeenBut, AllPaths
  <2>3. QED  BY <1>2, <2>2
<1>8. CASE reply' = "ok" /\ files'[fds[s].path] = Meant(Work(s, AllSucceed))
  <2>1. fds[s].path \in AllPaths /\ ~OtherHas(s, fds[s].path)
    BY OpenType DEF OtherHas, StreamsInv, Apart
  <2>2. Contents'[fds[s].path] = Contents[fds[s].path]  BY <1>1, <1>2, <1>5, <1>8, <2>1
  <2>3. Contents' = Contents
    <3>1. DOMAIN Contents = AllPaths /\ DOMAIN Contents' = AllPaths  BY <1>4, ViewsSeen, ViewsSeenNext
    <3>2. QED  BY <1>6, <2>2, <3>1, SameContents
  <2>4. Promised!CloseFile(s)  BY <1>5, <1>8, <2>3 DEF Promised!CloseFile, Views, SeenBut
  <2>5. QED  BY <1>2, <2>4
<1>9. QED  BY <1>7, <1>8

\* fclose closes the stream without buffers; the file is as it was meant or the reply tells.
LEMMA FcloseImplements ==
  ASSUME StreamsInv, NEW s \in Streams, Fclose(s), phase # "ended"
  PROVE  Promised!Open(s) /\ Promised!CloseFile(s)
BY FcloseReplaces, CloseImplements

\* fopen opens a stream without buffers.
LEMMA FopenImplements ==
  ASSUME StreamsInv, NEW p \in program.paths, NEW m \in program.modes, Fopen(p, m), phase # "ended"
  PROVE  \E s \in Streams : /\ call' = <<"open", s, p, m.kind>> /\ ~Promised!Open(s)
                             /\ Promised!OpenFile(s, p, m.kind)
<1>1. PICK s, f, fd :
           /\ s \in Streams /\ s = opened + 1 /\ ~Open(s) /\ opened' = s
           /\ Replaces(s, f, fd)
           /\ fd = [path |-> p, off |-> 0, append |-> m.kind = "a"]
           /\ f \in File /\ fd \in Fd /\ fd.off = 0
           /\ \A t \in Streams \ {s} : fds[t].path # fd.path
           /\ f.wbuf = <<>> /\ f.rbuf = <<>> /\ f.rpos = 0 /\ "inited" \notin f.flags
           /\ files' = IF m.kind = "w" THEN [files EXCEPT ![p] = <<>>] ELSE files
  BY FopenReplaces
<1>2. PICK kind : kind = m.kind  OBVIOUS
<1>3. p \in AllPaths /\ fd.path = p /\ AppendsAs(fd, kind) /\ s <= opened'
  <2>1. fd.path = p /\ fd.append = (m.kind = "a")  BY <1>1
  <2>2. s <= s  BY <1>1 DEF Streams
  <2>3. QED  BY <1>1, <1>2, <2>1, <2>2, ProgramOpens DEF AppendsAs
<1>4. reply' = "ok"  BY DEF Fopen
<1>5. files \in [AllPaths -> Seq(Bytes)]  BY DEF StreamsInv, TypeOK
<1>6. \A x \in AllPaths : OtherHas(s, x) \/ Contents[x] = files[x]  BY <1>1, OwnFile
<1>7. OpenedAs(files, p, kind)  BY <1>1, <1>2 DEF Emptied, OpenedAs
<1>8. Promised!OpenFile(s, p, kind)
  <2>1. /\ s \in Streams /\ f \in File /\ fd \in Fd /\ Replaces(s, f, fd) /\ fd.off = 0
        /\ (\A t \in Streams \ {s} : fds[t].path # fd.path)
        /\ f.wbuf = <<>> /\ f.rbuf = <<>> /\ f.rpos = 0 /\ "inited" \notin f.flags
    BY <1>1
  <2>2. QED  BY <1>2, <1>3, <1>4, <1>5, <1>6, <1>7, <2>1, OpenImplements
<1>9. ~Promised!Open(s)
  <2>1. Views[s] = Closed  BY <1>1 DEF Views, View
  <2>2. QED  BY <1>1, <2>1, PromisedStored
<1>10. call' = <<"open", s, p, m.kind>>  BY <1>1 DEF Fopen
<1>11. QED  BY <1>1, <1>2, <1>8, <1>9, <1>10

\* freopen opens it on another file, or closes it.
LEMMA FreopenImplements ==
  ASSUME StreamsInv, NEW s \in Streams, NEW p \in program.paths, NEW m \in program.modes, Freopen(s, p, m),
         phase # "ended"
  PROVE  /\ Promised!Open(s)
         /\ Promised!OpenFile(s, p, m.kind) \/ (reply' = "failed" /\ Promised!CloseFile(s))
<1>1. /\ Open(s)
      /\ \E file : /\ file \in [AllPaths -> Seq(Bytes)] /\ file[fds[s].path] = Meant(Work(s, AllSucceed))
                   /\ \A x \in AllPaths : x # fds[s].path => file[x] = files[x]
                   /\ \/ /\ reply' = "failed" /\ Replaces(s, Absent, NoFd) /\ files' = file /\ Gone(s)
                      \/ /\ reply' = "ok" /\ registry' = registry /\ opened' = opened
                         /\ files' = (IF m.kind = "w" THEN [file EXCEPT ![p] = <<>>] ELSE file)
                         /\ \E f \in File, fd \in Fd :
                              /\ Replaces(s, f, fd) /\ fd = [path |-> p, off |-> 0, append |-> m.kind = "a"]
                              /\ fd.off = 0 /\ s <= opened' /\ \A t \in Streams \ {s} : fds[t].path # fd.path
                              /\ f.wbuf = <<>> /\ f.rbuf = <<>> /\ f.rpos = 0 /\ "inited" \notin f.flags
  BY FreopenReplaces
<1>2. PICK file : /\ file \in [AllPaths -> Seq(Bytes)] /\ file[fds[s].path] = Meant(Work(s, AllSucceed))
                  /\ \A x \in AllPaths : x # fds[s].path => file[x] = files[x]
                  /\ \/ /\ reply' = "failed" /\ Replaces(s, Absent, NoFd) /\ files' = file
                     \/ /\ reply' = "ok"
                        /\ files' = (IF m.kind = "w" THEN [file EXCEPT ![p] = <<>>] ELSE file)
                        /\ \E f \in File, fd \in Fd :
                             /\ Replaces(s, f, fd) /\ fd = [path |-> p, off |-> 0, append |-> m.kind = "a"]
                             /\ fd.off = 0 /\ s <= opened' /\ \A t \in Streams \ {s} : fds[t].path # fd.path
                             /\ f.wbuf = <<>> /\ f.rbuf = <<>> /\ f.rpos = 0 /\ "inited" \notin f.flags
  BY <1>1
<1>3. CASE reply' = "failed" /\ Replaces(s, Absent, NoFd) /\ files' = file
  <2>1. \A x \in AllPaths : x # fds[s].path => files'[x] = files[x]  BY <1>2, <1>3
  <2>2. QED  BY <1>1, <1>3, <2>1, CloseImplements
<1>4. CASE /\ reply' = "ok"
           /\ files' = (IF m.kind = "w" THEN [file EXCEPT ![p] = <<>>] ELSE file)
           /\ \E f \in File, fd \in Fd :
                /\ Replaces(s, f, fd) /\ fd = [path |-> p, off |-> 0, append |-> m.kind = "a"]
                /\ fd.off = 0 /\ s <= opened' /\ \A t \in Streams \ {s} : fds[t].path # fd.path
                /\ f.wbuf = <<>> /\ f.rbuf = <<>> /\ f.rpos = 0 /\ "inited" \notin f.flags
  <2>1. PICK f \in File, fd \in Fd :
                /\ Replaces(s, f, fd) /\ fd = [path |-> p, off |-> 0, append |-> m.kind = "a"]
                /\ fd.off = 0 /\ s <= opened' /\ \A t \in Streams \ {s} : fds[t].path # fd.path
                /\ f.wbuf = <<>> /\ f.rbuf = <<>> /\ f.rpos = 0 /\ "inited" \notin f.flags
    BY <1>4
  <2>2. PICK kind : kind = m.kind  OBVIOUS
  <2>3. p \in AllPaths /\ fd.path = p /\ AppendsAs(fd, kind)
    <3>1. fd.path = p /\ fd.append = (m.kind = "a")  BY <2>1
    <3>2. QED  BY <2>2, <3>1, ProgramOpens DEF AppendsAs
  <2>4. \A x \in AllPaths : OtherHas(s, x) \/ Contents[x] = file[x]
    <3>1. SUFFICES ASSUME NEW x \in AllPaths, ~OtherHas(s, x) PROVE Contents[x] = file[x]  OBVIOUS
    <3>2. CASE x = fds[s].path  BY <1>1, <1>2, <3>1, <3>2, OwnFile
    <3>3. CASE x # fds[s].path  BY <1>2, <3>1, <3>3, OwnFile
    <3>4. QED  BY <3>2, <3>3
  <2>5. OpenedAs(file, p, kind)  BY <1>4, <2>2 DEF Emptied, OpenedAs
  <2>6. file \in [AllPaths -> Seq(Bytes)] /\ reply' = "ok"  BY <1>2, <1>4
  <2>7. /\ Replaces(s, f, fd) /\ fd.off = 0 /\ s <= opened'
        /\ (\A t \in Streams \ {s} : fds[t].path # fd.path)
        /\ f.wbuf = <<>> /\ f.rbuf = <<>> /\ f.rpos = 0 /\ "inited" \notin f.flags
    BY <2>1
  <2>8. Promised!OpenFile(s, p, kind)
    BY <2>2, <2>3, <2>4, <2>5, <2>6, <2>7, OpenImplements
  <2>9. QED  BY <1>1, <2>2, <2>8, OpenSeen
<1>5. QED  BY <1>2, <1>3, <1>4

\* exit() writes what was put, and shows the program nothing else.
LEMMA SysExitImplements ==
  ASSUME StreamsInv, RegistryInv, SysExit
  PROVE  Promised!Exit
<1>1. /\ phase' = "ended" /\ reply' = "exited" /\ phase # "ended" /\ back' = back
      /\ IF hook THEN StdioExit ELSE UNCHANGED <<files, streams, fds>>
  BY DEF SysExit
<1>2. StreamsInv' /\ HeldIsFlushedAtExit  BY SysExitKeeps, HeldReached
<1>3. /\ FileAt /\ ViewAt' /\ WorkAt' /\ DOMAIN Contents = AllPaths /\ DOMAIN Contents' = AllPaths
  BY <1>2, ViewsSeen, ViewsSeenNext, WorkAtNext
<1>4. \A x \in AllPaths : Contents'[x] = files'[x]
  BY <1>1, <1>2 DEF Contents, StreamsInv, TypeOK
<1>5. PICK ok \in Nat : ok = AllSucceed  BY DEF AllSucceed
<1>6. CASE hook
  <2>1. /\ \A s \in Streams : ~Open(s) => streams'[s] = streams[s] /\ fds'[s] = fds[s]
        /\ \A s \in Streams : Open(s) => Exited(s, [f |-> streams'[s], fd |-> fds'[s], c |-> files'[fds[s].path],
                                                    ok |-> AllSucceed, eof |-> FALSE])
        /\ \A p \in AllPaths : (\A s \in Streams : Open(s) => fds[s].path # p) => files'[p] = files[p]
    BY <1>1, <1>6, StdioExitWorks
  <2>2. ASSUME NEW s \in Streams, Open(s)
        PROVE  View(s)' = View(s) /\ files'[fds[s].path] = Contents[fds[s].path]
    <3>1. PICK w, r : /\ w = Work(s, AllSucceed)
                      /\ r = [f |-> streams'[s], fd |-> fds'[s], c |-> files'[fds[s].path],
                              ok |-> AllSucceed, eof |-> FALSE]
      OBVIOUS
    <3>2. r.f = streams'[s] /\ r.fd = fds'[s] /\ r.c = files'[fds[s].path]  BY <3>1
    <3>3. Exited(s, r)  BY <2>1, <2>2, <3>1
    <3>4. /\ r \in Works /\ r.fd.path = fds[s].path /\ r.fd.append = fds[s].append
          /\ Sound(r.f, r.fd, r.c, hook, last[s], back[s])
          /\ (s \in Flushed \/ streams[s].wbuf = <<>>) => r.c = Meant(w)
          /\ Keeps(w, r) /\ r.f.rpos = streams[s].rpos /\ r.f.rbuf = streams[s].rbuf
      BY <3>1, <3>3 DEF Exited
    <3>5. /\ w \in Works /\ w.f = streams[s] /\ w.fd = fds[s] /\ Sound(w.f, w.fd, w.c, hook, last[s], back[s])
          /\ Views[s] = ViewIn(w, back[s]) /\ Contents[fds[s].path] = Meant(w)
      BY <1>1, <1>5, <2>2, <3>1, WorkType, StreamSeen
    <3>6. s \in Flushed \/ streams[s].wbuf = <<>>
      BY <1>1, <1>2 DEF HeldIsFlushedAtExit
    <3>7. PosIn(r) = PosIn(w)
      <4>1. r.f.wbuf # <<>> => r.f.rpos = Len(r.f.rbuf)  BY <3>4 DEF Sound
      <4>2. w.f.wbuf # <<>> => w.f.rpos = Len(w.f.rbuf)  BY <3>5 DEF Sound
      <4>3. PosIn(r) = End(r) - (Len(r.f.rbuf) - r.f.rpos) /\ PosIn(w) = End(w) - (Len(w.f.rbuf) - w.f.rpos)
        BY <3>4, <3>5, <4>1, <4>2, PosIsEnd
      <4>4. QED  BY <3>4, <3>5, <4>3 DEF Keeps
    <3>8. ViewIn(r, back[s]) = ViewIn(w, back[s])  BY <3>4, <3>5, <3>7 DEF ViewIn
    <3>9. PICK v : v = Work(s, 0)'  OBVIOUS
    <3>10. Open(s)'
      <4>1. r.fd \in Fd  BY <3>4 DEF Works
      <4>2. QED  BY <3>2, <4>1, NoFdNotFd DEF Open
    <3>11. v.f = r.f /\ v.fd = r.fd /\ v.c = r.c  BY <3>2, <3>4, <3>9 DEF Work
    <3>12. ViewIn(v, back[s]) = ViewIn(r, back[s])  BY <3>11 DEF ViewIn, PosIn, Meant
    <3>13. View(s)' = ViewIn(v, back'[s])  BY <1>3, <3>9, <3>10 DEF ViewAt, ViewIn, PosIn, Meant
    <3>14. View(s)' = View(s)  BY <1>1, <3>5, <3>8, <3>12, <3>13 DEF Views
    <3>15. QED  BY <3>2, <3>4, <3>5, <3>6, <3>14
  <2>3. ASSUME NEW s \in Streams, ~Open(s) PROVE View(s)' = View(s)
    <3>1. fds'[s] = fds[s]  BY <2>1, <2>3
    <3>2. QED  BY <2>3, <3>1 DEF View, Open, Closed
  <2>4. Views' = Views  BY <2>2, <2>3 DEF Views
  <2>5. ASSUME NEW x \in AllPaths PROVE Contents'[x] = Contents[x]
    <3>1. CASE \E s \in Streams : Open(s) /\ fds[s].path = x  BY <1>4, <2>2, <3>1
    <3>2. CASE ~\E s \in Streams : Open(s) /\ fds[s].path = x
      <4>1. Contents[x] = files[x]  BY <1>3, <3>2 DEF FileAt
      <4>2. files'[x] = files[x]  BY <2>1, <3>2
      <4>3. QED  BY <1>4, <4>1, <4>2
    <3>3. QED  BY <3>1, <3>2
  <2>6. Contents' = Contents  BY <1>3, <2>5, SameContents
  <2>7. QED  BY <1>1, <2>4, <2>6 DEF Promised!Exit, Views
<1>7. CASE ~hook
  <2>1. files' = files /\ streams' = streams /\ fds' = fds  BY <1>1, <1>7
  <2>2. Views' = Views  BY <1>1, <2>1 DEF Views, View, Position, Flushing, Open, Unread, Closed
  <2>3. ASSUME NEW x \in AllPaths PROVE Contents'[x] = Contents[x]
    <3>1. CASE \E s \in Streams : Open(s) /\ fds[s].path = x
      <4>1. PICK s \in Streams : Open(s) /\ fds[s].path = x  BY <3>1
      <4>2. streams[s].wbuf = <<>>  BY <1>1, <1>2, <1>7 DEF HeldIsFlushedAtExit
      <4>3. PICK w : w = Work(s, ok)  OBVIOUS
      <4>4. /\ w \in Works /\ w.f = streams[s] /\ w.c = files[fds[s].path] /\ Contents[fds[s].path] = Meant(w)
        BY <1>1, <4>1, <4>3, WorkType, StreamSeen
      <4>5. Meant(w) = files[x]  BY <4>1, <4>2, <4>4, NothingHeld
      <4>6. QED  BY <1>4, <2>1, <4>1, <4>4, <4>5
    <3>2. CASE ~\E s \in Streams : Open(s) /\ fds[s].path = x
      BY <1>3, <1>4, <2>1, <3>2 DEF FileAt
    <3>3. QED  BY <3>1, <3>2
  <2>4. Contents' = Contents  BY <1>3, <2>3, SameContents
  <2>5. QED  BY <1>1, <2>2, <2>4 DEF Promised!Exit, Views
<1>8. QED  BY <1>6, <1>7

\* _Exit, abort and quick_exit end the program and may lose what is held.
LEMMA QuitImplements == ASSUME Quit PROVE Promised!Quit
<1>1. /\ phase' = "ended" /\ reply' = "quit"
      /\ UNCHANGED <<program, files, fds, streams, registry, hook, opened, last, back>>
  BY DEF Quit, Still
<1>2. Views' = Views  BY <1>1 DEF Views, View, Position, Flushing, Open, Unread, Closed
<1>3. QED  BY <1>1, <1>2 DEF Promised!Quit, Views

\* The initial states map to initial states.
LEMMA InitImplements == Init => Promised!Init
<1>1. SUFFICES ASSUME Init PROVE Promised!Init  OBVIOUS
<1>2. StreamsInv  BY <1>1, InitStreams
<1>3. DOMAIN Contents = AllPaths  BY <1>2, ViewsSeen
<1>4. reply = "ok" /\ phase = "running" /\ call = <<"start">>  BY <1>1 DEF Init
<1>5. ASSUME NEW s \in Streams, Views[s] # Closed PROVE Views[s].pos = 0 /\ Views[s].pushed = <<>>
  <2>1. Open(s)  BY <1>5 DEF Views, View
  <2>2. fds[s].off = 0 /\ streams[s].wbuf = <<>> /\ streams[s].rbuf = <<>> /\ streams[s].rpos = 0 /\ back[s] = 0
    <3>1. /\ streams[s] = (IF s = Stdout THEN [Absent EXCEPT !.flags = {"write", "linebuf"}] ELSE Absent)
          /\ fds[s] = (IF s = Stdout THEN [NoFd EXCEPT !.path = Terminal] ELSE NoFd) /\ back[s] = 0
      BY <1>1 DEF Init
    <3>2. /\ streams[s].wbuf = Absent.wbuf /\ streams[s].rbuf = Absent.rbuf /\ streams[s].rpos = Absent.rpos
          /\ fds[s].off = NoFd.off
      BY <3>1 DEF Absent, NoFd
    <3>3. Absent.wbuf = <<>> /\ Absent.rbuf = <<>> /\ Absent.rpos = 0 /\ NoFd.off = 0
      BY DEF Absent, NoFd
    <3>4. QED  BY <3>1, <3>2, <3>3
  <2>3. PICK e : e = <<>> /\ Len(e) = 0 /\ SubSeq(e, 0 + 1, 0 + 0) = e  BY NothingPushed
  <2>4. 0 = fds[s].off - (Len(streams[s].rbuf) - streams[s].rpos)
    <3>1. Len(streams[s].rbuf) = 0  BY <2>2, <2>3
    <3>2. 0 = 0 - (0 - 0)  OBVIOUS
    <3>3. QED  BY <2>2, <3>1, <3>2
  <2>5. e = SubSeq(streams[s].rbuf, streams[s].rpos + 1, streams[s].rpos + back[s])  BY <2>2, <2>3
  <2>6. Views[s] = Seen(fds[s].path, 0, fds[s].append, e)
    BY <1>2, <1>4, <2>1, <2>2, <2>4, <2>5, IdleSeen
  <2>7. QED  BY <2>3, <2>6 DEF Seen
<1>6. QED  BY <1>3, <1>4, <1>5 DEF Promised!Init, Views, AllPaths

\* A call on an open stream is a step of the streams without buffers.
LEMMA PromisedStep ==
  ASSUME NEW s \in Streams, Promised!Open(s), phase # "ended",
         \/ \E bs \in Runs : call' = <<"put", s, bs>> /\ Promised!Put(s, bs)
         \/ call' = <<"get", s>> /\ (Promised!GetPushed(s) \/ Promised!GetFromFile(s) \/ Promised!GetNothing(s))
         \/ \E b \in Bytes : call' = <<"unget", s, b>> /\ (Promised!Unget(s, b) \/ Promised!Refuse)
         \/ \E whence \in Whences, offset \in UNION {g.offsets : g \in Programs} :
              call' = <<"seek", s, whence, offset>> /\ Promised!Seek(s, whence, offset)
         \/ call' = <<"tell", s>> /\ Promised!Tell(s)
         \/ call' \in {<<"fflush", s>>, <<"clearerr", s>>, <<"setvbuf", s>>} /\ Promised!Observe
         \/ call' = <<"close", s>> /\ Promised!CloseFile(s)
         \/ \E p \in AllPaths, kind \in {"r", "w", "a"} :
              /\ call' = <<"reopen", s, p, kind>>
              /\ Promised!OpenFile(s, p, kind) \/ (reply' = "failed" /\ Promised!CloseFile(s))
  PROVE  Promised!Next
<1>1. Promised!OnStream(s)
  BY DEF Promised!OnStream, Promised!Runs, Runs, Promised!Whences, Whences, Promised!Kinds, AllPaths
<1>2. Promised!Step  BY <1>1 DEF Promised!Step
<1>3. QED  BY <1>2 DEF Promised!Next

\* Every step maps to a step or a stutter: one case per action.
LEMMA StepImplements ==
  ASSUME MaxOpens <= StreamsMax, \A g \in Programs : g.careful
  PROVE  StreamsInv /\ RegistryInv /\ [Next]_vars => [Promised!Next]_(Promised!vars)
<1>1. SUFFICES ASSUME StreamsInv, RegistryInv, [Next]_vars, UNCHANGED Promised!vars => FALSE
               PROVE  Promised!Next
  OBVIOUS
<1> USE <1>1
<1>2. ASSUME NEW s \in Streams, Fputc(s) \/ Fwrite(s) PROVE Promised!Next
  <2>1. phase # "ended"  BY <1>2 DEF Fputc, Fwrite, Usable, Calls, Running
  <2>2. PICK bs \in Runs, ok \in Nat : Put(s, bs, ok)
    <3>1. 0 \in Nat /\ 1 \in Nat /\ AllSucceed \in Nat  BY DEF AllSucceed
    <3>2. CASE Fputc(s)
      <4>1. PICK b \in Bytes, ok \in {0, AllSucceed} : Put(s, <<b>>, ok)  BY <3>2 DEF Fputc
      <4>2. <<b>> \in Runs /\ ok \in Nat  BY <3>1 DEF Runs
      <4>3. QED  BY <4>1, <4>2
    <3>3. CASE Fwrite(s)
      <4>1. PICK a \in Bytes, b \in Bytes, ok \in {0, 1, AllSucceed} : Put(s, <<a, b>>, ok)  BY <3>3 DEF Fwrite
      <4>2. <<a, b>> \in Runs /\ ok \in Nat  BY <3>1 DEF Runs
      <4>3. QED  BY <4>1, <4>2
    <3>4. QED  BY <1>2, <3>2, <3>3
  <2>3. Promised!Open(s) /\ Promised!Put(s, bs)  BY <2>1, <2>2, PutsImplements
  <2>4. call' = <<"put", s, bs>>  BY <2>2 DEF Put
  <2>5. QED  BY <2>1, <2>3, <2>4, PromisedStep
<1>3. ASSUME NEW s \in Streams, \/ Fflush(s) \/ Clearerr(s)
                                \/ Setvbuf(s, "full", 1) \/ Setvbuf(s, "linebuf", 0) \/ Setvbuf(s, "unbuf", 1)
      PROVE  Promised!Next
  <2>1. phase # "ended" /\ Promised!Open(s)
    <3>1. phase # "ended" /\ Open(s)  BY <1>3 DEF Fflush, Clearerr, Setvbuf, Usable, Calls, Running
    <3>2. QED  BY <3>1, OpenSeen
  <2>2. Promised!Observe
    <3>1. CASE Fflush(s)  BY <2>1, <3>1, FflushImplements
    <3>2. CASE Clearerr(s)  BY <2>1, <3>2, ClearerrImplements
    <3>3. CASE Setvbuf(s, "full", 1) \/ Setvbuf(s, "linebuf", 0) \/ Setvbuf(s, "unbuf", 1)
      <4>1. "full" \in {"full", "linebuf", "unbuf"} /\ "linebuf" \in {"full", "linebuf", "unbuf"}
            /\ "unbuf" \in {"full", "linebuf", "unbuf"} /\ 0 \in Nat /\ 1 \in Nat
        OBVIOUS
      <4>2. QED  BY <2>1, <3>3, <4>1, SetvbufImplements
    <3>4. QED  BY <1>3, <3>1, <3>2, <3>3
  <2>3. call' \in {<<"fflush", s>>, <<"clearerr", s>>, <<"setvbuf", s>>}
    BY <1>3 DEF Fflush, Clearerr, Setvbuf
  <2>4. QED  BY <2>1, <2>2, <2>3, PromisedStep
<1>4. ASSUME NEW s \in Streams, FgetcBuffered(s) \/ FgetcRefill(s)
      PROVE  Promised!Next
  <2>1. phase # "ended"  BY <1>4 DEF FgetcBuffered, FgetcRefill, Usable, Calls, Running
  <2>2. Promised!Open(s) /\ (Promised!GetPushed(s) \/ Promised!GetFromFile(s) \/ Promised!GetNothing(s))
    BY <1>4, <2>1, FgetcBufferedImplements, FgetcRefillImplements
  <2>3. call' = <<"get", s>>  BY <1>4 DEF FgetcBuffered, FgetcRefill
  <2>4. QED  BY <2>1, <2>2, <2>3, PromisedStep
<1>5. ASSUME NEW s \in Streams, NEW b \in Bytes, Ungetc(s, b) PROVE Promised!Next
  <2>1. phase # "ended"  BY <1>5 DEF Ungetc, Usable, Calls, Running
  <2>2. Promised!Open(s) /\ (Promised!Unget(s, b) \/ Promised!Refuse)  BY <1>5, <2>1, UngetcImplements
  <2>3. call' = <<"unget", s, b>>  BY <1>5 DEF Ungetc
  <2>4. QED  BY <2>1, <2>2, <2>3, PromisedStep
<1>6. ASSUME NEW s \in Streams, NEW whence \in Whences, NEW offset \in program.offsets, Fseek(s, whence, offset)
      PROVE  Promised!Next
  <2>1. phase # "ended"  BY <1>6 DEF Fseek, Usable, Calls, Running
  <2>2. offset \in Int /\ offset \in UNION {g.offsets : g \in Programs}  BY ProgramSeeks
  <2>3. program.careful  BY DEF StreamsInv, TypeOK
  <2>4. Promised!Open(s) /\ Promised!Seek(s, whence, offset)  BY <1>6, <2>1, <2>2, <2>3, FseekImplements
  <2>5. call' = <<"seek", s, whence, offset>>  BY <1>6 DEF Fseek
  <2>6. QED  BY <2>1, <2>2, <2>4, <2>5, PromisedStep
<1>7. ASSUME NEW s \in Streams, Ftell(s) \/ Fclose(s) PROVE Promised!Next
  <2>1. phase # "ended"  BY <1>7 DEF Ftell, Fclose, Usable, Calls, Running
  <2>2. CASE Ftell(s)
    <3>1. Promised!Open(s) /\ Promised!Tell(s) /\ call' = <<"tell", s>>  BY <2>2, FtellImplements DEF Ftell
    <3>2. QED  BY <2>1, <3>1, PromisedStep
  <2>3. CASE Fclose(s)
    <3>1. Promised!Open(s) /\ Promised!CloseFile(s) /\ call' = <<"close", s>>
      BY <2>1, <2>3, FcloseImplements DEF Fclose
    <3>2. QED  BY <2>1, <3>1, PromisedStep
  <2>4. QED  BY <1>7, <2>2, <2>3
<1>8. ASSUME NEW p \in program.paths, NEW m \in program.modes,
             Fopen(p, m) \/ \E s \in Streams : Freopen(s, p, m)
      PROVE  Promised!Next
  <2>1. phase # "ended"  BY <1>8 DEF Fopen, Freopen, Usable, Calls, Running
  <2>2. p \in AllPaths /\ m.kind \in {"r", "w", "a"}
    <3>1. p \in AllPaths /\ m \in Modes  BY ProgramOpens
    <3>2. QED  BY <3>1 DEF Modes
  <2>3. CASE Fopen(p, m)
    <3>1. PICK s \in Streams : /\ call' = <<"open", s, p, m.kind>> /\ ~Promised!Open(s)
                               /\ Promised!OpenFile(s, p, m.kind)
      BY <2>1, <2>3, FopenImplements
    <3>2. Promised!Step  BY <2>2, <3>1 DEF Promised!Step, Promised!Kinds, AllPaths
    <3>3. QED  BY <2>1, <3>2 DEF Promised!Next
  <2>4. CASE \E s \in Streams : Freopen(s, p, m)
    <3>1. PICK s \in Streams : Freopen(s, p, m)  BY <2>4
    <3>2. /\ Promised!Open(s)
          /\ Promised!OpenFile(s, p, m.kind) \/ (reply' = "failed" /\ Promised!CloseFile(s))
      BY <2>1, <3>1, FreopenImplements
    <3>3. call' = <<"reopen", s, p, m.kind>>  BY <3>1 DEF Freopen
    <3>4. QED  BY <2>1, <2>2, <3>2, <3>3, PromisedStep
  <2>5. QED  BY <1>8, <2>3, <2>4
<1>9. CASE Atexit
  <2>1. /\ phase # "ended" /\ phase' = phase /\ reply' \in {"ok", "failed"} /\ call' = <<"atexit">>
        /\ UNCHANGED <<files, fds, streams, back>>
    BY <1>9 DEF Atexit, Calls, Running, Still
  <2>2. Contents' = Contents /\ Views' = Views  BY <2>1, StillSeen
  <2>3. Promised!Observe  BY <2>1, <2>2, ObserveImplements
  <2>4. QED  BY <2>1, <2>3 DEF Promised!Next, Promised!Step
<1>10. CASE Exit \/ RunHandler \/ HandlerReturns \/ UNCHANGED vars
  <2>1. /\ UNCHANGED <<files, fds, streams, back, call, reply>>
        /\ (phase = "ended") <=> (phase' = "ended")
    BY <1>10 DEF Exit, RunHandler, HandlerReturns, Still, vars
  <2>2. Contents' = Contents /\ Views' = Views  BY <2>1, StillSeen
  <2>3. UNCHANGED Promised!vars  BY <2>1, <2>2 DEF Promised!vars, Views
  <2>4. QED  BY <2>3
<1>11. CASE SysExit
  <2>1. phase # "ended" /\ Promised!Exit /\ call' = <<"exit">>  BY <1>11, SysExitImplements DEF SysExit
  <2>2. QED  BY <2>1 DEF Promised!Next, Promised!Step
<1>12. CASE Quit
  <2>1. phase # "ended" /\ Promised!Quit /\ call' = <<"quit">>  BY <1>12, QuitImplements DEF Quit, Running
  <2>2. QED  BY <2>1 DEF Promised!Next, Promised!Step
<1>13. QED
  BY <1>2, <1>3, <1>4, <1>5, <1>6, <1>7, <1>8, <1>9, <1>10, <1>11, <1>12 DEF Next

\* Buffered streams do what streams without buffers do: what the program reads, where it stands, what it is told and
\* what the files hold once it has exited (stdio_core.c). Of a program that opens at most _STREAMS_MAX streams, and
\* that does not seek by what is unread (fseek counts from where the host has read to).
THEOREM StreamsImplement ==
  ASSUME MaxOpens <= StreamsMax, \A g \in Programs : g.careful
  PROVE  Spec => ImplementsStdio
<1>1. Init => StreamsInv /\ RegistryInv /\ Promised!Init
  BY InitStreams, RegistryInit, InitImplements
<1>2. StreamsInv /\ RegistryInv /\ [Next]_vars => StreamsInv' /\ RegistryInv'
  BY StepStreams, StepRegistry
<1>3. StreamsInv /\ RegistryInv /\ [Next]_vars => [Promised!Next]_(Promised!vars)
  BY StepImplements
<1>4. QED  BY <1>1, <1>2, <1>3, PTL DEF Spec, ImplementsStdio, Promised!Spec
=============================================================================
