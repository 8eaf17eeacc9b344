--------------------------- MODULE KvClientProofs ---------------------------
(***************************************************************************)
(* Proofs about KvClient for any number of operations and of replies that  *)
(* nobody asked for.  The tokens on their way, read and not parsed or not  *)
(* read, are one stream.  Framing says that it is a sequence of replies    *)
(* and where a client that may be used again stands in it; Mine says that, *)
(* while the server has repeated nothing, it holds at most the reply to    *)
(* the request in progress.                                                *)
(***************************************************************************)
EXTENDS KvClient, SequenceTheorems, TLAPS

Stream == input \o wire
Final(t) == t.i = Size[t.kind]

(* A reply follows a reply. *)
Framed(s) == \A n \in 1..Len(s) : n + 1 <= Len(s) /\ Final(s[n]) => s[n + 1].i = 1

(* The last reply is whole. *)
Whole(s) == s # <<>> => Final(s[Len(s)])

(* It is at most one reply, to request q. *)
ReplyTo(s, q) == \A n \in 1..Len(s) : s[n].q = q /\ (Final(s[n]) => n = Len(s))

(* Requests are whole; while the server is there the last reply is whole;  *)
(* before a request the stream starts at a reply.                          *)
Framing ==
    /\ client.st \in {"none", "live"} => ~served.partial
    /\ op.pc # "read" => input = <<>>
    /\ Framed(Stream)
    /\ served.open => Whole(Stream)
    /\ client.st \in {"none", "live"} /\ op.pc = "idle" /\ wire # <<>> => wire[1].i = 1

(* The server has been asked for at most the operation in progress, and    *)
(* its reply is all there is to read.                                      *)
Mine ==
    /\ client.st \in {"none", "live"} /\ op.pc # "read" => served.todo = <<>> /\ wire = <<>>
    /\ op.pc = "read" =>
         /\ served.todo = <<>> \/ (served.todo = <<op.q>> /\ Stream = <<>>)
         /\ ReplyTo(Stream, op.q)

KvInv == /\ ClosedOnce /\ Framing
         /\ count.extras = Extras => Mine /\ AnswerIsMine

-----------------------------------------------------------------------------
(* Tokens and streams of them *)

(* The size of a reply. *)
LEMMA SizeIs == \A k \in Kinds : Size[k] \in 1..3
  BY DEF Size, Kinds

(* A token is one of its reply. *)
LEMMA TokenIs ==
    ASSUME NEW t \in Tokens
    PROVE  t.q \in Nat /\ t.kind \in Kinds /\ t.i \in 1..3 /\ t.i <= Size[t.kind]
  BY DEF Tokens

(* What one more token means: a reply that leaves the client usable has    *)
(* been read to its end, with nothing behind it in the same read.          *)
LEMMA ParseIs ==
    ASSUME NEW t \in Tokens, NEW rest, NEW cmd \in Commands
    PROVE  /\ Parse(cmd, t, rest) \in {"go", "Ok", "Server", "Decode", "Protocol", "ResponseTooLarge"}
           /\ Parse(cmd, t, rest) \in {"Ok", "Server", "Decode"} => Final(t) /\ rest = <<>>
<1> DEFINE All == {"go", "Ok", "Server", "Decode", "Protocol", "ResponseTooLarge"}
           Good == {"Ok", "Server", "Decode"}
<1>1. t.kind \in Kinds /\ t.i \in 1..3 /\ Size[t.kind] \in 1..3 /\ t.i <= Size[t.kind]
  BY SizeIs, TokenIs
<1>2. ~(t.i < Size[t.kind]) => Final(t)
  BY <1>1 DEF Final
<1>3. \A x \in All : Complete(rest, x) \in All /\ (Complete(rest, x) \in Good => rest = <<>>)
  BY DEF Complete, Trailing
<1> HIDE DEF All, Good
<1>4. /\ "go" \in All /\ "Ok" \in All /\ "Server" \in All /\ "Decode" \in All /\ "Protocol" \in All
      /\ "ResponseTooLarge" \in All /\ "go" \notin Good /\ "Protocol" \notin Good /\ "ResponseTooLarge" \notin Good
  BY DEF All, Good
<1>5. ParseError(t, rest) \in All /\ (ParseError(t, rest) \in Good => Final(t) /\ rest = <<>>)
  BY <1>2, <1>3, <1>4 DEF ParseError
<1>6. ParseGet(t, rest) \in All /\ (ParseGet(t, rest) \in Good => Final(t) /\ rest = <<>>)
  BY <1>2, <1>3, <1>4 DEF ParseGet
<1>7. \A c \in BOOLEAN : ParseSet(t, rest, c) \in All /\ (ParseSet(t, rest, c) \in Good => Final(t) /\ rest = <<>>)
  BY <1>2, <1>3, <1>4 DEF ParseSet
<1>8. ParseDelete(t, rest) \in All /\ (ParseDelete(t, rest) \in Good => Final(t) /\ rest = <<>>)
  BY <1>2, <1>3, <1>4 DEF ParseDelete
<1>9. Parse(cmd, t, rest) \in All /\ (Parse(cmd, t, rest) \in Good => Final(t) /\ rest = <<>>)
  BY <1>5, <1>6, <1>7, <1>8 DEF Parse, Commands
<1> QED BY <1>9 DEF All, Good

(* The tokens of a reply. *)
LEMMA ReplyIs ==
    ASSUME NEW q \in Nat, NEW k \in Kinds
    PROVE  /\ ReplyTokens(q, k) \in Seq(Tokens) /\ Len(ReplyTokens(q, k)) = Size[k]
           /\ ReplyTokens(q, k) # <<>>
           /\ \A n \in 1..Size[k] : ReplyTokens(q, k)[n] = [q |-> q, kind |-> k, i |-> n]
<1> DEFINE r == ReplyTokens(q, k)
<1>1. Size[k] \in Nat /\ Size[k] > 0 /\ Size[k] \in 1..3
  BY SizeIs
<1>2. \A n \in 1..Size[k] : [q |-> q, kind |-> k, i |-> n] \in Tokens
  BY <1>1 DEF Tokens
<1>3. r \in [1..Size[k] -> Tokens]
  BY <1>2 DEF ReplyTokens
<1>4. r \in Seq(Tokens)
  BY <1>1, <1>3, SeqDef
<1>5. DOMAIN r = 1..Size[k] /\ Len(r) \in Nat /\ DOMAIN r = 1..Len(r)
  BY <1>3, <1>4, LenProperties
<1>6. Len(r) = Size[k]
  BY <1>1, <1>5
<1>7. r # <<>>
  BY <1>1, <1>6
<1> QED BY <1>4, <1>6, <1>7 DEF ReplyTokens

(* The stream without its first token. *)
LEMMA TailOf ==
    ASSUME NEW s \in Seq(Tokens), s # <<>>
    PROVE  /\ Tail(s) \in Seq(Tokens)
           /\ Framed(s) => Framed(Tail(s))
           /\ Whole(s) => Whole(Tail(s))
           /\ \A q : ReplyTo(s, q) => ReplyTo(Tail(s), q)
           /\ Framed(s) /\ Final(s[1]) /\ Tail(s) # <<>> => Tail(s)[1].i = 1
           /\ \A q : ReplyTo(s, q) /\ Final(s[1]) => Tail(s) = <<>>
<1> DEFINE t == Tail(s)
<1>1. /\ t \in Seq(Tokens) /\ Len(t) = Len(s) - 1 /\ Len(s) \in Nat \ {0}
      /\ \A i \in 1..Len(t) : t[i] = s[i + 1]
  BY HeadTailProperties, EmptySeq
<1>2. t # <<>> => Len(t) \in Nat \ {0}
  BY <1>1, EmptySeq
<1> HIDE DEF t
<1>3. Framed(s) => Framed(t)
  BY <1>1 DEF Framed
<1>4. Whole(s) => Whole(t)
  BY <1>1, <1>2 DEF Whole
<1>5. ASSUME NEW q, ReplyTo(s, q) PROVE ReplyTo(t, q)
  <2> SUFFICES ASSUME NEW n \in 1..Len(t)
               PROVE  t[n].q = q /\ (Final(t[n]) => n = Len(t))
    BY DEF ReplyTo
  <2>1. n + 1 \in 1..Len(s) /\ t[n] = s[n + 1] /\ n \in Nat /\ (n + 1 = Len(s) => n = Len(t))
    BY <1>1
  <2>2. s[n + 1].q = q /\ (Final(s[n + 1]) => n + 1 = Len(s))
    BY <1>5, <2>1 DEF ReplyTo
  <2> QED BY ONLY <2>1, <2>2
<1>6. Framed(s) /\ Final(s[1]) /\ t # <<>> => t[1].i = 1
  BY <1>1, <1>2 DEF Framed
<1>7. ASSUME NEW q, ReplyTo(s, q), Final(s[1]) PROVE t = <<>>
  <2>1. 1 \in 1..Len(s)
    BY <1>1
  <2>2. 1 = Len(s)
    BY <1>7, <2>1 DEF ReplyTo
  <2>3. Len(t) = 0
    BY <1>1, <2>2
  <2> QED BY <1>2, <2>3
<1> QED BY <1>1, <1>3, <1>4, <1>5, <1>6, <1>7 DEF t

(* A reply behind the stream. *)
LEMMA BehindIt ==
    ASSUME NEW s \in Seq(Tokens), NEW q \in Nat, NEW k \in Kinds
    PROVE  LET u == s \o ReplyTokens(q, k)
           IN  /\ u \in Seq(Tokens) /\ u # <<>>
               /\ s = <<>> => u[1].i = 1 /\ ReplyTo(u, q)
               /\ s # <<>> => u[1] = s[1]
               /\ Framed(s) /\ Whole(s) => Framed(u) /\ Whole(u)
<1> DEFINE r == ReplyTokens(q, k)
           u == s \o r
<1>1. /\ r \in Seq(Tokens) /\ Len(r) = Size[k] /\ Size[k] \in 1..3
      /\ \A n \in 1..Size[k] : r[n] = [q |-> q, kind |-> k, i |-> n]
  BY ReplyIs, SizeIs
<1>2. ASSUME NEW n \in 1..Len(r) PROVE r[n].q = q /\ r[n].i = n /\ (Final(r[n]) <=> n = Len(r))
  <2>1. r[n] = [q |-> q, kind |-> k, i |-> n]
    BY <1>1
  <2>2. r[n].q = q /\ r[n].kind = k /\ r[n].i = n
    BY <2>1
  <2> QED BY <1>1, <2>2 DEF Final
<1> HIDE DEF r
<1>3. /\ u \in Seq(Tokens) /\ Len(u) = Len(s) + Len(r) /\ Len(s) \in Nat /\ Len(r) \in 1..3
      /\ \A n \in 1..Len(s) + Len(r) : u[n] = IF n <= Len(s) THEN s[n] ELSE r[n - Len(s)]
  BY <1>1, ConcatProperties, LenProperties
<1> HIDE DEF u
<1>4. u # <<>> /\ (s # <<>> => Len(s) > 0) /\ (s = <<>> => Len(s) = 0)
  <2>1. Len(u) # 0
    BY <1>3
  <2>2. u # <<>>
    BY <1>3, <2>1, EmptySeq
  <2>3. (s # <<>> => Len(s) # 0) /\ (s = <<>> => Len(s) = 0)
    BY EmptySeq
  <2> QED BY <1>3, <2>2, <2>3
<1>5. /\ \A n \in 1..Len(s) : u[n] = s[n]
      /\ \A n \in 1..Len(r) : u[Len(s) + n] = r[n]
  <2>1. ASSUME NEW n \in 1..Len(s) PROVE u[n] = s[n]
    BY <1>3
  <2>2. ASSUME NEW n \in 1..Len(r) PROVE u[Len(s) + n] = r[n]
    <3>1. Len(s) + n \in 1..Len(s) + Len(r) /\ ~(Len(s) + n <= Len(s)) /\ (Len(s) + n) - Len(s) = n
      BY <1>3
    <3> QED BY <1>3, <3>1
  <2> QED BY <2>1, <2>2
<1>6. s = <<>> => u[1].i = 1 /\ ReplyTo(u, q)
  <2> SUFFICES ASSUME s = <<>> PROVE u[1].i = 1 /\ ReplyTo(u, q)
    OBVIOUS
  <2>1. Len(s) = 0 /\ Len(u) = Len(r) /\ \A n \in 1..Len(r) : u[n] = r[n]
    BY <1>3, <1>4
  <2>2. \A n \in 1..Len(u) : u[n].q = q /\ u[n].i = n /\ (Final(u[n]) => n = Len(u))
    BY <1>2, <2>1
  <2>3. u[1].i = 1
    <3>1. 1 \in 1..Len(u)
      BY <1>3, <2>1
    <3> QED BY <2>2, <3>1
  <2>4. ReplyTo(u, q)
    BY <2>2 DEF ReplyTo
  <2> QED BY <2>3, <2>4
<1>7. s # <<>> => u[1] = s[1]
  BY <1>3, <1>4
<1>8. ASSUME Framed(s), Whole(s) PROVE Framed(u) /\ Whole(u)
  <2>1. Whole(u)
    <3>1. ASSUME NEW m, m \in 1..3 PROVE m \in 1..m
      BY <3>1
    <3>2. u[Len(s) + Len(r)] = r[Len(r)] /\ Final(r[Len(r)])
      BY <1>2, <1>3, <1>5, <3>1
    <3> QED BY <1>3, <3>2 DEF Whole
  <2>2. ASSUME NEW n \in 1..Len(u), n + 1 <= Len(u), Final(u[n]) PROVE u[n + 1].i = 1
    <3>1. CASE n + 1 <= Len(s)
      BY <1>3, <1>8, <2>2, <3>1 DEF Framed
    <3>2. CASE n = Len(s)
      <4>1. u[Len(s) + 1] = r[1] /\ r[1].i = 1
        BY <1>2, <1>3, <1>5
      <4> QED BY <3>2, <4>1
    <3>3. CASE n > Len(s)
      <4> DEFINE m == n - Len(s)
      <4>1. m \in 1..Len(r) /\ m # Len(r) /\ u[n] = r[m]
        BY <1>3, <2>2, <3>3
      <4> QED BY <1>2, <2>2, <4>1
    <3> QED BY <1>3, <3>1, <3>2, <3>3
  <2> QED BY <2>1, <2>2 DEF Framed
<1> QED BY <1>3, <1>4, <1>6, <1>7, <1>8 DEF u, r

(* Parsing takes the first token of the stream. *)
LEMMA StreamIs ==
    ASSUME TypeOK
    PROVE  /\ Stream \in Seq(Tokens)
           /\ input = <<>> => Stream = wire
           /\ wire = <<>> => Stream = input
           /\ input # <<>> => /\ Head(input) \in Tokens /\ Tail(input) \in Seq(Tokens)
                              /\ Stream # <<>> /\ Stream[1] = Head(input)
                              /\ Tail(input) \o wire = Tail(Stream)
<1>1. input \in Seq(Tokens) /\ wire \in Seq(Tokens)
  BY DEF TypeOK
<1>2. /\ Stream \in Seq(Tokens) /\ Len(Stream) = Len(input) + Len(wire)
      /\ \A i \in 1..Len(input) + Len(wire) : Stream[i] = IF i <= Len(input) THEN input[i] ELSE wire[i - Len(input)]
      /\ Len(input) \in Nat /\ Len(wire) \in Nat
  BY <1>1, ConcatProperties, LenProperties DEF Stream
<1>3. (input = <<>> => Stream = wire) /\ (wire = <<>> => Stream = input)
  BY <1>1, ConcatEmptySeq DEF Stream
<1>4. ASSUME input # <<>>
      PROVE  /\ Head(input) \in Tokens /\ Tail(input) \in Seq(Tokens)
             /\ Stream # <<>> /\ Stream[1] = Head(input)
             /\ Tail(input) \o wire = Tail(Stream)
  <2> DEFINE t == Tail(input)
             u == t \o wire
             w == Tail(Stream)
  <2>1. /\ Head(input) \in Tokens /\ t \in Seq(Tokens) /\ Len(t) = Len(input) - 1 /\ Len(input) \in Nat \ {0}
        /\ \A i \in 1..Len(t) : t[i] = input[i + 1]
    BY <1>1, <1>4, HeadTailProperties, EmptySeq
  <2>2. Stream # <<>>
    BY <1>2, <2>1, EmptySeq
  <2>3. Stream[1] = Head(input)
    BY <1>2, <2>1
  <2>4. /\ w \in Seq(Tokens) /\ Len(w) = Len(Stream) - 1 /\ \A i \in 1..Len(w) : w[i] = Stream[i + 1]
    BY <1>2, <2>2, HeadTailProperties
  <2> HIDE DEF t, w
  <2>5. /\ u \in Seq(Tokens) /\ Len(u) = Len(t) + Len(wire)
        /\ \A i \in 1..Len(t) + Len(wire) : u[i] = IF i <= Len(t) THEN t[i] ELSE wire[i - Len(t)]
    BY <1>1, <2>1, ConcatProperties
  <2> HIDE DEF u
  <2>6. Len(u) = Len(w) /\ Len(u) \in Nat
    BY <1>2, <2>1, <2>4, <2>5
  <2>7. ASSUME NEW i \in 1..Len(u) PROVE u[i] = w[i]
    <3>1. w[i] = Stream[i + 1] /\ i + 1 \in 1..Len(input) + Len(wire)
      BY <1>2, <2>1, <2>4, <2>5, <2>6
    <3>2. CASE i <= Len(t)
      BY <1>2, <2>1, <2>5, <2>6, <3>1, <3>2
    <3>3. CASE ~(i <= Len(t))
      <4>1. u[i] = wire[i - Len(t)]
        BY <2>5, <3>3
      <4>2. Stream[i + 1] = wire[(i + 1) - Len(input)]
        BY <1>2, <2>1, <3>1, <3>3
      <4>3. i - Len(t) = (i + 1) - Len(input)
        BY <1>2, <2>1, <2>6
      <4> QED BY <3>1, <4>1, <4>2, <4>3
    <3> QED BY <3>2, <3>3
  <2>8. u = w
    BY <2>4, <2>5, <2>6, <2>7, SeqEqual
  <2> QED BY <2>1, <2>2, <2>3, <2>8 DEF t, u, w
<1> QED BY <1>2, <1>3, <1>4

(* What is left when the current read is thrown away. *)
LEMMA SuffixOf ==
    ASSUME TypeOK
    PROVE  /\ Framed(Stream) => Framed(wire)
           /\ Whole(Stream) => Whole(wire)
<1>1. wire \in Seq(Tokens) /\ Len(wire) \in Nat /\ Len(input) \in Nat /\ input \in Seq(Tokens)
  BY LenProperties DEF TypeOK
<1>2. /\ Stream \in Seq(Tokens) /\ Len(Stream) = Len(input) + Len(wire)
      /\ \A i \in 1..Len(input) + Len(wire) : Stream[i] = IF i <= Len(input) THEN input[i] ELSE wire[i - Len(input)]
  BY <1>1, ConcatProperties DEF Stream
<1>3. ASSUME NEW n \in 1..Len(wire)
      PROVE  Len(input) + n \in 1..Len(Stream) /\ Stream[Len(input) + n] = wire[n]
  <2>1. /\ Len(input) + n \in 1..Len(input) + Len(wire) /\ ~(Len(input) + n <= Len(input))
        /\ (Len(input) + n) - Len(input) = n
    BY <1>1
  <2> QED BY <1>2, <2>1
<1>4. ASSUME Framed(Stream), NEW n \in 1..Len(wire), n + 1 <= Len(wire), Final(wire[n])
      PROVE  wire[n + 1].i = 1
  <2> DEFINE m == Len(input) + n
  <2>1. n + 1 \in 1..Len(wire) /\ Len(input) + (n + 1) = m + 1
    BY <1>1, <1>4
  <2>2. m \in 1..Len(Stream) /\ Stream[m] = wire[n] /\ m + 1 \in 1..Len(Stream) /\ Stream[m + 1] = wire[n + 1]
    BY <1>3, <2>1
  <2> HIDE DEF m
  <2>3. Stream[m + 1].i = 1
    BY <1>2, <1>4, <2>2 DEF Framed
  <2> QED BY <2>2, <2>3
<1>5. ASSUME Whole(Stream), wire # <<>> PROVE Final(wire[Len(wire)])
  <2>1. Len(wire) \in 1..Len(wire)
    BY <1>1, <1>5, EmptySeq
  <2>2. Stream[Len(Stream)] = wire[Len(wire)] /\ Stream # <<>>
    BY <1>1, <1>2, <1>3, <2>1, EmptySeq
  <2> QED BY <1>5, <2>2 DEF Whole
<1> QED BY <1>4, <1>5 DEF Framed, Whole

(* The stream is cut off. *)
LEMMA CutOff ==
    ASSUME TypeOK, NEW m \in 0..Len(wire)
    PROVE  LET c == SubSeq(wire, 1, m)
               u == input \o c
           IN  /\ c \in Seq(Tokens)
               /\ wire = <<>> => c = <<>>
               /\ c # <<>> => wire # <<>> /\ c[1] = wire[1]
               /\ Framed(Stream) => Framed(u)
               /\ Stream = <<>> => u = <<>>
               /\ \A q : ReplyTo(Stream, q) => ReplyTo(u, q)
<1> DEFINE c == SubSeq(wire, 1, m)
           u == input \o c
<1>1. input \in Seq(Tokens) /\ wire \in Seq(Tokens) /\ Len(wire) \in Nat /\ Len(input) \in Nat /\ m \in Nat
  BY LenProperties DEF TypeOK
<1>2. /\ Stream \in Seq(Tokens) /\ Len(Stream) = Len(input) + Len(wire)
      /\ \A i \in 1..Len(input) + Len(wire) : Stream[i] = IF i <= Len(input) THEN input[i] ELSE wire[i - Len(input)]
  BY <1>1, ConcatProperties DEF Stream
<1>3. c \in Seq(Tokens) /\ Len(c) = m /\ \A i \in 1..m : c[i] = wire[i]
  <2>1. \A i \in 1..m : wire[i] \in Tokens
    BY <1>1, ElementOfSeq
  <2>2. /\ c \in Seq(Tokens) /\ Len(c) = IF 1 <= m THEN m - 1 + 1 ELSE 0
        /\ \A i \in 1..(m - 1 + 1) : c[i] = wire[1 + i - 1]
    BY <1>1, <2>1, SubSeqProperties
  <2> HIDE DEF c
  <2> QED BY <1>1, <2>2
<1> HIDE DEF c
<1>4. /\ u \in Seq(Tokens) /\ Len(u) = Len(input) + m
      /\ \A i \in 1..Len(input) + m : u[i] = IF i <= Len(input) THEN input[i] ELSE c[i - Len(input)]
  BY <1>1, <1>3, ConcatProperties
<1> HIDE DEF u
<1>5. /\ Len(u) \in Nat /\ Len(Stream) \in Nat /\ Len(u) <= Len(Stream)
      /\ \A i \in 1..Len(u) : u[i] = Stream[i]
  <2>1. Len(u) \in Nat /\ Len(Stream) \in Nat /\ Len(u) <= Len(Stream)
    BY <1>1, <1>2, <1>4
  <2>2. ASSUME NEW i \in 1..Len(u) PROVE u[i] = Stream[i]
    <3>1. i \in 1..Len(input) + m /\ i \in 1..Len(input) + Len(wire)
      BY <1>1, <1>2, <1>4
    <3>2. CASE i <= Len(input)
      BY <1>2, <1>4, <3>1, <3>2
    <3>3. CASE ~(i <= Len(input))
      <4>1. i - Len(input) \in 1..m
        BY <1>1, <3>1, <3>3
      <4> QED BY <1>2, <1>3, <1>4, <3>1, <3>3, <4>1
    <3> QED BY <3>2, <3>3
  <2> QED BY <2>1, <2>2
<1>6. /\ wire = <<>> => c = <<>>
      /\ c # <<>> => wire # <<>> /\ c[1] = wire[1]
  <2>1. wire = <<>> => Len(wire) = 0
    BY EmptySeq
  <2>2. c # <<>> => Len(c) > 0
    BY <1>3, EmptySeq
  <2> QED BY <1>1, <1>3, <2>1, <2>2
<1>7. Framed(Stream) => Framed(u)
  BY <1>5 DEF Framed
<1>8. Stream = <<>> => u = <<>>
  <2>1. Stream = <<>> => Len(Stream) = 0
    BY EmptySeq
  <2>2. u # <<>> => Len(u) > 0
    BY <1>4, EmptySeq
  <2> QED BY <1>5, <2>1, <2>2
<1>9. ASSUME NEW q, ReplyTo(Stream, q) PROVE ReplyTo(u, q)
  <2> SUFFICES ASSUME NEW n \in 1..Len(u) PROVE u[n].q = q /\ (Final(u[n]) => n = Len(u))
    BY DEF ReplyTo
  <2>1. n \in 1..Len(Stream) /\ u[n] = Stream[n] /\ (n = Len(Stream) => n = Len(u))
    BY <1>5
  <2>2. Stream[n].q = q /\ (Final(Stream[n]) => n = Len(Stream))
    BY <1>9, <2>1 DEF ReplyTo
  <2> QED BY ONLY <2>1, <2>2
<1> QED BY <1>3, <1>6, <1>7, <1>8, <1>9 DEF u, c

-----------------------------------------------------------------------------
(* Typing *)

Answer == [op : Nat, result : Results, reply : Nat]

(* An answer is added. *)
LEMMA AnswerType ==
    ASSUME TypeOK, NEW a \in Answer, answers' = Append(answers, a)
    PROVE  /\ answers' \in Seq(Answer) /\ Len(answers') = Len(answers) + 1 /\ Len(answers) \in Nat
           /\ \A n \in 1..Len(answers) : answers'[n] = answers[n]
           /\ answers'[Len(answers) + 1] = a
<1>1. answers \in Seq(Answer) /\ Len(answers) \in Nat
  BY LenProperties DEF TypeOK, Answer
<1> QED BY <1>1, AppendProperties

Clients == [st : {"none", "live", "closed", "freed"}, closes : Nat]

(* retire_client closes the connection of a live client, once. *)
LEMMA RetireIs ==
    ASSUME NEW c \in Clients
    PROVE  /\ RetireClient(c) \in Clients
           /\ c.st = "live" => RetireClient(c).st = "closed" /\ RetireClient(c).closes = c.closes + 1
           /\ c.st # "live" => RetireClient(c) = c
           /\ [RetireClient(c) EXCEPT !.st = "freed"] \in Clients
           /\ [RetireClient(c) EXCEPT !.st = "freed"].st = "freed"
           /\ [RetireClient(c) EXCEPT !.st = "freed"].closes = RetireClient(c).closes
<1> DEFINE d == RetireClient(c)
<1>1. c.st \in {"none", "live", "closed", "freed"} /\ c.closes \in Nat /\ c.closes + 1 \in Nat
  BY DEF Clients
<1>2. c.st = "live" => d \in Clients /\ d.st = "closed" /\ d.closes = c.closes + 1
  BY <1>1 DEF Clients, RetireClient, Close
<1>3. c.st # "live" => d = c
  BY DEF RetireClient
<1>4. d \in Clients
  BY <1>2, <1>3
<1> HIDE DEF d
<1>5. [d EXCEPT !.st = "freed"] \in Clients /\ [d EXCEPT !.st = "freed"].st = "freed" /\ [d EXCEPT !.st = "freed"].closes = d.closes
  BY <1>4 DEF Clients
<1> QED BY <1>2, <1>3, <1>4, <1>5 DEF d

(* What the end of an operation does to the client. *)
LEMMA FinishIs ==
    ASSUME TypeOK, op.pc = "read", NEW result \in Results, NEW q \in Nat, Finish(result, q)
    PROVE  /\ client.st = "live" /\ op' = NoOp /\ input' = <<>>
           /\ answers' = Append(answers, [op |-> op.q, result |-> result, reply |-> q])
           /\ \/ result \in {"Ok", "Server", "Decode", "Invalid"} /\ client' = client
              \/ /\ result \in {"Io", "Protocol", "ResponseTooLarge", "Closed"}
                 /\ client'.st = "closed" /\ client'.closes = client.closes + 1
                 /\ client' \in Clients
<1>1. client \in Clients /\ client.st = "live"
  BY DEF TypeOK, Clients
<1>2. Retires(result) <=> result \notin {"Ok", "Server", "Decode", "Invalid"}
  BY DEF Retires, Results
<1> QED BY <1>1, <1>2, RetireIs DEF Finish, Retires

(* The end of an operation keeps typing. *)
LEMMA FinishType ==
    ASSUME TypeOK, op.pc = "read", NEW result \in Results, NEW q \in Nat, Finish(result, q),
           UNCHANGED <<wire, served, count>>
    PROVE  TypeOK'
<1> DEFINE a == [op |-> op.q, result |-> result, reply |-> q]
<1>1. /\ client.st = "live" /\ op' = NoOp /\ input' = <<>> /\ answers' = Append(answers, a)
      /\ client' \in Clients
  BY FinishIs DEF TypeOK, Clients
<1>2. a \in Answer
  BY DEF Answer, TypeOK
<1> HIDE DEF a
<1>3. answers' \in Seq(Answer) /\ Len(answers') = Len(answers) + 1
  BY <1>1, <1>2, AnswerType
<1>4. NoOp \in [cmd : Commands \cup {"none"}, q : Nat, pc : {"idle", "send", "read"}, first : BOOLEAN]
      /\ NoOp.pc = "idle" /\ input' \in Seq(Tokens)
  BY <1>1, EmptySeq DEF NoOp
<1> QED BY <1>1, <1>3, <1>4 DEF TypeOK, Answer, Clients

(* The client's own steps keep typing. *)
LEMMA ClientType ==
    ASSUME TypeOK, Connect \/ Drop \/ Send \/ SendFails \/ \E cmd \in Commands : Begin(cmd)
    PROVE  TypeOK'
<1>1. CASE Connect
  BY <1>1 DEF Connect, TypeOK
<1>2. CASE Drop
  <2>1. client' \in Clients /\ UNCHANGED <<op, input, wire, served, count, answers>> /\ op.pc = "idle"
    BY <1>2, RetireIs DEF Drop, TypeOK, Clients
  <2> QED BY <2>1 DEF TypeOK, Clients
<1>3. CASE Send
  <2>1. /\ op' = [op EXCEPT !.pc = "read"] /\ op.pc = "send" /\ UNCHANGED <<client, input, wire, count, answers>>
        /\ served' = [served EXCEPT !.todo = IF served.open /\ ~served.partial THEN Append(@, op.q) ELSE @]
    BY <1>3 DEF Send
  <2>2. served.todo \in Seq(Nat) /\ op.q \in Nat
    BY DEF TypeOK
  <2>3. Append(served.todo, op.q) \in Seq(Nat)
    BY <2>2, AppendProperties
  <2>4. served' \in [todo : Seq(Nat), partial : BOOLEAN, open : BOOLEAN]
    BY <2>1, <2>2, <2>3 DEF TypeOK
  <2>5. op' \in [cmd : Commands \cup {"none"}, q : Nat, pc : {"idle", "send", "read"}, first : BOOLEAN]
        /\ op'.pc = "read" /\ op'.cmd = op.cmd
    BY <2>1 DEF TypeOK
  <2> QED BY <2>1, <2>4, <2>5 DEF TypeOK
<1>4. CASE SendFails
  <2> DEFINE a == [op |-> op.q, result |-> "Io", reply |-> 0]
  <2>1. /\ op.pc = "send" /\ op' = NoOp /\ answers' = Append(answers, a) /\ UNCHANGED <<input, wire, count>>
        /\ client' = RetireClient(client)
        /\ \E part \in BOOLEAN : served' = [served EXCEPT !.partial = @ \/ part]
    BY <1>4 DEF SendFails, SendRetires
  <2>2. a \in Answer
    BY DEF Answer, TypeOK, Results
  <2> HIDE DEF a
  <2>3. answers' \in Seq(Answer) /\ Len(answers') = Len(answers) + 1
    BY <2>1, <2>2, AnswerType
  <2>4. client' \in Clients
    BY <2>1, RetireIs DEF TypeOK, Clients
  <2>5. served' \in [todo : Seq(Nat), partial : BOOLEAN, open : BOOLEAN]
    BY <2>1 DEF TypeOK
  <2>6. NoOp \in [cmd : Commands \cup {"none"}, q : Nat, pc : {"idle", "send", "read"}, first : BOOLEAN]
        /\ NoOp.pc = "idle"
    BY DEF NoOp
  <2> QED BY <2>1, <2>3, <2>4, <2>5, <2>6 DEF TypeOK, Answer, Clients
<1>5. ASSUME NEW cmd \in Commands, Begin(cmd) PROVE TypeOK'
  <2>1. /\ op.pc = "idle" /\ count.ops < MaxOps /\ count' = [count EXCEPT !.ops = @ + 1]
        /\ UNCHANGED <<client, input, wire, served>>
        /\ \/ /\ \E r \in {"Closed", "Invalid"} : answers' = Append(answers, [op |-> count.ops + 1, result |-> r, reply |-> 0])
              /\ op' = op
           \/ client.st = "live" /\ op' = Started(cmd) /\ answers' = answers
    BY <1>5 DEF Begin, Answered
  <2>2. count.ops \in Nat /\ count' \in [ops : 0..MaxOps, extras : 0..Extras] /\ count'.ops = count.ops + 1
    <3>1. count.ops \in 0..MaxOps /\ MaxOps \in Nat /\ count \in [ops : 0..MaxOps, extras : 0..Extras]
      BY KvAssumption DEF TypeOK, KvConstants
    <3>2. count.ops + 1 \in 0..MaxOps /\ count.ops \in Nat
      BY <2>1, <3>1
    <3> QED BY <2>1, <3>1, <3>2
  <2>3. CASE /\ op' = op
             /\ \E r \in {"Closed", "Invalid"} : answers' = Append(answers, [op |-> count.ops + 1, result |-> r, reply |-> 0])
    <3>1. PICK r \in {"Closed", "Invalid"} : answers' = Append(answers, [op |-> count.ops + 1, result |-> r, reply |-> 0])
      BY <2>3
    <3> DEFINE a == [op |-> count.ops + 1, result |-> r, reply |-> 0]
    <3>2. a \in Answer
      BY <2>2 DEF Answer, Results
    <3> HIDE DEF a
    <3>3. answers' \in Seq(Answer) /\ Len(answers') = Len(answers) + 1 /\ Len(answers) \in Nat
      BY <3>1, <3>2, AnswerType DEF a
    <3> QED BY <2>1, <2>2, <2>3, <3>3 DEF TypeOK, Answer
  <2>4. CASE client.st = "live" /\ op' = Started(cmd) /\ answers' = answers
    <3>1. op' \in [cmd : Commands \cup {"none"}, q : Nat, pc : {"idle", "send", "read"}, first : BOOLEAN]
          /\ op'.pc = "send" /\ op'.cmd = cmd
      BY <2>2, <2>4 DEF Started
    <3> QED BY <2>1, <2>2, <2>4, <3>1 DEF TypeOK
  <2> QED BY <2>1, <2>3, <2>4
<1> QED BY <1>1, <1>2, <1>3, <1>4, <1>5

(* Reading and the server's steps keep typing. *)
LEMMA WireType ==
    ASSUME TypeOK,
           \/ Refill \/ ReadFails \/ EndOfFile \/ Token \/ Hangup
           \/ \E k \in Kinds : Reply(k) \/ Extra(k)
    PROVE  TypeOK'
<1>1. CASE Refill
  <2>1. PICK n \in 1..Len(wire) : input' = SubSeq(wire, 1, n) /\ wire' = SubSeq(wire, n + 1, Len(wire))
    BY <1>1 DEF Refill
  <2>2. wire \in Seq(Tokens) /\ Len(wire) \in Nat /\ \A i \in 1..Len(wire) : wire[i] \in Tokens
    BY LenProperties, ElementOfSeq DEF TypeOK
  <2>3. SubSeq(wire, 1, n) \in Seq(Tokens)
    BY <2>2, SubSeqProperties
  <2>4. SubSeq(wire, n + 1, Len(wire)) \in Seq(Tokens)
    <3>1. n + 1 \in Int /\ Len(wire) \in Int /\ \A i \in (n + 1)..Len(wire) : wire[i] \in Tokens
      BY <2>2
    <3> QED BY <3>1, SubSeqProperties
  <2> QED BY <1>1, <2>1, <2>3, <2>4 DEF Refill, TypeOK
<1>2. CASE ReadFails
  BY <1>2, FinishType DEF ReadFails, Results
<1>3. CASE EndOfFile
  <2>1. "Closed" \in Results /\ "Protocol" \in Results
    BY DEF Results
  <2> QED BY <1>3, <2>1, FinishType DEF EndOfFile
<1>4. CASE Token
  <2> DEFINE t == Head(input)
             result == Parse(op.cmd, t, Tail(input))
             q == IF result \in {"Ok", "Server", "Decode"} THEN t.q ELSE 0
  <2>1. /\ op.pc = "read" /\ input # <<>> /\ UNCHANGED <<wire, served, count>>
        /\ result = "go" => input' = Tail(input) /\ op' = [op EXCEPT !.first = FALSE] /\ UNCHANGED <<client, answers>>
        /\ result # "go" => Finish(result, q)
    BY <1>4 DEF Token
  <2>2. t \in Tokens /\ Tail(input) \in Seq(Tokens) /\ op.cmd \in Commands /\ t.q \in Nat
    BY <2>1, StreamIs, TokenIs DEF TypeOK
  <2>3. result \in {"go", "Ok", "Server", "Decode", "Protocol", "ResponseTooLarge"}
    BY <2>2, ParseIs
  <2>4. q \in Nat
    BY <2>2
  <2> HIDE DEF t, result, q
  <2>5. CASE result = "go"
    <3>1. /\ op' \in [cmd : Commands \cup {"none"}, q : Nat, pc : {"idle", "send", "read"}, first : BOOLEAN]
          /\ op'.pc = op.pc /\ op'.cmd = op.cmd
      BY <2>1, <2>5 DEF TypeOK
    <3> QED BY <2>1, <2>2, <2>5, <3>1 DEF TypeOK
  <2>6. CASE result # "go"
    <3>1. result \in Results
      BY <2>3, <2>6 DEF Results
    <3> QED BY <2>1, <2>4, <2>6, <3>1, FinishType
  <2> QED BY <2>5, <2>6
<1>5. CASE Hangup
  <2>1. PICK n \in 0..Len(wire) : wire' = SubSeq(wire, 1, n)
    BY <1>5 DEF Hangup
  <2>2. wire' \in Seq(Tokens)
    BY <2>1, CutOff
  <2>3. served' \in [todo : Seq(Nat), partial : BOOLEAN, open : BOOLEAN]
    BY <1>5 DEF Hangup, TypeOK
  <2> QED BY <1>5, <2>2, <2>3 DEF Hangup, TypeOK
<1>6. ASSUME NEW k \in Kinds, Reply(k) PROVE TypeOK'
  <2>1. /\ served.todo # <<>> /\ served' = [served EXCEPT !.todo = Tail(@)]
        /\ wire' = wire \o ReplyTokens(Head(served.todo), k)
        /\ UNCHANGED <<client, op, input, count, answers>>
    BY <1>6 DEF Reply
  <2>2. served.todo \in Seq(Nat) /\ wire \in Seq(Tokens)
    BY DEF TypeOK
  <2>3. Head(served.todo) \in Nat /\ Tail(served.todo) \in Seq(Nat)
    BY <2>1, <2>2, HeadTailProperties
  <2>4. wire' \in Seq(Tokens)
    BY <2>1, <2>2, <2>3, BehindIt
  <2>5. served' \in [todo : Seq(Nat), partial : BOOLEAN, open : BOOLEAN]
    BY <2>1, <2>3 DEF TypeOK
  <2> QED BY <2>1, <2>4, <2>5 DEF TypeOK
<1>7. ASSUME NEW k \in Kinds, Extra(k) PROVE TypeOK'
  <2>1. /\ count.extras > 0 /\ count' = [count EXCEPT !.extras = @ - 1]
        /\ wire' = wire \o ReplyTokens(0, k)
        /\ UNCHANGED <<client, op, input, served, answers>>
    BY <1>7 DEF Extra
  <2>2. wire' \in Seq(Tokens)
    BY <2>1, BehindIt DEF TypeOK
  <2>3. count.extras \in 0..Extras /\ Extras \in Nat /\ count \in [ops : 0..MaxOps, extras : 0..Extras]
    BY KvAssumption DEF TypeOK, KvConstants
  <2>4. count.extras - 1 \in 0..Extras
    BY <2>1, <2>3
  <2>5. count' \in [ops : 0..MaxOps, extras : 0..Extras] /\ count'.ops = count.ops
    BY <2>1, <2>3, <2>4
  <2> QED BY <2>1, <2>2, <2>5 DEF TypeOK
<1> QED BY <1>1, <1>2, <1>3, <1>4, <1>5, <1>6, <1>7

(* The initial state. *)
LEMMA InitHolds == Init => TypeOK /\ KvInv
<1> SUFFICES ASSUME Init PROVE TypeOK /\ KvInv
  OBVIOUS
<1>1. TypeOK
  <2>1. <<>> \in Seq(Tokens) /\ <<>> \in Seq(Nat) /\ <<>> \in Seq([op : Nat, result : Results, reply : Nat]) /\ Len(<<>>) = 0
    BY EmptySeq
  <2> QED BY <2>1, KvAssumption DEF Init, TypeOK, NoOp, KvConstants
<1>2. Stream = <<>> /\ Len(Stream) = 0
  BY EmptySeq, StreamIs, <1>1 DEF Init
<1>3. Framing
  BY <1>2 DEF Framing, Framed, Whole, Init, NoOp
<1>4. ClosedOnce
  BY DEF ClosedOnce, Init
<1>5. Mine /\ AnswerIsMine
  BY DEF Mine, AnswerIsMine, Init, NoOp
<1> QED BY <1>1, <1>3, <1>4, <1>5 DEF KvInv

-----------------------------------------------------------------------------
(* The invariant *)

(* An answer that is not a reply, or is the operation's own, leaves every  *)
(* operation with its own.                                                 *)
LEMMA AnswerMine ==
    ASSUME TypeOK, AnswerIsMine, NEW a \in Answer, answers' = Append(answers, a),
           a.result \in {"Ok", "Server", "Decode"} => a.reply = a.op
    PROVE  AnswerIsMine'
<1>1. /\ answers' \in Seq(Answer) /\ Len(answers') = Len(answers) + 1 /\ Len(answers) \in Nat
      /\ \A n \in 1..Len(answers) : answers'[n] = answers[n]
      /\ answers'[Len(answers) + 1] = a
  BY AnswerType
<1>2. DOMAIN answers' = 1..Len(answers') /\ DOMAIN answers = 1..Len(answers)
  BY <1>1, LenProperties DEF TypeOK
<1>3. ASSUME NEW i \in DOMAIN answers', answers'[i].result \in {"Ok", "Server", "Decode"}
      PROVE  answers'[i].reply = answers'[i].op
  <2>1. CASE i = Len(answers) + 1
    BY <1>1, <1>3, <2>1
  <2>2. CASE i # Len(answers) + 1
    <3>1. i \in DOMAIN answers /\ answers'[i] = answers[i]
      BY <1>1, <1>2, <2>2
    <3> QED BY <1>3, <3>1 DEF AnswerIsMine
  <2> QED BY <2>1, <2>2
<1> QED BY <1>3 DEF AnswerIsMine

(* The end of an operation: the connection is closed, or the stream stands *)
(* at the next reply.                                                      *)
LEMMA FinishInv ==
    ASSUME TypeOK, KvInv, op.pc = "read", NEW result \in Results, NEW q \in Nat, Finish(result, q),
           UNCHANGED <<wire, served, count>>,
           result \in {"Ok", "Server", "Decode"} =>
               /\ wire # <<>> => wire[1].i = 1
               /\ count.extras = Extras => wire = <<>> /\ served.todo = <<>> /\ q = op.q,
           result # "Invalid",
           Framed(wire), served.open => Whole(wire)
    PROVE  KvInv'
<1> DEFINE a == [op |-> op.q, result |-> result, reply |-> q]
<1>1. /\ client.st = "live" /\ op' = NoOp /\ input' = <<>>
      /\ answers' = Append(answers, a)
      /\ \/ result \in {"Ok", "Server", "Decode"} /\ client' = client
         \/ client'.st = "closed" /\ client'.closes = client.closes + 1
            /\ result \notin {"Ok", "Server", "Decode"}
  BY FinishIs
<1>2. NoOp.pc = "idle"
  BY DEF NoOp
<1>3. Stream' = wire
  <2>1. wire \in Seq(Tokens)
    BY DEF TypeOK
  <2> QED BY <1>1, <2>1, ConcatEmptySeq DEF Stream
<1>4. ClosedOnce'
  BY <1>1 DEF KvInv, ClosedOnce
<1>5. Framing'
  BY <1>1, <1>2, <1>3 DEF KvInv, Framing
<1>6. ASSUME count.extras = Extras PROVE Mine' /\ AnswerIsMine'
  <2>1. Mine'
    BY <1>1, <1>2, <1>6 DEF Mine
  <2>2. a \in Answer
    BY DEF Answer, TypeOK
  <2>3. a.result = result /\ a.reply = q /\ a.op = op.q
    OBVIOUS
  <2> HIDE DEF a
  <2>4. a.result \in {"Ok", "Server", "Decode"} => a.reply = a.op
    BY <1>6, <2>3
  <2>5. AnswerIsMine'
    BY <1>1, <1>6, <2>2, <2>4, AnswerMine DEF KvInv
  <2> QED BY <2>1, <2>5
<1> QED BY <1>4, <1>5, <1>6 DEF KvInv

(* The client's own steps. *)
LEMMA ClientInv ==
    ASSUME TypeOK, KvInv, Connect \/ Drop \/ Send \/ SendFails \/ \E cmd \in Commands : Begin(cmd)
    PROVE  KvInv'
<1>1. input' = input /\ wire' = wire /\ Stream' = Stream
  BY DEF Connect, Drop, Send, SendFails, Begin, Stream
<1>2. CASE Connect
  <2>1. client.st = "none" /\ client'.st = "live" /\ client'.closes = client.closes
        /\ UNCHANGED <<op, served, count, answers>>
    BY <1>2 DEF Connect, TypeOK
  <2>2. op.pc = "idle"
    BY <2>1 DEF TypeOK
  <2> QED BY <1>1, <2>1, <2>2 DEF KvInv, Framing, Mine, AnswerIsMine, ClosedOnce
<1>3. CASE Drop
  <2>1. /\ client.st \in {"live", "closed"} /\ UNCHANGED <<op, served, count, answers>> /\ op.pc = "idle"
        /\ client'.st = "freed" /\ client'.closes = RetireClient(client).closes
    BY <1>3, RetireIs DEF Drop, TypeOK, Clients
  <2>2. client'.closes = 1
    <3>1. client \in Clients /\ client.closes = IF client.st \in {"closed", "freed"} THEN 1 ELSE 0
      BY DEF KvInv, ClosedOnce, TypeOK, Clients
    <3>2. CASE client.st = "live"
      <4>1. client.closes = 0 /\ client.closes + 1 = 1
        BY <3>1, <3>2
      <4>2. RetireClient(client).closes = client.closes + 1
        BY <3>1, <3>2, RetireIs
      <4> QED BY <2>1, <4>1, <4>2
    <3>3. CASE client.st = "closed"
      BY <2>1, <3>1, <3>3, RetireIs
    <3> QED BY <2>1, <3>2, <3>3
  <2> QED BY <1>1, <2>1, <2>2 DEF KvInv, Framing, Mine, AnswerIsMine, ClosedOnce
<1>4. CASE Send
  <2>1. /\ op.pc = "send" /\ op'.pc = "read" /\ op'.q = op.q /\ UNCHANGED <<client, count, answers>>
        /\ served'.partial = served.partial /\ served'.open = served.open
        /\ served'.todo = served.todo \/ served'.todo = Append(served.todo, op.q)
    BY <1>4 DEF Send, TypeOK
  <2>2. client.st = "live" /\ input = <<>>
    BY <2>1 DEF TypeOK, KvInv, Framing
  <2>3. ClosedOnce' /\ Framing'
    BY <1>1, <2>1, <2>2 DEF KvInv, ClosedOnce, Framing
  <2>4. ASSUME count.extras = Extras PROVE Mine' /\ AnswerIsMine'
    <3>1. served.todo = <<>> /\ Stream = <<>>
      BY <2>1, <2>2, <2>4, StreamIs DEF KvInv, Mine
    <3>2. served'.todo = <<>> \/ served'.todo = <<op.q>>
      BY <2>1, <3>1
    <3>3. ReplyTo(Stream, op.q)
      BY <3>1, EmptySeq DEF ReplyTo
    <3> QED BY <1>1, <2>1, <2>4, <3>1, <3>2, <3>3 DEF KvInv, Mine, AnswerIsMine
  <2> QED BY <2>1, <2>3, <2>4 DEF KvInv
<1>5. CASE SendFails
  <2> DEFINE a == [op |-> op.q, result |-> "Io", reply |-> 0]
  <2>1. /\ op.pc = "send" /\ op' = NoOp /\ answers' = Append(answers, a) /\ count' = count
        /\ client' = RetireClient(client) /\ served'.open = served.open
    BY <1>5 DEF SendFails, SendRetires, TypeOK
  <2>2. client.st = "live" /\ client'.st = "closed" /\ client'.closes = client.closes + 1
    BY <2>1, RetireIs DEF TypeOK, Clients
  <2>3. ClosedOnce'
    BY <2>2 DEF KvInv, ClosedOnce
  <2>4. Framing'
    BY <1>1, <2>1, <2>2 DEF KvInv, Framing, NoOp
  <2>5. a \in Answer /\ a.result = "Io"
    BY DEF Answer, TypeOK, Results
  <2> HIDE DEF a
  <2>6. AnswerIsMine => AnswerIsMine'
    BY <2>1, <2>5, AnswerMine
  <2> QED BY <2>1, <2>2, <2>3, <2>4, <2>6 DEF KvInv, Mine, NoOp
<1>6. ASSUME NEW cmd \in Commands, Begin(cmd) PROVE KvInv'
  <2>1. /\ op.pc = "idle" /\ UNCHANGED <<client, served>> /\ count'.extras = count.extras
        /\ \/ /\ \E r \in {"Closed", "Invalid"} : answers' = Append(answers, [op |-> count.ops + 1, result |-> r, reply |-> 0])
              /\ op' = op
           \/ client.st = "live" /\ op' = Started(cmd) /\ answers' = answers
    BY <1>6 DEF Begin, Answered, TypeOK
  <2>2. op'.pc \in {"idle", "send"} /\ (op'.pc = "idle" => op' = op)
    BY <2>1 DEF Started
  <2>3. ClosedOnce' /\ Framing'
    BY <1>1, <2>1, <2>2 DEF KvInv, ClosedOnce, Framing
  <2>4. Mine => Mine'
    BY <1>1, <2>1, <2>2 DEF Mine
  <2>5. AnswerIsMine => AnswerIsMine'
    <3>1. CASE answers' = answers
      BY <3>1 DEF AnswerIsMine
    <3>2. CASE \E r \in {"Closed", "Invalid"} : answers' = Append(answers, [op |-> count.ops + 1, result |-> r, reply |-> 0])
      <4>1. PICK r \in {"Closed", "Invalid"} : answers' = Append(answers, [op |-> count.ops + 1, result |-> r, reply |-> 0])
        BY <3>2
      <4> DEFINE a == [op |-> count.ops + 1, result |-> r, reply |-> 0]
      <4>2. a \in Answer /\ a.result \notin {"Ok", "Server", "Decode"}
        <5>1. count.ops + 1 \in Nat
          BY KvAssumption DEF TypeOK, KvConstants
        <5> QED BY <5>1 DEF Answer, Results
      <4>3. answers' = Append(answers, a)
        BY <4>1
      <4> HIDE DEF a
      <4> QED BY <4>2, <4>3, AnswerMine
    <3> QED BY <2>1, <3>1, <3>2
  <2> QED BY <2>1, <2>3, <2>4, <2>5 DEF KvInv
<1> QED BY <1>2, <1>3, <1>4, <1>5, <1>6

(* Reading. *)
LEMMA ReadInv ==
    ASSUME TypeOK, KvInv, Refill \/ ReadFails \/ EndOfFile \/ Token
    PROVE  KvInv'
<1>1. Framed(Stream) /\ (served.open => Whole(Stream))
  BY DEF KvInv, Framing
<1>2. "Io" \in Results /\ "Closed" \in Results /\ "Protocol" \in Results
  BY DEF Results
<1>3. CASE Refill
  <2>1. /\ op.pc = "read" /\ input = <<>> /\ UNCHANGED <<client, op, served, count, answers>>
        /\ \E n \in 1..Len(wire) : input' = SubSeq(wire, 1, n) /\ wire' = SubSeq(wire, n + 1, Len(wire))
    BY <1>3 DEF Refill
  <2>2. PICK n \in 1..Len(wire) : input' = SubSeq(wire, 1, n) /\ wire' = SubSeq(wire, n + 1, Len(wire))
    BY <2>1
  <2>3. Stream' = Stream
    <3>1. wire \in Seq(Tokens) /\ Len(wire) \in Nat
      BY LenProperties DEF TypeOK
    <3>2. 1 \in 1..Len(wire) + 1 /\ n \in 0..Len(wire) /\ Len(wire) \in n..Len(wire)
      BY <3>1
    <3>3. SubSeq(wire, 1, n) \o SubSeq(wire, n + 1, Len(wire)) = SubSeq(wire, 1, Len(wire))
      BY <3>1, <3>2, ConcatAdjacentSubSeq
    <3>4. SubSeq(wire, 1, Len(wire)) = wire
      BY <3>1, SubSeqFull
    <3>5. Stream = wire
      BY <2>1, StreamIs
    <3> QED BY <2>2, <3>3, <3>4, <3>5 DEF Stream
  <2> QED BY <2>1, <2>3 DEF KvInv, ClosedOnce, Framing, Mine, AnswerIsMine
<1>4. CASE ReadFails
  <2>1. op.pc = "read" /\ Finish("Io", 0) /\ UNCHANGED <<wire, served, count>> /\ Stream = wire
    BY <1>4, StreamIs DEF ReadFails
  <2> QED BY <1>1, <1>2, <2>1, FinishInv
<1>5. CASE EndOfFile
  <2>1. /\ op.pc = "read" /\ UNCHANGED <<wire, served, count>> /\ Stream = wire
        /\ Finish("Closed", 0) \/ Finish("Protocol", 0)
    BY <1>5, StreamIs DEF EndOfFile
  <2> QED BY <1>1, <1>2, <2>1, FinishInv
<1>6. CASE Token
  <2> DEFINE t == Head(input)
             result == Parse(op.cmd, t, Tail(input))
             q == IF result \in {"Ok", "Server", "Decode"} THEN t.q ELSE 0
  <2>1. /\ op.pc = "read" /\ input # <<>> /\ UNCHANGED <<wire, served, count>>
        /\ result = "go" => input' = Tail(input) /\ op' = [op EXCEPT !.first = FALSE] /\ UNCHANGED <<client, answers>>
        /\ result # "go" => Finish(result, q)
    BY <1>6 DEF Token
  <2>2. /\ t \in Tokens /\ op.cmd \in Commands /\ t.q \in Nat
        /\ Stream \in Seq(Tokens) /\ Stream # <<>> /\ Stream[1] = t
        /\ Tail(input) \o wire = Tail(Stream)
    BY <2>1, StreamIs, TokenIs DEF TypeOK
  <2>3. /\ result \in {"go", "Ok", "Server", "Decode", "Protocol", "ResponseTooLarge"}
        /\ result \in {"Ok", "Server", "Decode"} => Final(t) /\ Tail(input) = <<>>
    BY <2>2, ParseIs
  <2>4. q \in Nat /\ (result \in {"Ok", "Server", "Decode"} => q = t.q)
    BY <2>2
  <2>5. /\ Framed(Tail(Stream)) /\ (served.open => Whole(Tail(Stream)))
        /\ Final(t) /\ Tail(Stream) # <<>> => Tail(Stream)[1].i = 1
        /\ ReplyTo(Stream, op.q) => ReplyTo(Tail(Stream), op.q)
        /\ ReplyTo(Stream, op.q) /\ Final(t) => Tail(Stream) = <<>>
    BY <1>1, <2>2, TailOf
  <2>6. count.extras = Extras => ReplyTo(Stream, op.q) /\ t.q = op.q /\ served.todo = <<>>
    <3> SUFFICES ASSUME count.extras = Extras PROVE ReplyTo(Stream, op.q) /\ t.q = op.q /\ served.todo = <<>>
      OBVIOUS
    <3>1. ReplyTo(Stream, op.q) /\ served.todo = <<>>
      BY <2>1, <2>2 DEF KvInv, Mine
    <3>2. 1 \in 1..Len(Stream)
      BY <2>2, EmptySeq
    <3> QED BY <2>2, <3>1, <3>2 DEF ReplyTo
  <2> HIDE DEF t, result, q
  <2>7. CASE result = "go"
    <3>1. op'.pc = op.pc /\ op'.q = op.q /\ UNCHANGED <<client, answers, served, count>>
      BY <2>1, <2>7 DEF TypeOK
    <3>2. Stream' = Tail(Stream)
      BY <2>1, <2>2, <2>7 DEF Stream
    <3>3. ClosedOnce' /\ Framing'
      BY <2>1, <2>5, <3>1, <3>2 DEF KvInv, ClosedOnce, Framing
    <3>4. count.extras = Extras => Mine' /\ AnswerIsMine'
      BY <2>1, <2>5, <2>6, <3>1, <3>2 DEF KvInv, Mine, AnswerIsMine
    <3> QED BY <3>1, <3>3, <3>4 DEF KvInv
  <2>8. CASE result \in {"Ok", "Server", "Decode"}
    <3>1. Tail(Stream) = wire
      <4>1. wire \in Seq(Tokens)
        BY DEF TypeOK
      <4> QED BY <2>2, <2>3, <2>8, <4>1, ConcatEmptySeq
    <3>2. result \in Results /\ result # "Invalid"
      BY <2>8 DEF Results
    <3>3. /\ wire # <<>> => wire[1].i = 1
          /\ count.extras = Extras => wire = <<>> /\ served.todo = <<>> /\ q = op.q
      BY <2>3, <2>4, <2>5, <2>6, <2>8, <3>1
    <3>4. Finish(result, q)
      BY <2>1, <2>8
    <3> QED BY <2>1, <2>4, <2>5, <3>1, <3>2, <3>3, <3>4, FinishInv
  <2>9. CASE result \in {"Protocol", "ResponseTooLarge"}
    <3>1. result \in Results /\ result # "Invalid" /\ result \notin {"Ok", "Server", "Decode"} /\ Finish(result, q)
      BY <2>1, <2>9 DEF Results
    <3>2. Framed(wire) /\ (served.open => Whole(wire))
      BY <1>1, SuffixOf
    <3> QED BY <2>1, <2>4, <3>1, <3>2, FinishInv
  <2> QED BY <2>3, <2>7, <2>8, <2>9
<1> QED BY <1>3, <1>4, <1>5, <1>6

(* The server. *)
LEMMA ServerInv ==
    ASSUME TypeOK, KvInv, Hangup \/ \E k \in Kinds : Reply(k) \/ Extra(k)
    PROVE  KvInv'
<1>1. Framed(Stream) /\ (served.open => Whole(Stream)) /\ input \in Seq(Tokens) /\ wire \in Seq(Tokens)
  BY DEF KvInv, Framing, TypeOK
<1>2. CASE Hangup
  <2>1. /\ UNCHANGED <<client, op, input, count, answers>> /\ served'.open = FALSE
        /\ served'.todo = served.todo /\ served'.partial = served.partial
    BY <1>2 DEF Hangup, TypeOK
  <2>2. PICK n \in 0..Len(wire) : wire' = SubSeq(wire, 1, n)
    BY <1>2 DEF Hangup
  <2>3. /\ wire = <<>> => wire' = <<>>
        /\ wire' # <<>> => wire # <<>> /\ wire'[1] = wire[1]
        /\ Framed(Stream')
        /\ Stream = <<>> => Stream' = <<>>
        /\ \A q : ReplyTo(Stream, q) => ReplyTo(Stream', q)
    BY <1>1, <2>1, <2>2, CutOff DEF Stream
  <2>4. ClosedOnce' /\ Framing'
    BY <2>1, <2>3 DEF KvInv, ClosedOnce, Framing
  <2>5. count.extras = Extras => Mine' /\ AnswerIsMine'
    BY <2>1, <2>3 DEF KvInv, Mine, AnswerIsMine
  <2> QED BY <2>1, <2>4, <2>5 DEF KvInv
<1>3. ASSUME NEW k \in Kinds, NEW q \in Nat, served.open, served'.open = served.open,
             served'.partial = served.partial,
             wire' = wire \o ReplyTokens(q, k), UNCHANGED <<client, op, input, answers>>
      PROVE  /\ ClosedOnce' /\ Framing' /\ (AnswerIsMine => AnswerIsMine')
             /\ Stream = <<>> => ReplyTo(Stream', q)
  <2> DEFINE r == ReplyTokens(q, k)
  <2>1. r \in Seq(Tokens)
    BY ReplyIs
  <2>2. Stream' = Stream \o r
    <3> HIDE DEF r
    <3>1. (input \o wire) \o r = input \o (wire \o r)
      BY <1>1, <2>1, ConcatAssociative
    <3>2. input' = input /\ wire' = wire \o r
      BY <1>3 DEF r
    <3> QED BY <3>1, <3>2 DEF Stream
  <2>3. Framed(Stream') /\ Whole(Stream') /\ (Stream = <<>> => ReplyTo(Stream', q))
    BY <1>1, <1>3, <2>2, StreamIs, BehindIt
  <2>4. wire'[1].i = 1 \/ (wire # <<>> /\ wire'[1] = wire[1])
    BY <1>1, <1>3, BehindIt
  <2>5. Framing'
    BY <1>3, <2>3, <2>4 DEF KvInv, Framing
  <2> QED BY <1>3, <2>3, <2>5 DEF KvInv, ClosedOnce, AnswerIsMine
<1>4. ASSUME NEW k \in Kinds, Reply(k) PROVE KvInv'
  <2>1. /\ served.open /\ served.todo # <<>> /\ served'.todo = Tail(served.todo)
        /\ served'.open = served.open /\ served'.partial = served.partial
        /\ wire' = wire \o ReplyTokens(Head(served.todo), k)
        /\ UNCHANGED <<client, op, input, count, answers>>
    BY <1>4 DEF Reply, TypeOK
  <2>2. Head(served.todo) \in Nat
    BY <2>1, HeadTailProperties DEF TypeOK
  <2>3. /\ ClosedOnce' /\ Framing' /\ (AnswerIsMine => AnswerIsMine')
        /\ Stream = <<>> => ReplyTo(Stream', Head(served.todo))
    BY <1>3, <2>1, <2>2
  <2>4. ASSUME count.extras = Extras PROVE Mine'
    <3>1. CASE op.pc = "read"
      <4>1. served.todo = <<op.q>> /\ Stream = <<>>
        BY <2>1, <2>4, <3>1 DEF KvInv, Mine
      <4>2. Head(served.todo) = op.q /\ served'.todo = <<>>
        BY <2>1, <4>1
      <4> QED BY <2>1, <2>3, <3>1, <4>1, <4>2 DEF Mine
    <3>2. CASE op.pc # "read"
      BY <2>1, <2>4, <3>2 DEF KvInv, Mine
    <3> QED BY <3>1, <3>2
  <2> QED BY <2>1, <2>3, <2>4 DEF KvInv
<1>5. ASSUME NEW k \in Kinds, Extra(k) PROVE KvInv'
  <2>1. /\ served.open /\ count'.extras = count.extras - 1 /\ served' = served
        /\ wire' = wire \o ReplyTokens(0, k) /\ UNCHANGED <<client, op, input, answers>>
        /\ count.extras > 0 /\ count.extras \in 0..Extras
    BY <1>5 DEF Extra, TypeOK
  <2>2. ClosedOnce' /\ Framing'
    BY <1>3, <2>1
  <2>3. count'.extras # Extras
    BY <2>1, KvAssumption DEF KvConstants
  <2> QED BY <2>2, <2>3 DEF KvInv
<1> QED BY <1>2, <1>4, <1>5

(* KvInv is an invariant of pkg.kv's client: whatever ends an operation,   *)
(* the stream stays a sequence of replies, and while the server repeats    *)
(* nothing it holds at most the reply to the request in progress.          *)
THEOREM KvInvariant == Spec => [](TypeOK /\ KvInv)
<1>1. TypeOK /\ KvInv /\ [Next]_vars => (TypeOK /\ KvInv)'
  <2> SUFFICES ASSUME TypeOK, KvInv, [Next]_vars PROVE (TypeOK /\ KvInv)'
    OBVIOUS
  <2>1. CASE Next /\ ~Over
    BY <2>1, ClientType, WireType, ClientInv, ReadInv, ServerInv DEF Next
  <2>2. CASE UNCHANGED vars
    <3>1. UNCHANGED <<client, op, input, wire, served, count, answers>>
      BY <2>2 DEF vars
    <3>2. TypeOK'
      BY <3>1 DEF TypeOK
    <3>3. KvInv'
      BY <3>1 DEF KvInv, ClosedOnce, Framing, Mine, AnswerIsMine, Stream
    <3> QED BY <3>2, <3>3
  <2> QED BY <2>1, <2>2 DEF Next, Over
<1> QED BY <1>1, InitHolds, PTL DEF Spec

(* The Redis client's promise: the server never sees a request behind a    *)
(* part of another, a usable client stands between two replies, the        *)
(* connection is closed once and, until the server repeats a reply, an     *)
(* operation answers with its own.                                         *)
THEOREM RepliesAreMatched == Spec => []RepliesMatched
<1>1. TypeOK /\ KvInv => RepliesMatched
  BY DEF KvInv, Framing, RepliesMatched, RequestsWhole, InSync
<1> QED BY <1>1, KvInvariant, PTL
=============================================================================
