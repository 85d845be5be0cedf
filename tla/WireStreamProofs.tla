-------------------------- MODULE WireStreamProofs --------------------------
(***************************************************************************)
(* The two invariants of WireStream, for every size, threshold, header,    *)
(* algorithm and number of messages, batches, connections and moves.       *)
(***************************************************************************)
EXTENDS WireStream, SequenceTheorems, TLAPS

(***************************************************************************)
(* The inductive invariant.  It says of each direction how the frames on   *)
(* the way continue what the receiver has, so that the last of them ends   *)
(* where the sender is.                                                    *)
(***************************************************************************)
Kinds == {"plain", "compressed", "part"}
FrameType == [kind : Kinds, size : Nat, msgs : Seq(Nat), at : Nat]
EndType == [enabled : BOOLEAN, out : Nat, in : Nat]

Types ==
  /\ link \in {"none", "up", "lost"}
  /\ compressor \in EndType /\ peer \in EndType
  /\ to_server \in Seq(FrameType) /\ to_client \in Seq(FrameType)
  /\ written \in Seq(Nat) /\ heard \in Seq(Nat)
  /\ answers \in Seq(Nat) /\ got \in Seq(Nat)
  /\ fits \in BOOLEAN /\ dropped \in BOOLEAN

\* Messages are numbered in the order they were given to the sender.
Numbered(s) == \A i \in 1..Len(s) : s[i] = i

\* How far a frame moves its stream.
Step(f) == IF f.kind = "compressed" THEN 1 ELSE 0

\* A frame of one or more successive messages that an end like e can read.
Readable(f, e) ==
  /\ f.kind # "part" /\ (f.kind = "compressed" => e.enabled)
  /\ Len(f.msgs) > 0
  /\ \A i \in 1..Len(f.msgs) : f.msgs[i] = f.msgs[1] + i - 1

\* The frames q carry the messages from number first on, and continue a stream
\* that is at "in".
Chain(q, first, in) ==
  /\ q # << >> => q[1].msgs[1] = first /\ q[1].at = in + Step(q[1])
  /\ \A k \in 1..(Len(q) - 1) :
       /\ q[k + 1].msgs[1] = q[k].msgs[1] + Len(q[k].msgs)
       /\ q[k + 1].at = q[k].at + Step(q[k + 1])

\* None of them carries the message of number next, or a later one.
Before(q, next) == \A k \in 1..Len(q) : q[k].msgs[1] + Len(q[k].msgs) <= next

\* They end before message next, and their stream is at "out" then.
Ends(q, first, in, next, out) ==
  /\ q = << >> => next = first /\ out = in
  /\ q # << >> =>
       /\ next = q[Len(q)].msgs[1] + Len(q[Len(q)].msgs)
       /\ out = q[Len(q)].at

AllReadable(q, e) == \A k \in 1..Len(q) : Readable(q[k], e)

\* The receiver, whose end is e, has the messages h of the n that were sent, and
\* the frames q on the way continue them.
Flow(q, h, e, n) ==
  /\ Numbered(h) /\ Len(h) <= n
  /\ AllReadable(q, e) /\ Chain(q, Len(h) + 1, e.in) /\ Before(q, n + 1)

\* Nothing is missing: with q the receiver has all n messages, and its stream is
\* where the sender's is.
Complete(q, h, e, n, out) == Ends(q, Len(h) + 1, e.in, n + 1, out)

\* From the client to the server, unless a payload was split.
Upstream ==
  /\ Numbered(written)
  /\ fits =>
       /\ Flow(to_server, heard, peer, Len(written))
       /\ link = "up" => Complete(to_server, heard, peer, Len(written), compressor.out)

\* From the server to the client, unless a reader dropped a frame.
Downstream ==
  /\ Numbered(answers)
  /\ ~dropped =>
       /\ Flow(to_client, got, compressor, Len(answers))
       /\ link = "up" => Complete(to_client, got, compressor, Len(answers), peer.out)

\* Without a connection everything is as at the beginning, and nothing
\* reaches the server over a lost one; both ends compress, or none does.
Quiet ==
  /\ link # "up" => to_server = << >>
  /\ link = "none" =>
       /\ to_client = << >> /\ written = << >> /\ heard = << >>
       /\ answers = << >> /\ got = << >> /\ fits /\ ~dropped
  /\ compressor.enabled = peer.enabled

IInv == Types /\ Upstream /\ Downstream /\ Quiet

-----------------------------------------------------------------------------
(***************************************************************************)
(* Frames on the way: received at the front, sent at the back, lost from   *)
(* the back.                                                               *)
(***************************************************************************)

\* Sums, stated once for numbers that have no structure.
LEMMA Sums ==
  /\ \A a, b \in Nat : a + 1 + b = a + b + 1
  /\ \A a, b, c \in Nat : a + 1 + b <= c + 1 => a + b <= c
OBVIOUS

LEMMA SumGrows ==
  ASSUME NEW a \in Nat, NEW b \in Nat, NEW c \in Nat, NEW d \in Nat, a + b <= c
  PROVE  a + b <= c + d
OBVIOUS

\* What is kept of a sequence that is cut.
LEMMA CutAt ==
  ASSUME NEW S, NEW s \in Seq(S), NEW n \in 0..Len(s)
  PROVE  /\ SubSeq(s, 1, n) \in Seq(S) /\ Len(SubSeq(s, 1, n)) = n
         /\ \A i \in 1..n : SubSeq(s, 1, n)[i] = s[i]
<1>1. n \in Int /\ 1 \in Int /\ \A i \in 1..n : s[i] \in S
  OBVIOUS
<1>2. /\ SubSeq(s, 1, n) \in Seq(S)
      /\ Len(SubSeq(s, 1, n)) = IF 1 <= n THEN n - 1 + 1 ELSE 0
      /\ \A i \in 1..n - 1 + 1 : SubSeq(s, 1, n)[i] = s[1 + i - 1]
  BY <1>1, SubSeqProperties
<1> QED
  BY <1>2

\* A number of a non-empty sequence of numbers.
LEMMA FirstNumber ==
  ASSUME NEW m \in Seq(Nat), Len(m) > 0
  PROVE  Len(m) \in Nat /\ m[1] \in Nat
OBVIOUS

\* The rest of a sequence is made of its elements.
LEMMA TailElements ==
  ASSUME NEW S, NEW q \in Seq(S), q # << >>
  PROVE  /\ Tail(q) \in Seq(S) /\ Head(q) = q[1] /\ q[1] \in S
         /\ Len(Tail(q)) = Len(q) - 1 /\ Len(q) \in Nat /\ Len(q) > 0
         /\ \A k \in 1..(Len(q) - 1) : Tail(q)[k] = q[k + 1]
OBVIOUS

\* A longer sequence begins with the shorter one.
LEMMA AppendElements ==
  ASSUME NEW S, NEW q \in Seq(S), NEW f \in S
  PROVE  /\ Append(q, f) \in Seq(S) /\ Len(Append(q, f)) = Len(q) + 1
         /\ Append(q, f)[Len(q) + 1] = f /\ Append(q, f) # << >>
         /\ \A k \in 1..Len(q) : Append(q, f)[k] = q[k]
OBVIOUS

\* The receiver takes the first frame: the others continue what it has then.
LEMMA ChainReceived ==
  ASSUME NEW q \in Seq(FrameType), q # << >>, NEW first \in Nat, NEW in \in Nat,
         Chain(q, first, in)
  PROVE  Chain(Tail(q), first + Len(q[1].msgs), in + Step(q[1]))
<1> DEFINE r == Tail(q)
<1>1. /\ r \in Seq(FrameType) /\ Len(r) = Len(q) - 1 /\ Len(q) \in Nat
      /\ \A k \in 1..(Len(q) - 1) : r[k] = q[k + 1]
  BY TailElements
<1>2. q[1].msgs[1] = first /\ q[1].at = in + Step(q[1])
  BY DEF Chain
<1> HIDE DEF r
<1>3. ASSUME r # << >>
      PROVE  /\ r[1].msgs[1] = first + Len(q[1].msgs)
             /\ r[1].at = in + Step(q[1]) + Step(r[1])
  <2>1. 1 \in 1..(Len(q) - 1) /\ r[1] = q[2]
    BY <1>1, <1>3
  <2>2. /\ q[1 + 1].msgs[1] = q[1].msgs[1] + Len(q[1].msgs)
        /\ q[1 + 1].at = q[1].at + Step(q[1 + 1])
    BY <2>1 DEF Chain
  <2> QED BY <1>2, <2>1, <2>2
<1>4. ASSUME NEW k \in 1..(Len(r) - 1)
      PROVE  /\ r[k + 1].msgs[1] = r[k].msgs[1] + Len(r[k].msgs)
             /\ r[k + 1].at = r[k].at + Step(r[k + 1])
  <2>1. k + 1 \in 1..(Len(q) - 1) /\ k \in 1..(Len(q) - 1) /\ k \in Nat
    BY <1>1
  <2>2. r[k] = q[k + 1] /\ r[k + 1] = q[k + 1 + 1]
    BY <1>1, <2>1
  <2>3. /\ q[k + 1 + 1].msgs[1] = q[k + 1].msgs[1] + Len(q[k + 1].msgs)
        /\ q[k + 1 + 1].at = q[k + 1].at + Step(q[k + 1 + 1])
    BY <2>1 DEF Chain
  <2> QED BY <2>2, <2>3
<1> QED BY <1>3, <1>4 DEF Chain, r

\* ... and they end where they ended.
LEMMA EndsReceived ==
  ASSUME NEW q \in Seq(FrameType), q # << >>, NEW first \in Nat, NEW in \in Nat,
         NEW next, NEW out, Chain(q, first, in), Ends(q, first, in, next, out)
  PROVE  Ends(Tail(q), first + Len(q[1].msgs), in + Step(q[1]), next, out)
<1> DEFINE r == Tail(q)
<1>1. /\ r \in Seq(FrameType) /\ Len(r) = Len(q) - 1 /\ Len(q) \in Nat
      /\ \A k \in 1..(Len(q) - 1) : r[k] = q[k + 1]
  BY TailElements
<1>2. q[1].msgs[1] = first /\ q[1].at = in + Step(q[1])
  BY DEF Chain
<1>3. next = q[Len(q)].msgs[1] + Len(q[Len(q)].msgs) /\ out = q[Len(q)].at
  BY DEF Ends
<1> HIDE DEF r
<1>4. CASE r = << >>
  <2>1. Len(q) = 1
    BY <1>1, <1>4
  <2> QED BY <1>2, <1>3, <1>4, <2>1 DEF Ends, r
<1>5. CASE r # << >>
  <2>1. Len(r) \in 1..(Len(q) - 1) /\ r[Len(r)] = q[Len(q)]
    BY <1>1, <1>5
  <2> QED BY <1>3, <1>5, <2>1 DEF Ends, r
<1> QED BY <1>4, <1>5

\* The others are as they were.
LEMMA RestReceived ==
  ASSUME NEW q \in Seq(FrameType), q # << >>, NEW e, NEW next,
         AllReadable(q, e), Before(q, next)
  PROVE  AllReadable(Tail(q), e) /\ Before(Tail(q), next)
<1>1. /\ Len(Tail(q)) = Len(q) - 1 /\ Len(q) \in Nat
      /\ \A k \in 1..(Len(q) - 1) : Tail(q)[k] = q[k + 1] /\ k + 1 \in 1..Len(q)
  BY TailElements
<1> QED BY <1>1 DEF AllReadable, Before

\* A frame is sent that continues what was sent: so do all of them.
LEMMA ChainSent ==
  ASSUME NEW q \in Seq(FrameType), NEW f \in FrameType, NEW first \in Nat, NEW in \in Nat,
         NEW next, NEW out, Chain(q, first, in), Ends(q, first, in, next, out),
         f.msgs[1] = next, f.at = out + Step(f)
  PROVE  /\ Chain(Append(q, f), first, in)
         /\ Ends(Append(q, f), first, in, next + Len(f.msgs), f.at)
<1> DEFINE r == Append(q, f)
<1>1. /\ r \in Seq(FrameType) /\ Len(r) = Len(q) + 1 /\ Len(q) \in Nat
      /\ r[Len(q) + 1] = f /\ r # << >> /\ \A k \in 1..Len(q) : r[k] = q[k]
  BY AppendElements
<1> HIDE DEF r
<1>2. r[1].msgs[1] = first /\ r[1].at = in + Step(r[1])
  <2>1. CASE q = << >>
    BY <1>1, <2>1 DEF Ends
  <2>2. CASE q # << >>
    <3>1. r[1] = q[1]
      BY <1>1, <2>2
    <3> QED BY <2>2, <3>1 DEF Chain
  <2> QED BY <2>1, <2>2
<1>3. ASSUME NEW k \in 1..(Len(r) - 1)
      PROVE  /\ r[k + 1].msgs[1] = r[k].msgs[1] + Len(r[k].msgs)
             /\ r[k + 1].at = r[k].at + Step(r[k + 1])
  <2>1. k \in 1..Len(q) /\ r[k] = q[k] /\ q # << >>
    BY <1>1
  <2>2. CASE k = Len(q)
    BY <1>1, <2>1, <2>2 DEF Ends
  <2>3. CASE k # Len(q)
    <3>1. k \in 1..(Len(q) - 1) /\ k + 1 \in 1..Len(q)
      BY <1>1, <2>1, <2>3
    <3>2. r[k + 1] = q[k + 1]
      BY <1>1, <3>1
    <3> QED BY <2>1, <3>1, <3>2 DEF Chain
  <2> QED BY <2>2, <2>3
<1>4. Ends(r, first, in, next + Len(f.msgs), f.at)
  BY <1>1 DEF Ends
<1> QED BY <1>2, <1>3, <1>4 DEF Chain, r

\* ... and the receiver can read it if it could read the others.
LEMMA RestSent ==
  ASSUME NEW q \in Seq(FrameType), NEW f \in FrameType, NEW e, NEW next \in Nat,
         AllReadable(q, e), Before(q, next), Readable(f, e), f.msgs[1] = next
  PROVE  /\ AllReadable(Append(q, f), e)
         /\ Before(Append(q, f), next + Len(f.msgs))
<1> DEFINE r == Append(q, f)
<1>1. /\ r \in Seq(FrameType) /\ Len(r) = Len(q) + 1 /\ Len(q) \in Nat
      /\ r[Len(q) + 1] = f /\ \A k \in 1..Len(q) : r[k] = q[k]
  BY AppendElements
<1> HIDE DEF r
<1>2. ASSUME NEW k \in 1..Len(r)
      PROVE  Readable(r[k], e) /\ r[k].msgs[1] + Len(r[k].msgs) <= next + Len(f.msgs)
  <2>1. CASE k = Len(q) + 1
    <3>1. Len(f.msgs) \in Nat
      BY DEF FrameType
    <3> QED BY <1>1, <2>1, <3>1
  <2>2. CASE k # Len(q) + 1
    <3>1. k \in 1..Len(q) /\ r[k] = q[k] /\ q[k] \in FrameType
      BY <1>1, <2>2
    <3>2. Readable(q[k], e) /\ q[k].msgs[1] + Len(q[k].msgs) <= next
      BY <3>1 DEF AllReadable, Before
    <3>3. f.msgs \in Seq(Nat) /\ q[k].msgs \in Seq(Nat)
      BY <3>1 DEF FrameType
    <3>4. Len(q[k].msgs) > 0
      BY <3>2 DEF Readable
    <3>5. Len(f.msgs) \in Nat /\ Len(q[k].msgs) \in Nat /\ q[k].msgs[1] \in Nat
      BY <3>3, <3>4, FirstNumber
    <3>6. q[k].msgs[1] + Len(q[k].msgs) <= next + Len(f.msgs)
      BY <3>2, <3>5, SumGrows, Zenon
    <3> QED BY <3>1, <3>2, <3>6
  <2> QED BY <2>1, <2>2
<1> QED BY <1>2 DEF AllReadable, Before, r

\* Frames are lost from the back.
LEMMA ChainLost ==
  ASSUME NEW q \in Seq(FrameType), NEW n \in 0..Len(q), NEW first \in Nat, NEW in \in Nat,
         NEW e, NEW next, Chain(q, first, in), AllReadable(q, e), Before(q, next)
  PROVE  LET r == SubSeq(q, 1, n)
         IN  /\ r \in Seq(FrameType) /\ Chain(r, first, in)
             /\ AllReadable(r, e) /\ Before(r, next)
<1> DEFINE r == SubSeq(q, 1, n)
<1>1. /\ r \in Seq(FrameType) /\ Len(r) = n /\ Len(q) \in Nat /\ n \in Nat /\ n <= Len(q)
      /\ \A k \in 1..n : r[k] = q[k]
  BY CutAt
<1> HIDE DEF r
<1>2. ASSUME r # << >>
      PROVE  r[1] = q[1] /\ q # << >>
  BY <1>1, <1>2
<1>3. ASSUME NEW k \in 1..(n - 1)
      PROVE  k \in 1..(Len(q) - 1) /\ r[k] = q[k] /\ r[k + 1] = q[k + 1]
  <2>1. k \in 1..n /\ k + 1 \in 1..n /\ k \in 1..(Len(q) - 1)
    BY <1>1
  <2> QED BY <1>1, <2>1
<1>4. Chain(r, first, in)
  BY <1>1, <1>2, <1>3 DEF Chain
<1>5. ASSUME NEW k \in 1..Len(r)
      PROVE  k \in 1..Len(q) /\ r[k] = q[k]
  BY <1>1
<1>6. AllReadable(r, e)
  BY <1>5 DEF AllReadable
<1>7. Before(r, next)
  BY <1>5 DEF Before
<1> QED BY <1>1, <1>4, <1>6, <1>7 DEF r

\* The next messages follow those that are there.
LEMMA NumberedLonger ==
  ASSUME NEW h \in Seq(Nat), Numbered(h), NEW m \in Seq(Nat), Len(m) > 0,
         m[1] = Len(h) + 1, \A i \in 1..Len(m) : m[i] = m[1] + i - 1
  PROVE  /\ h \o m \in Seq(Nat) /\ Len(h \o m) = Len(h) + Len(m)
         /\ Numbered(h \o m)
<1>1. /\ h \o m \in Seq(Nat) /\ Len(h \o m) = Len(h) + Len(m)
      /\ Len(h) \in Nat /\ Len(m) \in Nat
  OBVIOUS
<1>2. ASSUME NEW i \in 1..Len(h \o m)
      PROVE  (h \o m)[i] = i
  <2>1. CASE i <= Len(h)
    BY <1>1, <2>1 DEF Numbered
  <2>2. CASE i > Len(h)
    <3>1. i - Len(h) \in 1..Len(m) /\ i \in Nat
      BY <1>1, <2>2
    <3>2. (h \o m)[i] = m[i - Len(h)]
      BY <1>1, <2>2, <3>1
    <3> QED BY <1>1, <3>1, <3>2
  <2> QED BY <1>1, <2>1, <2>2
<1> QED BY <1>1, <1>2 DEF Numbered

\* Only whether an end decompresses decides what it can read.
LEMMA ReadableAlike ==
  ASSUME NEW q, NEW e1, NEW e2, AllReadable(q, e1), e2.enabled = e1.enabled
  PROVE  AllReadable(q, e2)
BY DEF AllReadable, Readable

\* A received frame moves the incoming stream of an end only.
LEMMA AdvanceType ==
  ASSUME NEW e \in EndType, NEW f
  PROVE  /\ Advance(f, e) \in EndType
         /\ Advance(f, e).enabled = e.enabled /\ Advance(f, e).out = e.out
         /\ Advance(f, e).in = e.in + Step(f)
BY DEF Advance, EndType, Step

\* A compressed frame moves the outgoing stream of an end only.
LEMMA SentType ==
  ASSUME NEW e \in EndType
  PROVE  /\ [e EXCEPT !.out = @ + 1] \in EndType
         /\ [e EXCEPT !.out = @ + 1].enabled = e.enabled
         /\ [e EXCEPT !.out = @ + 1].in = e.in
         /\ [e EXCEPT !.out = @ + 1].out = e.out + 1
BY DEF EndType

\* The first frame on the way is decoded, and gives the messages that come next.
LEMMA FlowReceived ==
  ASSUME NEW q \in Seq(FrameType), q # << >>, NEW h \in Seq(Nat), NEW e \in EndType,
         NEW n \in Nat, Flow(q, h, e, n)
  PROVE  LET f == Head(q) IN
         /\ Decoded(f, e) = f.msgs /\ f.msgs \in Seq(Nat)
         /\ Flow(Tail(q), h \o f.msgs, Advance(f, e), n)
         /\ \A out : Complete(q, h, e, n, out) =>
              Complete(Tail(q), h \o f.msgs, Advance(f, e), n, out)
<1> DEFINE f == q[1]
           g == h \o f.msgs
           a == Advance(f, e)
<1>1. Head(q) = f /\ f \in FrameType /\ 1 \in 1..Len(q)
  BY TailElements
<1>2. f.msgs \in Seq(Nat) /\ f.kind \in Kinds
  BY <1>1 DEF FrameType
<1>3. Readable(f, e) /\ f.msgs[1] + Len(f.msgs) <= n + 1
  BY <1>1 DEF Flow, AllReadable, Before
<1>4. f.msgs[1] = Len(h) + 1 /\ f.at = e.in + Step(f)
  BY DEF Flow, Chain
<1>5. Decoded(f, e) = f.msgs
  BY <1>2, <1>3, <1>4 DEF Decoded, Decodes, Readable, Kinds, Step
<1>6. /\ a \in EndType /\ a.enabled = e.enabled /\ a.out = e.out
      /\ a.in = e.in + Step(f)
  BY AdvanceType
<1>7. e.in \in Nat /\ Len(h) \in Nat /\ Len(f.msgs) \in Nat /\ Len(h) + 1 \in Nat
  BY <1>2 DEF EndType
<1> HIDE DEF f, a
<1>8. g \in Seq(Nat) /\ Len(g) = Len(h) + Len(f.msgs) /\ Numbered(g)
  BY <1>2, <1>3, <1>4, NumberedLonger DEF Flow, Readable
<1> HIDE DEF g
<1>9. Len(g) <= n /\ Len(g) + 1 = Len(h) + 1 + Len(f.msgs)
  <2>1. Len(h) + 1 + Len(f.msgs) <= n + 1
    BY <1>3, <1>4
  <2>2. Len(h) + Len(f.msgs) <= n
    BY <1>7, <2>1, Sums
  <2>3. Len(h) + Len(f.msgs) + 1 = Len(h) + 1 + Len(f.msgs)
    BY <1>7, Sums
  <2> QED BY <1>8, <2>2, <2>3, Zenon
<1>10. AllReadable(Tail(q), e) /\ Before(Tail(q), n + 1)
  BY RestReceived DEF Flow
<1>11. AllReadable(Tail(q), a)
  BY <1>6, <1>10, ReadableAlike
<1>12. Chain(Tail(q), Len(g) + 1, a.in)
  BY <1>6, <1>7, <1>9, ChainReceived DEF Flow, f
<1>13. Flow(Tail(q), g, a, n)
  BY <1>8, <1>9, <1>10, <1>11, <1>12 DEF Flow
<1>14. ASSUME NEW out, Complete(q, h, e, n, out)
       PROVE  Complete(Tail(q), g, a, n, out)
  BY <1>6, <1>7, <1>9, <1>14, EndsReceived DEF Flow, Complete, f
<1> QED BY <1>1, <1>2, <1>5, <1>13, <1>14 DEF f, g, a

\* A frame with the next messages is sent.
LEMMA FlowSent ==
  ASSUME NEW q \in Seq(FrameType), NEW h \in Seq(Nat), NEW e \in EndType, NEW n \in Nat,
         NEW out, Flow(q, h, e, n), Complete(q, h, e, n, out),
         NEW f \in FrameType, Readable(f, e), f.msgs[1] = n + 1, f.at = out + Step(f)
  PROVE  /\ Append(q, f) \in Seq(FrameType)
         /\ Flow(Append(q, f), h, e, n + Len(f.msgs))
         /\ Complete(Append(q, f), h, e, n + Len(f.msgs), f.at)
<1> DEFINE r == Append(q, f)
<1>1. r \in Seq(FrameType)
  OBVIOUS
<1>2. /\ Len(h) \in Nat /\ Len(h) + 1 \in Nat /\ e.in \in Nat /\ n + 1 \in Nat
      /\ Len(f.msgs) \in Nat
  BY DEF EndType, FrameType
<1>3. n + 1 + Len(f.msgs) = n + Len(f.msgs) + 1 /\ Len(h) <= n + Len(f.msgs)
  <2>1. Len(h) <= n
    BY DEF Flow
  <2>2. Len(h) <= n + Len(f.msgs)
    BY <1>2, <2>1
  <2> QED BY <1>2, <2>2, Sums
<1>4. /\ Chain(r, Len(h) + 1, e.in)
      /\ Ends(r, Len(h) + 1, e.in, n + 1 + Len(f.msgs), f.at)
  BY <1>2, ChainSent DEF Flow, Complete
<1>5. AllReadable(r, e) /\ Before(r, n + 1 + Len(f.msgs))
  BY <1>2, RestSent DEF Flow
<1> HIDE DEF r
<1>6. Flow(r, h, e, n + Len(f.msgs))
  BY <1>3, <1>4, <1>5 DEF Flow
<1>7. Complete(r, h, e, n + Len(f.msgs), f.at)
  BY <1>3, <1>4 DEF Complete
<1> QED BY <1>1, <1>6, <1>7 DEF r

\* A flow depends on the end's incoming stream, not on its outgoing one.
LEMMA FlowAlike ==
  ASSUME NEW q, NEW h, NEW e1, NEW e2, NEW n, Flow(q, h, e1, n),
         e2.enabled = e1.enabled, e2.in = e1.in
  PROVE  /\ Flow(q, h, e2, n)
         /\ \A out : Complete(q, h, e1, n, out) => Complete(q, h, e2, n, out)
BY ReadableAlike DEF Flow, Complete

\* A payload within the limit is one frame.
LEMMA OneFrame ==
  ASSUME NEW size \in Nat, size <= max_packet_size - 1
  PROVE  FrameSizes(size) = <<size>>
<1> DEFINE most == max_packet_size - 1
<1>1. most \in Nat /\ most > 0 /\ size <= most
  BY WireAssumption
<1>2. FrameSizes(size) =
        IF size = 0 THEN <<0>>
        ELSE [i \in 1..(size \div most) |-> most] \o
               (IF size % most = 0 THEN << >> ELSE <<size % most>>)
  BY DEF FrameSizes
<1> HIDE DEF most
<1>3. CASE size = 0
  BY <1>2, <1>3
<1>4. CASE 0 < size /\ size < most
  <2>1. size \div most = 0 /\ size % most = size /\ size # 0
    BY <1>1, <1>4
  <2>2. [i \in 1..0 |-> most] = << >>
    OBVIOUS
  <2>3. FrameSizes(size) = << >> \o <<size>>
    BY <1>2, <1>4, <2>1, <2>2, Zenon
  <2> QED BY <2>3
<1>5. CASE size = most /\ size # 0
  <2>1. size \div most = 1 /\ size % most = 0
    BY <1>1, <1>5
  <2>2. [i \in 1..1 |-> most] = <<most>>
    OBVIOUS
  <2>3. FrameSizes(size) = <<most>> \o << >>
    BY <1>2, <1>5, <2>1, <2>2, Zenon
  <2> QED BY <1>1, <1>5, <2>3
<1> QED BY <1>1, <1>3, <1>4, <1>5

-----------------------------------------------------------------------------
(***************************************************************************)
(* Every step keeps the invariant.                                         *)
(***************************************************************************)

\* A new connection: both streams start at their beginning.
LEMMA ConnectKeeps ==
  ASSUME IInv, NEW a \in Algorithms, Connect(a)
  PROVE  IInv'
<1>1. /\ link = "none" /\ link' = "up" /\ peer' = compressor'
      /\ compressor' = IF a = "none" THEN Null ELSE NewCompressor
      /\ UNCHANGED <<to_server, to_client, written, heard, answers, got, fits, dropped>>
  BY DEF Connect
<1>2. /\ to_server = << >> /\ to_client = << >> /\ written = << >> /\ heard = << >>
      /\ answers = << >> /\ got = << >> /\ fits /\ ~dropped
  BY <1>1 DEF IInv, Quiet
<1>3. /\ compressor' \in EndType /\ compressor'.in = 0 /\ compressor'.out = 0
  BY <1>1 DEF Null, NewCompressor, EndType
<1>4. Types'
  BY <1>1, <1>3 DEF IInv, Types
<1>5. Upstream' /\ Downstream'
  BY <1>1, <1>2, <1>3
  DEF Upstream, Downstream, Numbered, Flow, Complete, AllReadable, Chain, Before, Ends
<1>6. Quiet'
  BY <1>1, <1>2 DEF Quiet
<1> QED BY <1>4, <1>5, <1>6 DEF IInv

\* The server takes the next frame.
LEMMA ServerReceivesKeeps ==
  ASSUME IInv, ServerReceives
  PROVE  IInv'
<1> DEFINE f == Head(to_server)
<1>1. /\ to_server # << >> /\ heard' = heard \o Decoded(f, peer)
      /\ peer' = Advance(f, peer) /\ to_server' = Tail(to_server)
      /\ UNCHANGED <<link, algorithm, compressor, to_client, written, answers, got, fits,
                     dropped>>
  BY DEF ServerReceives
<1>2. /\ to_server \in Seq(FrameType) /\ heard \in Seq(Nat) /\ peer \in EndType
      /\ written \in Seq(Nat) /\ Len(written) \in Nat
  BY DEF IInv, Types
<1>3. f \in FrameType /\ to_server' \in Seq(FrameType)
  BY <1>1, <1>2, TailElements
<1> HIDE DEF f
<1>4. /\ peer' \in EndType /\ peer'.enabled = peer.enabled /\ peer'.out = peer.out
  BY <1>1, <1>2, AdvanceType
<1>5. heard' \in Seq(Nat)
  <2>1. f.msgs \in Seq(Nat) /\ <<Garbled>> \in Seq(Nat)
    BY <1>3 DEF FrameType, Garbled
  <2>2. Decoded(f, peer) \in Seq(Nat)
    BY <2>1 DEF Decoded
  <2> QED BY <1>1, <1>2, <2>2
<1>6. Types'
  BY <1>1, <1>3, <1>4, <1>5 DEF IInv, Types
<1>7. ASSUME fits
      PROVE  /\ Flow(to_server, heard, peer, Len(written))'
             /\ (link = "up" => Complete(to_server, heard, peer, Len(written), compressor.out))'
  <2>1. Flow(to_server, heard, peer, Len(written))
    BY <1>7 DEF IInv, Upstream
  <2>2. /\ Decoded(f, peer) = f.msgs
        /\ Flow(to_server', heard \o f.msgs, peer', Len(written))
        /\ \A out : Complete(to_server, heard, peer, Len(written), out) =>
             Complete(to_server', heard \o f.msgs, peer', Len(written), out)
    BY <1>1, <1>2, <2>1, FlowReceived DEF f
  <2>3. Flow(to_server', heard', peer', Len(written'))
    BY <1>1, <2>2
  <2>4. link' = "up" => Complete(to_server', heard', peer', Len(written'), compressor'.out)
    BY <1>1, <1>7, <2>2 DEF IInv, Upstream
  <2> QED BY <2>3, <2>4
<1>8. Upstream'
  BY <1>1, <1>7 DEF IInv, Upstream, Numbered
<1>9. Downstream'
  BY <1>1, <1>4 DEF IInv, Downstream, Numbered, Flow, AllReadable, Readable, Chain, Before,
                    Complete, Ends
<1>10. Quiet'
  BY <1>1, <1>4 DEF IInv, Quiet
<1> QED BY <1>6, <1>8, <1>9, <1>10 DEF IInv

\* A reader takes the next frame, over a lost link too, or drops it.
LEMMA pfc_receiveKeeps ==
  ASSUME IInv, NEW on_COMPRESSED \in BOOLEAN, pfc_receive(on_COMPRESSED)
  PROVE  IInv'
<1> DEFINE f == Head(to_client)
           taken == /\ got' = got \o Decoded(f, compressor)
                    /\ compressor' = Advance(f, compressor)
                    /\ UNCHANGED dropped
           lost == dropped' = TRUE /\ UNCHANGED <<got, compressor>>
<1>1. /\ to_client # << >> /\ (taken \/ lost) /\ to_client' = Tail(to_client)
      /\ link # "none"
      /\ UNCHANGED <<link, algorithm, peer, to_server, written, heard, answers, fits>>
  BY DEF pfc_receive
<1>2. /\ to_client \in Seq(FrameType) /\ got \in Seq(Nat) /\ compressor \in EndType
      /\ answers \in Seq(Nat) /\ Len(answers) \in Nat /\ dropped \in BOOLEAN
  BY DEF IInv, Types
<1>3. f \in FrameType /\ to_client' \in Seq(FrameType)
  BY <1>1, <1>2, TailElements
<1>4. ASSUME taken, ~dropped
      PROVE  /\ Flow(to_client', got', compressor', Len(answers))
             /\ \A out : Complete(to_client, got, compressor, Len(answers), out) =>
                  Complete(to_client', got', compressor', Len(answers), out)
  <2>1. Flow(to_client, got, compressor, Len(answers))
    BY <1>4 DEF IInv, Downstream
  <2>2. /\ Decoded(f, compressor) = f.msgs
        /\ Flow(to_client', got \o f.msgs, compressor', Len(answers))
        /\ \A out : Complete(to_client, got, compressor, Len(answers), out) =>
             Complete(to_client', got \o f.msgs, compressor', Len(answers), out)
    BY <1>1, <1>2, <1>4, <2>1, FlowReceived
  <2> QED BY <1>4, <2>2
<1>5. Decoded(f, compressor) \in Seq(Nat)
  <2>1. f.msgs \in Seq(Nat) /\ <<Garbled>> \in Seq(Nat)
    BY <1>3 DEF FrameType, Garbled
  <2> QED BY <2>1 DEF Decoded
<1>6. /\ Advance(f, compressor) \in EndType
      /\ Advance(f, compressor).enabled = compressor.enabled
      /\ Advance(f, compressor).out = compressor.out
  BY <1>2, AdvanceType
<1> HIDE DEF f
<1>7. /\ compressor' \in EndType /\ compressor'.enabled = compressor.enabled
      /\ compressor'.out = compressor.out
      /\ got' \in Seq(Nat) /\ dropped' \in BOOLEAN
  <2>1. CASE taken
    BY <1>2, <1>5, <1>6, <2>1
  <2>2. CASE lost
    BY <1>2, <2>2
  <2> QED BY <1>1, <2>1, <2>2
<1>8. Types'
  BY <1>1, <1>3, <1>7 DEF IInv, Types
<1>9. Downstream'
  <2>1. Numbered(answers')
    BY <1>1 DEF IInv, Downstream
  <2>2. CASE lost
    BY <2>1, <2>2 DEF Downstream
  <2>3. CASE taken
    <3>1. ASSUME ~dropped'
          PROVE  /\ Flow(to_client', got', compressor', Len(answers'))
                 /\ link' = "up" => Complete(to_client', got', compressor', Len(answers'), peer'.out)
      <4>1. ~dropped
        BY <2>3, <3>1
      <4>2. link = "up" => Complete(to_client, got, compressor, Len(answers), peer.out)
        BY <4>1 DEF IInv, Downstream
      <4> QED BY <1>1, <1>4, <2>3, <4>1, <4>2
    <3> QED BY <2>1, <3>1 DEF Downstream
  <2> QED BY <1>1, <2>2, <2>3
<1>10. Upstream'
  BY <1>1, <1>7 DEF IInv, Upstream, Numbered, Flow, AllReadable, Readable, Chain, Before,
                    Complete, Ends
<1>11. Quiet'
  BY <1>1, <1>7 DEF IInv, Quiet
<1> QED BY <1>8, <1>9, <1>10, <1>11 DEF IInv

\* The server sends a message, or a batch of them in one compressed frame.
LEMMA ServerSendsKeeps ==
  ASSUME IInv, NEW count \in 1..MaxBatch, NEW compressed \in BOOLEAN,
         ServerSends(count, compressed)
  PROVE  IInv'
<1> DEFINE n == Len(answers)
           msgs == [i \in 1..count |-> n + i]
           f == Frame(IF compressed THEN "compressed" ELSE "plain", 0, msgs, peer'.out)
<1>1. /\ link = "up" /\ (compressed => peer.enabled)
      /\ answers' = answers \o msgs
      /\ peer' = (IF compressed THEN [peer EXCEPT !.out = @ + 1] ELSE peer)
      /\ to_client' = Append(to_client, f)
      /\ UNCHANGED <<link, algorithm, compressor, to_server, written, heard, got, fits,
                     dropped>>
  BY DEF ServerSends
<1>2. /\ to_client \in Seq(FrameType) /\ got \in Seq(Nat) /\ compressor \in EndType
      /\ peer \in EndType /\ answers \in Seq(Nat) /\ n \in Nat
  BY DEF IInv, Types
<1>3. count \in Nat /\ count > 0
  BY WireAssumption
<1>4. /\ msgs \in Seq(Nat) /\ Len(msgs) = count /\ msgs[1] = n + 1
      /\ \A i \in 1..Len(msgs) : msgs[i] = msgs[1] + i - 1
  <2> HIDE DEF n
  <2>1. msgs \in Seq(Nat) /\ Len(msgs) = count
    BY <1>2, <1>3
  <2>2. \A i \in 1..count : msgs[i] = n + i
    OBVIOUS
  <2>3. msgs[1] = n + 1
    BY <1>3, <2>2
  <2>4. \A i \in 1..count : n + i = n + 1 + i - 1
    BY <1>2, <1>3
  <2> QED BY <2>1, <2>2, <2>3, <2>4
<1> HIDE DEF msgs
<1>5. peer' \in EndType /\ peer'.enabled = peer.enabled /\ peer'.in = peer.in
  <2> DEFINE p == [peer EXCEPT !.out = @ + 1]
  <2>1. p \in EndType /\ p.enabled = peer.enabled /\ p.in = peer.in
    BY <1>2, SentType
  <2> HIDE DEF p
  <2>2. peer' = p \/ peer' = peer
    BY <1>1 DEF p
  <2> QED BY <1>2, <2>1, <2>2
<1>6. /\ f \in FrameType /\ f.msgs = msgs /\ f.at = peer'.out
      /\ f.kind = IF compressed THEN "compressed" ELSE "plain"
  BY <1>4, <1>5 DEF Frame, FrameType, Kinds, EndType
<1> HIDE DEF f
<1>7. f.at = peer.out + Step(f)
  BY <1>1, <1>2, <1>6 DEF EndType, Step
<1>8. compressor.enabled = peer.enabled
  BY DEF IInv, Quiet
<1>9. Readable(f, compressor)
  BY <1>1, <1>3, <1>4, <1>6, <1>8 DEF Readable
<1>10. ~dropped => /\ Flow(to_client, got, compressor, n)
                   /\ Complete(to_client, got, compressor, n, peer.out)
  BY <1>1 DEF IInv, Downstream
<1>11. Numbered(answers) /\ Numbered(answers') /\ answers' \in Seq(Nat)
       /\ Len(answers') = n + Len(f.msgs)
  BY <1>1, <1>2, <1>3, <1>4, <1>6, NumberedLonger DEF IInv, Downstream
<1> HIDE DEF n
<1>12. f.msgs[1] = n + 1
  BY <1>4, <1>6
<1>13. /\ to_client' \in Seq(FrameType)
       /\ ~dropped => /\ Flow(to_client', got, compressor, n + Len(f.msgs))
                      /\ Complete(to_client', got, compressor, n + Len(f.msgs), f.at)
  <2>1. to_client' \in Seq(FrameType)
    BY <1>1, <1>2, <1>6
  <2>2. ASSUME ~dropped
        PROVE  /\ Flow(to_client', got, compressor, n + Len(f.msgs))
               /\ Complete(to_client', got, compressor, n + Len(f.msgs), f.at)
    BY <1>1, <1>2, <1>6, <1>7, <1>9, <1>10, <1>12, <2>2, FlowSent
  <2> QED BY <2>1, <2>2
<1>14. Types'
  BY <1>1, <1>5, <1>11, <1>13 DEF IInv, Types
<1>15. Downstream'
  BY <1>1, <1>6, <1>11, <1>13 DEF Downstream
<1>16. Upstream'
  <2>1. Numbered(written')
    BY <1>1 DEF IInv, Upstream
  <2>2. ASSUME fits
        PROVE  /\ Flow(to_server, heard, peer', Len(written))
               /\ Complete(to_server, heard, peer', Len(written), compressor.out)
    BY <1>1, <1>5, <2>2, FlowAlike DEF IInv, Upstream
  <2> QED BY <1>1, <2>1, <2>2 DEF Upstream
<1>17. Quiet'
  BY <1>1, <1>5 DEF IInv, Quiet
<1> QED BY <1>14, <1>15, <1>16, <1>17 DEF IInv

\* The streams move with the session.
LEMMA MoveSessionKeeps ==
  ASSUME IInv, MoveSession
  PROVE  IInv'
<1>1. UNCHANGED <<link, algorithm, compressor, peer, to_server, to_client, written, heard,
                  answers, got, fits, dropped>>
  BY DEF MoveSession, MovedExecutor
<1>2. Types' /\ Quiet'
  BY <1>1 DEF IInv, Types, Quiet
<1>3. Upstream' /\ Downstream'
  BY <1>1 DEF IInv, Upstream, Downstream
<1> QED BY <1>2, <1>3 DEF IInv

\* The link is lost: the server hears no more, the client what still arrives.
LEMMA LinkLostKeeps ==
  ASSUME IInv, LinkLost
  PROVE  IInv'
<1>1. /\ link' = "lost" /\ to_server' = << >>
      /\ UNCHANGED <<algorithm, compressor, peer, written, heard, answers, got, fits,
                     dropped>>
  BY DEF LinkLost
<1>2. PICK k \in 0..Len(to_client) : to_client' = SubSeq(to_client, 1, k)
  BY DEF LinkLost
<1>3. /\ to_client \in Seq(FrameType) /\ compressor \in EndType /\ got \in Seq(Nat)
      /\ peer \in EndType /\ heard \in Seq(Nat)
  BY DEF IInv, Types
<1>4. compressor.in \in Nat /\ Len(got) + 1 \in Nat
  BY <1>3 DEF EndType
<1>5. to_client' \in Seq(FrameType)
  BY <1>2, <1>3, CutAt
<1>6. ASSUME ~dropped
       PROVE  Flow(to_client', got, compressor, Len(answers))
  BY <1>2, <1>3, <1>4, <1>6, ChainLost DEF IInv, Downstream, Flow
<1>7. Types'
  BY <1>1, <1>5 DEF IInv, Types
<1>8. Downstream'
  BY <1>1, <1>6 DEF IInv, Downstream
<1>9. Upstream'
  BY <1>1 DEF IInv, Upstream, Flow, AllReadable, Chain, Before
<1>10. Quiet'
  BY <1>1 DEF IInv, Quiet
<1> QED BY <1>7, <1>8, <1>9, <1>10 DEF IInv

\* The session is cleaned up.
LEMMA cleanupKeeps ==
  ASSUME IInv, cleanup
  PROVE  IInv'
<1> USE DEF cleanup
<1>1. Null \in EndType
  BY DEF Null, EndType
<1>2. Types'
  <2>1. fits' \in BOOLEAN /\ dropped' \in BOOLEAN
    BY Zenon
  <2> QED BY <1>1, <2>1 DEF Types
<1>3. Upstream' /\ Downstream' /\ Quiet'
  BY DEF Upstream, Downstream, Quiet, Numbered, Flow, AllReadable, Chain, Before
<1> QED BY <1>2, <1>3 DEF IInv

\* The frame codec cuts every payload into frames of some size.
LEMMA FrameSizesType ==
  ASSUME NEW size \in Nat
  PROVE  FrameSizes(size) \in Seq(Nat)
<1> DEFINE most == max_packet_size - 1
           whole == [i \in 1..(size \div most) |-> most]
           rest == IF size % most = 0 THEN << >> ELSE <<size % most>>
<1>1. most \in Nat /\ most > 0
  BY WireAssumption
<1>2. FrameSizes(size) = IF size = 0 THEN <<0>> ELSE whole \o rest
  BY DEF FrameSizes
<1> HIDE DEF most
<1>3. size \div most \in Nat /\ size % most \in Nat
  BY <1>1
<1>4. whole \in Seq(Nat)
  BY <1>1, <1>3
<1>5. rest \in Seq(Nat)
  BY <1>3
<1> HIDE DEF whole, rest
<1>6. whole \o rest \in Seq(Nat) /\ <<0>> \in Seq(Nat)
  BY <1>4, <1>5
<1> QED BY <1>2, <1>6

\* pfc_send puts frames on the way, and one frame if the payload fits.
LEMMA pfc_sendFacts ==
  ASSUME Types, NEW kind \in {"plain", "compressed"}, NEW size \in Nat, NEW m \in Nat,
         NEW at \in Nat, pfc_send(kind, size, <<m>>, at)
  PROVE  /\ to_server' \in Seq(FrameType) /\ fits' \in BOOLEAN
         /\ fits' => fits
         /\ link # "up" => to_server' = to_server
         /\ link = "up" /\ fits' =>
              to_server' = Append(to_server, Frame(kind, size, <<m>>, at))
<1> DEFINE sizes == FrameSizes(size)
           F(i) == Frame(IF Len(sizes) = 1 THEN kind ELSE "part", sizes[i], <<m>>, at)
           frames == [i \in DOMAIN sizes |-> F(i)]
<1>1. /\ fits' = (fits /\ size <= max_packet_size - 1)
      /\ to_server' = IF link = "up" THEN to_server \o frames ELSE to_server
  BY DEF pfc_send
<1>2. to_server \in Seq(FrameType) /\ fits \in BOOLEAN
  BY DEF Types
<1>3. sizes \in Seq(Nat)
  BY FrameSizesType
<1>4. ASSUME size <= max_packet_size - 1
      PROVE  sizes = <<size>>
  BY <1>4, OneFrame
<1> HIDE DEF sizes
<1>5. \A i \in DOMAIN sizes : F(i) \in FrameType
  <2>1. \A i \in DOMAIN sizes : sizes[i] \in Nat
    BY <1>3
  <2>2. <<m>> \in Seq(Nat)
    OBVIOUS
  <2> QED BY <2>1, <2>2 DEF Frame, FrameType, Kinds
<1>6. ASSUME sizes = <<size>>
      PROVE  frames = <<Frame(kind, size, <<m>>, at)>>
  <2>1. Len(sizes) = 1 /\ DOMAIN sizes = {1} /\ sizes[1] = size
    BY <1>6
  <2>2. F(1) = Frame(kind, size, <<m>>, at)
    BY <2>1
  <2> HIDE DEF F
  <2>3. frames = [i \in {1} |-> F(i)] /\ {1} = 1..1
    BY <2>1
  <2>4. [i \in {1} |-> F(i)] = <<F(1)>>
    OBVIOUS
  <2> QED BY <2>2, <2>3, <2>4
<1> HIDE DEF F
<1>7. frames \in Seq(FrameType)
  <2>1. DOMAIN sizes = 1..Len(sizes) /\ Len(sizes) \in Nat
    BY <1>3
  <2> QED BY <1>5, <2>1
<1> HIDE DEF frames
<1>8. to_server' \in Seq(FrameType)
  BY <1>1, <1>2, <1>7
<1>9. fits' \in BOOLEAN /\ (fits' => fits /\ size <= max_packet_size - 1)
  BY <1>1, <1>2
<1>10. ASSUME link = "up", fits'
       PROVE  to_server' = Append(to_server, Frame(kind, size, <<m>>, at))
  <2>1. frames = <<Frame(kind, size, <<m>>, at)>>
    BY <1>4, <1>6, <1>9, <1>10
  <2> QED BY <1>1, <1>2, <1>10, <2>1
<1> QED BY <1>1, <1>8, <1>9, <1>10

\* A message is sent, as it is or compressed.
LEMMA xmysqlnd_send_messageKeeps ==
  ASSUME IInv, NEW n \in Sizes, xmysqlnd_send_message(n)
  PROVE  IInv'
<1> DEFINE w == Len(written)
           m == w + 1
<1>1. /\ link # "none" /\ written' = Append(written, m)
      /\ UNCHANGED <<link, algorithm, peer, to_client, heard, answers, got, dropped>>
  BY DEF xmysqlnd_send_message
<1>2. /\ written \in Seq(Nat) /\ w \in Nat /\ m \in Nat /\ heard \in Seq(Nat)
      /\ to_server \in Seq(FrameType) /\ compressor \in EndType /\ peer \in EndType
      /\ n \in Nat
  BY WireAssumption DEF IInv, Types
<1>3. written' \in Seq(Nat) /\ Len(written') = m /\ Numbered(written')
  BY <1>1, <1>2 DEF IInv, Upstream, Numbered
<1>4. PICK kind \in {"plain", "compressed"}, size \in Nat, c \in EndType :
        /\ compressor' = c
        /\ pfc_send(kind, size, <<m>>, c.out)
        /\ kind = "compressed" => compressor.enabled
        /\ c.enabled = compressor.enabled /\ c.in = compressor.in
        /\ c.out = compressor.out + IF kind = "compressed" THEN 1 ELSE 0
  <2>1. CASE pfc_send("plain", n, <<m>>, compressor.out) /\ UNCHANGED compressor
    <3>1. compressor.out = compressor.out + 0
      BY <1>2 DEF EndType
    <3> QED BY <1>2, <2>1, <3>1
  <2>2. CASE /\ Compresses(n)
             /\ compressor' = [compressor EXCEPT !.out = @ + 1]
             /\ \E size \in CompressedSizes :
                  pfc_send("compressed", size, <<m>>, compressor'.out)
    <3> DEFINE c == [compressor EXCEPT !.out = @ + 1]
    <3>1. /\ c \in EndType /\ c.enabled = compressor.enabled /\ c.in = compressor.in
          /\ c.out = compressor.out + 1
      BY <1>2, SentType
    <3> HIDE DEF c
    <3>2. compressor' = c
      BY <2>2 DEF c
    <3>3. PICK size \in CompressedSizes : pfc_send("compressed", size, <<m>>, c.out)
      BY <2>2, <3>2
    <3>4. size \in Nat /\ compressor.enabled
      BY <2>2, WireAssumption DEF Compresses
    <3> QED BY <3>1, <3>2, <3>3, <3>4
  <2> QED BY <2>1, <2>2 DEF xmysqlnd_send_message
<1> DEFINE f == Frame(kind, size, <<m>>, c.out)
<1> HIDE DEF m, w
<1>5. /\ f \in FrameType /\ f.kind = kind /\ f.msgs = <<m>> /\ f.at = c.out
  BY <1>2 DEF Frame, FrameType, Kinds, EndType
<1>6. /\ to_server' \in Seq(FrameType) /\ fits' \in BOOLEAN /\ (fits' => fits)
      /\ link # "up" => to_server' = to_server
      /\ link = "up" /\ fits' => to_server' = Append(to_server, f)
  <2>1. c.out \in Nat
    BY DEF EndType
  <2> QED BY <1>2, <1>4, <2>1, pfc_sendFacts DEF IInv
<1> HIDE DEF f
<1>7. Len(f.msgs) = 1 /\ f.msgs[1] = m /\ \A i \in 1..Len(f.msgs) : f.msgs[i] = f.msgs[1] + i - 1
  BY <1>2, <1>5
<1>8. Readable(f, peer) /\ f.at = compressor.out + Step(f)
  BY <1>4, <1>5, <1>7 DEF IInv, Quiet, Readable, Step
<1>9. Types'
  BY <1>1, <1>3, <1>4, <1>6 DEF IInv, Types
<1>10. ASSUME fits'
       PROVE  /\ Flow(to_server', heard, peer, m)
              /\ link = "up" => Complete(to_server', heard, peer, m, c.out)
  <2>1. fits /\ Flow(to_server, heard, peer, w)
    BY <1>6, <1>10 DEF IInv, Upstream, w
  <2>2. CASE link = "up"
    <3>1. Complete(to_server, heard, peer, w, compressor.out)
      BY <2>1, <2>2 DEF IInv, Upstream, w
    <3>2. f.msgs[1] = w + 1 /\ w + Len(f.msgs) = m
      BY <1>2, <1>7 DEF m
    <3>3. /\ Flow(Append(to_server, f), heard, peer, w + Len(f.msgs))
          /\ Complete(Append(to_server, f), heard, peer, w + Len(f.msgs), f.at)
      BY <1>2, <1>5, <1>8, <2>1, <3>1, <3>2, FlowSent
    <3> QED BY <1>5, <1>6, <1>10, <2>2, <3>2, <3>3
  <2>3. CASE link # "up"
    <3>1. to_server' = << >>
      BY <1>6, <2>3 DEF IInv, Quiet
    <3>2. Numbered(heard) /\ Len(heard) <= w /\ Len(heard) \in Nat
      BY <1>2, <2>1 DEF Flow
    <3>3. Len(heard) <= m
      BY <1>2, <3>2 DEF m
    <3> QED BY <2>3, <3>1, <3>2, <3>3 DEF Flow, AllReadable, Chain, Before
  <2> QED BY <2>2, <2>3
<1>11. Upstream'
  BY <1>1, <1>3, <1>4, <1>10 DEF Upstream
<1>12. Downstream'
  <2>1. ~dropped => Flow(to_client, got, c, Len(answers))
    BY <1>4, FlowAlike DEF IInv, Downstream
  <2>2. ~dropped /\ link = "up" => Complete(to_client, got, c, Len(answers), peer.out)
    BY <1>4, FlowAlike DEF IInv, Downstream
  <2> QED BY <1>1, <1>4, <2>1, <2>2 DEF IInv, Downstream
<1>13. Quiet'
  BY <1>1, <1>4, <1>6 DEF IInv, Quiet
<1> QED BY <1>9, <1>11, <1>12, <1>13 DEF IInv

-----------------------------------------------------------------------------
(***************************************************************************)
(* The theorems.                                                           *)
(***************************************************************************)

\* The invariant holds in every reachable state.
LEMMA InvariantHolds == Spec => []IInv
<1>1. Init => IInv
  <2> SUFFICES ASSUME Init
               PROVE  IInv
    OBVIOUS
  <2> USE DEF Init
  <2>1. Null \in EndType
    BY DEF Null, EndType
  <2>2. fits \in BOOLEAN /\ dropped \in BOOLEAN
    BY Zenon
  <2>3. Types
    BY <2>1, <2>2 DEF Types
  <2>4. Upstream /\ Downstream /\ Quiet
    BY DEF Upstream, Downstream, Quiet, Numbered, Flow, AllReadable, Chain, Before
  <2> QED BY <2>4, <2>3 DEF IInv
<1>2. IInv /\ [Next]_vars => IInv'
  <2> SUFFICES ASSUME IInv, [Next]_vars
               PROVE  IInv'
    OBVIOUS
  <2>1. CASE UNCHANGED vars
    <3>1. Types' /\ Quiet'
      BY <2>1 DEF IInv, Types, Quiet, vars
    <3>2. Upstream' /\ Downstream'
      BY <2>1 DEF IInv, Upstream, Downstream, vars
    <3> QED BY <3>1, <3>2 DEF IInv
  <2> QED BY <2>1, ConnectKeeps, xmysqlnd_send_messageKeeps, ServerReceivesKeeps,
             ServerSendsKeeps, pfc_receiveKeeps, MoveSessionKeeps, LinkLostKeeps,
             cleanupKeeps
          DEF Next
<1> QED BY <1>1, <1>2, PTL DEF Spec

\* Two numbered sequences begin alike.
LEMMA NumberedPrefix ==
  ASSUME NEW s \in Seq(Nat), NEW t \in Seq(Nat), Numbered(s), Numbered(t), Len(s) <= Len(t)
  PROVE  IsPrefix(s, t)
<1> DEFINE a == SubSeq(s, 1, Len(s))
           b == SubSeq(t, 1, Len(s))
<1>1. Len(s) \in Nat /\ Len(t) \in Nat
  OBVIOUS
<1>2. /\ a \in Seq(Nat) /\ Len(a) = Len(s) /\ \A i \in 1..Len(s) : a[i] = s[i]
      /\ b \in Seq(Nat) /\ Len(b) = Len(s) /\ \A i \in 1..Len(s) : b[i] = t[i]
  <2>1. Len(s) \in 0..Len(s) /\ Len(s) \in 0..Len(t)
    BY <1>1
  <2> QED BY <2>1, CutAt
<1> HIDE DEF a, b
<1>3. \A i \in 1..Len(s) : a[i] = b[i]
  <2> SUFFICES ASSUME NEW i \in 1..Len(s) PROVE a[i] = b[i]
    OBVIOUS
  <2>1. i \in 1..Len(t)
    BY <1>1
  <2>2. s[i] = i /\ t[i] = i
    BY <2>1 DEF Numbered
  <2> QED BY <1>2, <2>2
<1>4. a = b
  BY <1>2, <1>3, SeqEqual
<1> QED BY <1>4 DEF IsPrefix, a, b

\* The server gets the messages as they were sent, unless a payload was too
\* large for one frame.
THEOREM ServerHearsAsWritten == Spec => []HeardAsWritten
<1>1. IInv => HeardAsWritten
  BY NumberedPrefix DEF IInv, Types, Upstream, Flow, HeardAsWritten
<1> QED BY <1>1, InvariantHolds, PTL

\* The readers get the messages as the server sent them, unless one without a
\* handler for compressed frames met one.
THEOREM ReadersGetAsAnswered == Spec => []GotAsAnswered
<1>1. IInv => GotAsAnswered
  BY NumberedPrefix DEF IInv, Types, Downstream, Flow, GotAsAnswered
<1> QED BY <1>1, InvariantHolds, PTL
=============================================================================
