----------------------------- MODULE WireStream -----------------------------
(***************************************************************************)
(* The messages of one session on the wire: how a message becomes frames   *)
(* (xmysqlnd_send_message, the frame codec and the compression executor)   *)
(* and frames become messages again.  zstd and zlib are streams: a payload *)
(* can only be decompressed by a peer that has decompressed all the        *)
(* payloads before it; lz4 compresses every payload on its own.            *)
(*                                                                         *)
(* A message is its number; its size decides what happens to it.           *)
(***************************************************************************)
EXTENDS Integers, Sequences, SequencesExt

CONSTANTS
  max_packet_size,               \* of the frame codec
  Client_compression_threshold,
  Header,         \* bytes that a compressed payload puts before a message
  Sizes,          \* payload sizes of the messages to send
  CompressedSizes,\* sizes that a compressed payload may have
  Algorithms,     \* what the negotiation ends with
  MaxMessages,    \* bound: messages sent, and answers, over a connection
  MaxBatch,       \* bound: messages that the server compresses together
  MaxLinks        \* bound: connections, and moves of the session

ASSUME WireAssumption ==
  /\ max_packet_size \in Nat /\ max_packet_size > 1
  /\ Client_compression_threshold \in Nat /\ Header \in Nat
  /\ Sizes \cup CompressedSizes \subseteq Nat
  /\ Algorithms \subseteq {"none", "stream", "message"}
  /\ MaxMessages \in Nat /\ MaxBatch \in Nat \ {0} /\ MaxLinks \in Nat

VARIABLES
  link,           \* "none", "up" or "lost"
  algorithm,      \* agreed on for the link (Session shows the agreement)
  compressor,     \* of the Executor: null, or where its two streams are
  peer,           \* the server's
  to_server,      \* frames on the way
  to_client,
  written,        \* history: messages given to xmysqlnd_send_message
  heard,          \* history: messages the server got
  answers,        \* history: messages the server sent
  got,            \* history: messages the readers got
  fits,           \* history: no payload needed a second frame
  dropped,        \* history: a reader dropped a compressed frame
  links, moves    \* counters for the bounds

vars == <<link, algorithm, compressor, peer, to_server, to_client, written, heard,
          answers, got, fits, dropped, links, moves>>

Null == [enabled |-> FALSE, out |-> 0, in |-> 0]
NewCompressor == [enabled |-> TRUE, out |-> 0, in |-> 0]

\* a frame of several messages is compressed; a part is less than a message;
\* "at" is where the sender's stream is then, and nothing else tells a receiver
Frame(kind, size, msgs, at) == [kind |-> kind, size |-> size, msgs |-> msgs, at |-> at]
Garbled == 0

Init ==
  /\ link = "none" /\ algorithm = "none"
  /\ compressor = Null /\ peer = Null
  /\ to_server = << >> /\ to_client = << >>
  /\ written = << >> /\ heard = << >> /\ answers = << >> /\ got = << >>
  /\ fits = TRUE /\ dropped = FALSE
  /\ links = 0 /\ moves = 0

-----------------------------------------------------------------------------
\* Executor::reset: a session that connects negotiates and starts new streams
Connect(a) ==
  /\ link = "none" /\ links < MaxLinks
  /\ link' = "up" /\ algorithm' = a
  /\ compressor' = IF a = "none" THEN Null ELSE NewCompressor
  /\ peer' = compressor'
  /\ links' = links + 1
  /\ UNCHANGED <<to_server, to_client, written, heard, answers, got, fits, dropped,
                 moves>>

\* mutant: a full frame is followed by an empty one
FrameSizes_FullIsNotLast(n) ==
  [i \in 1..(n \div (max_packet_size - 1) + 1) |->
     IF i * (max_packet_size - 1) <= n THEN max_packet_size - 1
     ELSE n % (max_packet_size - 1)]

\* the do-while loop of pfc send: at least one frame, none after the last byte
FrameSizes(n) ==
  LET most == max_packet_size - 1
      full == n \div most
  IN  IF n = 0 THEN <<0>>
      ELSE [i \in 1..full |-> most] \o (IF n % most = 0 THEN << >> ELSE <<n % most>>)

\* every frame has the type of the message, and nothing says that it goes on
pfc_send(kind, size, msgs, at) ==
  LET sizes == FrameSizes(size)
      frames == [i \in DOMAIN sizes |->
                   Frame(IF Len(sizes) = 1 THEN kind ELSE "part", sizes[i], msgs, at)]
  IN  /\ fits' = (fits /\ size <= max_packet_size - 1)
      /\ to_server' = IF link = "up" THEN to_server \o frames ELSE to_server

Compresses(n) == n >= Client_compression_threshold /\ compressor.enabled

\* A failed write is not noticed: bytes_sent is the pointer, never null.
xmysqlnd_send_message(n) ==
  /\ link # "none" /\ Len(written) < MaxMessages
  /\ LET m == Len(written) + 1 IN
     /\ written' = Append(written, m)
     /\ \/ /\ ~Compresses(n)
           /\ pfc_send("plain", n, <<m>>, compressor.out)
           /\ UNCHANGED compressor
        \/ /\ Compresses(n)
           /\ compressor' = [compressor EXCEPT !.out = @ + 1]
           /\ \E size \in CompressedSizes :
                /\ size <= n + Header
                /\ pfc_send("compressed", size, <<m>>, compressor'.out)
  /\ UNCHANGED <<link, algorithm, peer, to_client, heard, answers, got, dropped,
                 links, moves>>

-----------------------------------------------------------------------------
\* what a frame means to an end whose incoming stream is at "in"
Decodes(f, end) ==
  \/ f.kind = "plain"
  \/ f.kind = "compressed" /\ end.enabled /\ (algorithm = "stream" => f.at = end.in + 1)
Decoded(f, end) == IF Decodes(f, end) THEN f.msgs ELSE <<Garbled>>

Advance(f, end) ==
  IF f.kind = "compressed" THEN [end EXCEPT !.in = @ + 1] ELSE end

ServerReceives ==
  /\ to_server # << >>
  /\ heard' = heard \o Decoded(Head(to_server), peer)
  /\ peer' = Advance(Head(to_server), peer)
  /\ to_server' = Tail(to_server)
  /\ UNCHANGED <<link, algorithm, compressor, to_client, written, answers, got, fits,
                 dropped, links, moves>>

\* the server's frames are never split
ServerSends(count, compressed) ==
  /\ link = "up" /\ Len(answers) + count <= MaxMessages
  /\ compressed => peer.enabled
  /\ ~compressed => count = 1
  /\ LET msgs == [i \in 1..count |-> Len(answers) + i] IN
     /\ answers' = answers \o msgs
     /\ peer' = IF compressed THEN [peer EXCEPT !.out = @ + 1] ELSE peer
     /\ to_client' = Append(to_client,
          Frame(IF compressed THEN "compressed" ELSE "plain", 0, msgs, peer'.out))
  /\ UNCHANGED <<link, algorithm, compressor, to_server, written, heard, got, fits,
                 dropped, links, moves>>

\* pfc receive and process_received_message.  The readers of a result have a
\* handler on_COMPRESSED, whose extractor gives the messages of a batch in order.
\* A reader that has none (of an OK, of capabilities, of the authentication)
\* drops a compressed frame and takes its answer for read: the messages are not
\* got, and the stream stays where it is.  Over a lost link the receive of a
\* header or a payload fails once the rest has been read.
Handled(f, on_COMPRESSED) == f.kind = "compressed" => on_COMPRESSED

pfc_receive(on_COMPRESSED) ==
  /\ link # "none" /\ to_client # << >>
  /\ LET f == Head(to_client) IN
     \/ /\ Handled(f, on_COMPRESSED)
        /\ got' = got \o Decoded(f, compressor)
        /\ compressor' = Advance(f, compressor)
        /\ UNCHANGED dropped
     \/ /\ ~Handled(f, on_COMPRESSED)
        /\ dropped' = TRUE
        /\ UNCHANGED <<got, compressor>>
  /\ to_client' = Tail(to_client)
  /\ UNCHANGED <<link, algorithm, peer, to_server, written, heard, answers, fits,
                 links, moves>>

-----------------------------------------------------------------------------
\* mutant: the executor stays with the object that the session leaves
MovedExecutor_Left == Null

\* Executor::operator=: the streams go with the connection they belong to
MovedExecutor == compressor

\* the pool moves the session into a new object, between two requests
MoveSession ==
  /\ link = "up" /\ moves < MaxLinks
  /\ compressor' = MovedExecutor
  /\ moves' = moves + 1
  /\ UNCHANGED <<link, algorithm, peer, to_server, to_client, written, heard, answers,
                 got, fits, dropped, links>>

\* what the server had sent may still arrive
LinkLost ==
  /\ link = "up"
  /\ link' = "lost"
  /\ to_server' = << >>
  /\ \E k \in 0..Len(to_client) : to_client' = SubSeq(to_client, 1, k)
  /\ UNCHANGED <<algorithm, compressor, peer, written, heard, answers, got, fits,
                 dropped, links, moves>>

\* cleanup of the session's data, before the next connect or at its end
cleanup ==
  /\ link # "none"
  /\ link' = "none" /\ algorithm' = "none"
  /\ compressor' = Null /\ peer' = Null
  /\ to_server' = << >> /\ to_client' = << >>
  /\ written' = << >> /\ heard' = << >> /\ answers' = << >> /\ got' = << >>
  /\ fits' = TRUE /\ dropped' = FALSE
  /\ UNCHANGED <<links, moves>>

Next ==
  \/ \E a \in Algorithms : Connect(a)
  \/ \E n \in Sizes : xmysqlnd_send_message(n)
  \/ ServerReceives
  \/ \E count \in 1..MaxBatch, compressed \in BOOLEAN : ServerSends(count, compressed)
  \/ \E on_COMPRESSED \in BOOLEAN : pfc_receive(on_COMPRESSED)
  \/ MoveSession
  \/ LinkLost
  \/ cleanup

Spec == Init /\ [][Next]_vars

-----------------------------------------------------------------------------
\* The server gets the messages that were sent, each once and in order,
\* compressed or not, through moves of the session into the pool and back, up
\* to the end of the link: as long as no payload, after its compression,
\* exceeds max_packet_size - 1.  (A larger one is split into frames that the
\* server takes for messages.)
HeardAsWritten == fits => IsPrefix(heard, written)

\* The readers get the server's messages, each once and in order, also those
\* of a compressed batch and those that were on the way when the link was lost,
\* as long as no reader without a handler for it was sent a compressed frame.
GotAsAnswered == ~dropped => IsPrefix(got, answers)
=============================================================================
