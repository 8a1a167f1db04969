----------------------------- MODULE GrpcStream -----------------------------
(***************************************************************************)
(* gRPC messages on one direction of the Control stream: frames with a     *)
(* five-byte header (grpc_framing.cpp), handed to HTTP/2 in slices by      *)
(* cb_data_read, arriving in chunks of any size and put together by        *)
(* FrameAssembler.  nghttp2, TLS and TCP in between are external: they     *)
(* keep the order of the bytes and cut them anywhere.  The sender may be   *)
(* the peer, which may set the compressed flag or exceed the buffer.       *)
(*                                                                         *)
(* One step is one turn of push()'s loop.                                  *)
(***************************************************************************)
EXTENDS Naturals, Sequences, FiniteSetsExt, SequencesExt

CONSTANTS
  Capacity,  \* cap_: largest message accepted
  Payloads,  \* message lengths
  MaxFrames, \* bound: frames of a session
  MaxSlice   \* bound: bytes of a slice and of a chunk

ASSUME StreamAssumption ==
  /\ Capacity \in Nat /\ Payloads \subseteq Nat
  /\ MaxFrames \in Nat /\ MaxSlice \in Nat \ {0}

HeaderSize == 5

VARIABLES
  plan,     \* frames of this session
  sent,     \* how many of them have been taken from the queue
  cur,      \* bytes of the frame in flight not yet handed to HTTP/2
  deferred, \* cb_data_read has said that there is nothing to send
  wire,     \* bytes on their way
  chunk,    \* bytes of the chunk being processed
  asm,      \* the assembler
  eaten,    \* history: bytes consumed
  handled,  \* messages handed to handle_message()
  stream    \* "open", "refused" by the assembler or "ended": s->closed

grpcVars == <<plan, sent, cur, deferred, wire, chunk, asm, eaten, handled, stream>>

\* The bytes of a payload tell the frame and the place they belong to.
Body(i, n) == [k \in 1..n |-> 10 * i + k]

Frame == [flag : {0}, len : Payloads] \cup [flag : {1}, len : {1}]

\* Broken variant: the length is written least significant byte first.
MakeFrameHeaderLittle(flag, n) ==
  <<flag, n % 256, (n \div 256) % 256, (n \div 256^2) % 256, n \div 256^3>>

\* make_frame_header(): the length in network byte order.
MakeFrameHeader(flag, n) ==
  <<flag, n \div 256^3, (n \div 256^2) % 256, (n \div 256) % 256, n % 256>>

\* What frame i of the session, f, puts on the wire; of a message too large only the header matters.
Encoded(i, f) ==
  MakeFrameHeader(f.flag, f.len) \o Body(i, IF f.len > Capacity THEN 1 ELSE f.len)

-----------------------------------------------------------------------------
(* The sender.                                                             *)

\* A new session: its stream, its assembler.
SessionBegins ==
  /\ stream # "open"
  /\ plan' \in SeqOf(Frame, MaxFrames)
  /\ sent' = 0 /\ cur' = <<>> /\ deferred' = TRUE
  /\ wire' = <<>> /\ chunk' = <<>>
  /\ asm' = [header |-> <<>>, inPayload |-> FALSE, len |-> 0, buf |-> <<>>]
  /\ eaten' = 0 /\ handled' = <<>> /\ stream' = "open"

\* The pump takes a frame when none is in flight, and resumes the stream.
TakeNextFrame ==
  /\ stream = "open" /\ cur = <<>> /\ sent < Len(plan)
  /\ sent' = sent + 1 /\ cur' = Encoded(sent + 1, plan[sent + 1]) /\ deferred' = FALSE
  /\ UNCHANGED <<plan, wire, chunk, asm, eaten, handled, stream>>

\* cb_data_read(): a slice of the frame in flight, or nothing for now.
DataRead(length) ==
  LET take == Min({length, Len(cur)})
  IN /\ stream = "open" /\ ~deferred
     /\ wire' = wire \o SubSeq(cur, 1, take)
     /\ cur' = SubSeq(cur, take + 1, Len(cur))
     /\ deferred' = (cur = <<>>)
     /\ UNCHANGED <<plan, sent, chunk, asm, eaten, handled, stream>>

-----------------------------------------------------------------------------
(* The receiver.                                                           *)

\* cb_on_data_chunk() with the next bytes of the stream.
DataChunk(n) ==
  /\ stream = "open" /\ chunk = <<>> /\ n <= Len(wire)
  /\ chunk' = SubSeq(wire, 1, n) /\ wire' = SubSeq(wire, n + 1, Len(wire))
  /\ UNCHANGED <<plan, sent, cur, deferred, asm, eaten, handled, stream>>

\* The length a header declares.
Declared(h) == h[2] * 256^3 + h[3] * 256^2 + h[4] * 256 + h[5]

\* A byte of a header.  The last one decides: a compressed message or one that is
\* too large ends the session, an empty message is complete.
PushHeader ==
  LET h == Append(asm.header, Head(chunk))
      complete == Len(h) = HeaderSize
      refused == complete /\ (h[1] # 0 \/ Declared(h) > Capacity)
      empty == complete /\ ~refused /\ Declared(h) = 0
  IN /\ stream = "open" /\ chunk # <<>> /\ ~asm.inPayload
     /\ asm' = IF complete
               THEN [header |-> <<>>, inPayload |-> ~refused /\ ~empty,
                     len |-> Declared(h), buf |-> <<>>]
               ELSE [asm EXCEPT !.header = h]
     /\ handled' = IF empty THEN Append(handled, <<>>) ELSE handled
     /\ stream' = IF refused THEN "refused" ELSE "open"
     /\ chunk' = Tail(chunk) /\ eaten' = eaten + 1
     /\ UNCHANGED <<plan, sent, cur, deferred, wire>>

\* As much payload as the message lacks and the chunk has.
PushPayload ==
  LET take == Min({asm.len - Len(asm.buf), Len(chunk)})
      buf == asm.buf \o SubSeq(chunk, 1, take)
      ready == Len(buf) = asm.len
  IN /\ stream = "open" /\ chunk # <<>> /\ asm.inPayload
     /\ asm' = [asm EXCEPT !.buf = buf, !.inPayload = ~ready]
     /\ handled' = IF ready THEN Append(handled, buf) ELSE handled
     /\ chunk' = SubSeq(chunk, take + 1, Len(chunk)) /\ eaten' = eaten + take
     /\ UNCHANGED <<plan, sent, cur, deferred, wire, stream>>

\* END_STREAM, GOAWAY, a reset stream or a dead connection.
StreamCloses ==
  /\ stream = "open" /\ chunk = <<>>
  /\ stream' = "ended"
  /\ UNCHANGED <<plan, sent, cur, deferred, wire, chunk, asm, eaten, handled>>

GrpcInit ==
  /\ plan = <<>> /\ sent = 0 /\ cur = <<>> /\ deferred = TRUE
  /\ wire = <<>> /\ chunk = <<>>
  /\ asm = [header |-> <<>>, inPayload |-> FALSE, len |-> 0, buf |-> <<>>]
  /\ eaten = 0 /\ handled = <<>> /\ stream = "ended"

GrpcNext ==
  \/ SessionBegins
  \/ TakeNextFrame
  \/ \E n \in 1..MaxSlice : DataRead(n) \/ DataChunk(n)
  \/ PushHeader
  \/ PushPayload
  \/ StreamCloses

GrpcSpec == GrpcInit /\ [][GrpcNext]_grpcVars

-----------------------------------------------------------------------------

Accepted(f) == f.flag = 0 /\ f.len <= Capacity

\* The sums of the prefixes of a sequence.
Totals(w) ==
  LET total[k \in 0..Len(w)] == IF k = 0 THEN 0 ELSE total[k - 1] + w[k]
  IN total

\* Where frame k ends in the byte stream.
EndOf(k) == Totals([i \in 1..Len(plan) |-> HeaderSize + plan[i].len])[k]

\* Reference: the messages whose last byte has arrived, up to the first frame that
\* is refused.
Arrived ==
  LET whole == {k \in 0..Len(plan) : /\ \A i \in 1..k : Accepted(plan[i])
                                     /\ EndOf(k) <= eaten}
      n == Max(whole)
  IN [i \in 1..n |-> Body(i, plan[i].len)]

\* However the bytes are cut, exactly the messages that were sent are handled, in
\* order and whole; only a frame that must be refused ends the session; and a frame in
\* flight is never left behind a deferred stream (push, cb_data_read).
StreamIsExact ==
  /\ handled = Arrived
  /\ stream = "refused" => ~Accepted(plan[Len(handled) + 1])
  /\ cur # <<>> => ~deferred

=============================================================================
