------------------------------- MODULE Framing -------------------------------
(***************************************************************************)
(* What the engines of a connection do with the bytes: v2_encoder_t makes  *)
(* batches of the frames of messages, the socket carries them in pieces of *)
(* any length, and v2_decoder_t makes messages of them again.  Both avoid  *)
(* copying: the encoder hands out the bytes of a large message where they  *)
(* are, and the decoder lets messages use the buffer the socket was read   *)
(* into, which therefore counts them and is only used again, or freed,     *)
(* when the application has closed them all.                               *)
(*                                                                         *)
(* A step is what one thread does before another can come between.  The    *)
(* next connection has an encoder and a decoder of its own.                *)
(***************************************************************************)
EXTENDS Naturals, Sequences, SequencesExt, FiniteSetsExt

CONSTANTS Sizes,      \* sizes of messages
          Vsm,        \* msg_t::max_vsm_size: smaller messages have no content
          Short,      \* UCHAR_MAX: the largest size that takes one byte
          Wide,       \* bytes of a longer size (8)
          InBatch,    \* options_t::in_batch_size
          OutBatch,   \* options_t::out_batch_size
          Window,     \* bytes the connection holds
          Buffers,    \* bound: addresses of the receiver's buffers
          None,
          MaxMsgs     \* bound: messages sent

VARIABLES sent,       \* sizes of the messages that were given to the encoder
          enc,        \* the encoder, with _outpos and _outsize of the engine
          wire,       \* bytes on the connection
          dec,        \* the decoder, with _inpos and _insize of the engine
          mem,        \* mem[b]: the bytes read into buffer b
          refs,       \* refs[b]: its counter
          alive,      \* buffers allocated
          got,        \* got[i]: the i-th message that was received
          freeing     \* buffers whose last message was closed, not yet freed

vars == <<sent, enc, wire, dec, mem, refs, alive, got, freeing>>

(* The bytes of a frame: flags, one size in one byte or several, the body. *)
Body(m) == [i \in 1..sent[m] |-> <<"body", m, i>>]
Header(n) == <<<<"flags", n > Short>>>>
             \o [i \in 1..(IF n > Short THEN Wide ELSE 1) |-> <<"size", i, n>>]

(* msg_t: "vsm" and "lmsg" have bytes of their own, "zc" has them in a     *)
(* buffer from `off' on, as far as they are there.                         *)
Own(kind, n) == [kind |-> kind, size |-> n, data |-> <<>>, buf |-> None, off |-> 0]
Empty == Own("vsm", 0)
Closed == Own("closed", 0)
Within(b, off, n) == [kind |-> "zc", size |-> n, data |-> <<>>, buf |-> b, off |-> off]
Data(m) == IF m.kind = "zc"
           THEN SubSeq(mem[m.buf], m.off, Min({m.off + m.size - 1, Len(mem[m.buf])}))
           ELSE m.data

NewEncoder == [msg |-> 0, write |-> <<>>, next |-> "message", newMsg |-> TRUE,
               out |-> <<>>, begun |-> FALSE, direct |-> FALSE]

NewDecoder(b) == [buf |-> b, getting |-> FALSE, slots |-> 0, tmp |-> <<>>, toRead |-> 1,
                  next |-> "flags", msg |-> Empty, pos |-> 1, size |-> 0, direct |-> FALSE,
                  ready |-> FALSE, alive |-> TRUE]

Init ==
    /\ sent = <<>> /\ wire = <<>> /\ got = <<>> /\ freeing = {}
    /\ enc = NewEncoder
    /\ dec = NewDecoder(Min(Buffers)) /\ alive = {Min(Buffers)}
    /\ mem = [b \in Buffers |-> <<>>]
    /\ refs = [b \in Buffers |-> IF b = Min(Buffers) THEN 1 ELSE 0]

-----------------------------------------------------------------------------
(* The encoder.                                                            *)

(* message_ready and size_ready: what is to be written next. *)
MessageReady(e, m, sizes) ==
    [e EXCEPT !.msg = m, !.write = Header(sizes[m]), !.next = "size", !.newMsg = FALSE]
SizeReady(e, sizes) ==
    [e EXCEPT !.write = [i \in 1..sizes[e.msg] |-> <<"body", e.msg, i>>],
              !.next = "message", !.newMsg = TRUE]

(* encode into a buffer of which `room' is left; the bytes of a message    *)
(* that fills the whole of it are handed out as they are.                  *)
RECURSIVE Encode(_, _, _)
Encode(e, room, sizes) ==
    IF e.msg = 0 THEN e
    ELSE IF room = 0 THEN [e EXCEPT !.begun = TRUE]
    ELSE IF e.write = <<>> /\ e.newMsg THEN [e EXCEPT !.msg = 0, !.begun = TRUE]
    ELSE LET f == IF e.write = <<>> THEN SizeReady(e, sizes) ELSE e
             n == Min({Len(f.write), room})
         IN  IF ~f.begun /\ f.out = <<>> /\ Len(f.write) >= room
             THEN [f EXCEPT !.out = f.write, !.write = <<>>, !.direct = TRUE, !.begun = TRUE]
             ELSE Encode([f EXCEPT !.out = @ \o SubSeq(f.write, 1, n),
                                   !.write = SubSeq(@, n + 1, Len(@))], room - n, sizes)

(* The loop of out_event: messages are loaded until the batch is full. *)
RECURSIVE Batch(_, _, _)
Batch(e, m, sizes) ==
    IF Len(e.out) >= OutBatch \/ m > Len(sizes) THEN [enc |-> e, next |-> m]
    ELSE Batch(Encode(MessageReady(e, m, sizes), OutBatch - Len(e.out), sizes), m + 1, sizes)

(* stream_engine_t::out_event, with the messages that are in the pipe; the *)
(* socket takes what it has room for.                                      *)
OutEvent ==
    /\ dec.alive
    /\ \E pipe \in BoundedSeq(Sizes, MaxMsgs - Len(sent)) :
          LET sizes == sent \o pipe
              fresh == Encode([enc EXCEPT !.begun = FALSE, !.direct = FALSE], OutBatch, sizes)
              b == IF enc.out # <<>> THEN [enc |-> enc, next |-> Len(sent) + 1]
                   ELSE Batch(fresh, Len(sent) + 1, sizes)
              n == Min({Len(b.enc.out), Window - Len(wire)})
          IN  /\ b.next > Len(sizes)
              /\ sent' = sizes
              /\ wire' = wire \o SubSeq(b.enc.out, 1, n)
              /\ enc' = [b.enc EXCEPT !.out = SubSeq(@, n + 1, Len(@))]
    /\ UNCHANGED <<dec, mem, refs, alive, got, freeing>>

-----------------------------------------------------------------------------
(* The decoder.                                                            *)

(* Mutant of GiveBack: takes the count for old.                            *)
GiveBackOld(b) == /\ refs' = [refs EXCEPT ![b] = @ - 1]
                  /\ dec' = [dec EXCEPT !.getting = TRUE, !.buf = IF refs[b] > 2 THEN None ELSE b]

(* The decoder gives up its share in the buffer, which it may use again if *)
(* no message does.                                                        *)
GiveBack(b) == /\ refs' = [refs EXCEPT ![b] = @ - 1]
               /\ dec' = [dec EXCEPT !.getting = TRUE, !.buf = IF refs[b] > 1 THEN None ELSE b]

(* in_event finds nothing left to decode: get_buffer, allocate... *)
GetBuffer ==
    /\ dec.alive /\ ~dec.getting /\ ~dec.ready /\ dec.size = 0
    /\ wire # <<>>
    /\ GiveBack(dec.buf)
    /\ UNCHANGED <<sent, enc, wire, mem, alive, got, freeing>>

(* ...and tcp_read of what has arrived, into the buffer or, if all of it   *)
(* will be for the message in progress, there.                             *)
Read ==
    /\ dec.getting
    /\ LET b == IF dec.buf = None THEN Min(Buffers \ alive) ELSE dec.buf
           direct == dec.toRead >= InBatch
           room == IF direct THEN dec.toRead ELSE InBatch
       IN  /\ refs' = [refs EXCEPT ![b] = 1]
           /\ alive' = alive \cup {b}
           /\ \E n \in 1..Min({Len(wire), room}) :
                 LET bytes == SubSeq(wire, 1, n) IN
                 /\ wire' = SubSeq(wire, n + 1, Len(wire))
                 /\ mem' = IF direct THEN mem ELSE [mem EXCEPT ![b] = bytes]
                 /\ dec' = [dec EXCEPT !.getting = FALSE, !.buf = b, !.slots = 0, !.pos = 1,
                                       !.size = n, !.direct = direct,
                                       !.msg = IF direct THEN [@ EXCEPT !.data = @ \o bytes] ELSE @]
    /\ UNCHANGED <<sent, enc, got, freeing>>

(* size_ready: a message that lies in the buffer with all its bytes stays  *)
(* there, unless it is small, and one that does not gets memory of its own.*)
Begun(d, n) ==
    [d EXCEPT !.toRead = n, !.next = "message",
              !.msg = IF n > d.size THEN Own(IF n <= Vsm THEN "vsm" ELSE "lmsg", n)
                      ELSE IF n < Vsm THEN Own("vsm", n)
                      ELSE Within(d.buf, d.pos, n),
              !.slots = IF n > d.size \/ n < Vsm THEN @ ELSE @ + 1]

(* The steps of the decoder when what it waited for is read. *)
RECURSIVE Advance(_)
Advance(d) ==
    IF d.toRead > 0 THEN d
    ELSE CASE d.next = "flags" ->
                [d EXCEPT !.next = "size", !.toRead = IF d.tmp[1][2] THEN Wide ELSE 1, !.tmp = <<>>]
           [] d.next = "size" -> Advance(Begun([d EXCEPT !.tmp = <<>>], d.tmp[1][3]))
           [] d.next = "message" -> [d EXCEPT !.next = "flags", !.toRead = 1, !.ready = TRUE]

(* decode: until a message is complete or nothing is left. *)
RECURSIVE Decode(_)
Decode(d) ==
    IF d.direct
    THEN Advance([d EXCEPT !.toRead = @ - d.size, !.size = 0, !.direct = FALSE])
    ELSE IF d.ready \/ d.size = 0 THEN d
    ELSE LET n == Min({d.toRead, d.size})
             bytes == SubSeq(mem[d.buf], d.pos, d.pos + n - 1)
         IN  Decode(Advance(
                [d EXCEPT !.toRead = @ - n, !.pos = @ + n, !.size = @ - n,
                          !.tmp = IF d.next = "message" THEN @ ELSE @ \o bytes,
                          !.msg = IF d.next = "message" /\ d.msg.kind # "zc"
                                  THEN [@ EXCEPT !.data = @ \o bytes] ELSE @]))

(* What decode finds in the buffer, up to the end of a message. *)
InEvent ==
    /\ dec.alive /\ ~dec.getting /\ ~dec.ready /\ dec.size > 0
    /\ LET d == Decode(dec) IN
       /\ dec' = d
       /\ refs' = IF d.slots > dec.slots THEN [refs EXCEPT ![d.buf] = @ + 1] ELSE refs
    /\ UNCHANGED <<sent, enc, wire, mem, alive, got, freeing>>

(* The message goes into the pipe, now or when there is room. *)
Push ==
    /\ dec.alive /\ dec.ready
    /\ got' = Append(got, dec.msg)
    /\ dec' = [dec EXCEPT !.ready = FALSE, !.msg = Empty]
    /\ UNCHANGED <<sent, enc, wire, mem, refs, alive, freeing>>

(* The connection is lost or given up: ~v2_decoder_t closes the message in *)
(* progress and gives up the buffer.                                       *)
Freed(b) == alive' = alive \ {b} /\ mem' = [mem EXCEPT ![b] = <<>>]
Shares == 1 + (IF dec.msg.kind = "zc" THEN 1 ELSE 0)

Lose ==
    /\ dec.alive /\ ~dec.getting
    /\ refs' = [refs EXCEPT ![dec.buf] = @ - Shares]
    /\ IF refs[dec.buf] = Shares THEN Freed(dec.buf) ELSE UNCHANGED <<alive, mem>>
    /\ dec' = [NewDecoder(None) EXCEPT !.alive = FALSE]
    /\ enc' = NewEncoder /\ wire' = <<>>
    /\ UNCHANGED <<sent, got, freeing>>

-----------------------------------------------------------------------------
(* The application closes a message: call_dec_ref... *)
Close(i) ==
    /\ got[i] # Closed
    /\ LET b == got[i].buf IN
       IF b = None THEN UNCHANGED <<refs, freeing>>
       ELSE /\ refs' = [refs EXCEPT ![b] = @ - 1]
            /\ freeing' = IF refs[b] = 1 THEN freeing \cup {b} ELSE freeing
    /\ got' = [got EXCEPT ![i] = Closed]
    /\ UNCHANGED <<sent, enc, wire, dec, mem, alive>>

(* ...and free. *)
Free(b) ==
    /\ b \in freeing
    /\ freeing' = freeing \ {b}
    /\ Freed(b)
    /\ UNCHANGED <<sent, enc, wire, dec, refs, got>>

Next == \/ OutEvent \/ GetBuffer \/ Read \/ InEvent \/ Push \/ Lose
        \/ \E i \in DOMAIN got : Close(i)
        \/ \E b \in Buffers : Free(b)

Spec == Init /\ [][Next]_vars

-----------------------------------------------------------------------------
TypeOK ==
    /\ sent \in BoundedSeq(Sizes, MaxMsgs) /\ Len(wire) <= Window /\ Len(got) <= Len(sent)
    /\ alive \subseteq Buffers /\ freeing \subseteq Buffers
    /\ \A b \in Buffers : Len(mem[b]) <= InBatch /\ refs[b] \in 0..MaxMsgs + 1
    /\ enc.msg \in 0..Len(sent) /\ enc.next \in {"message", "size"}
    /\ dec.buf \in Buffers \cup {None} /\ dec.next \in {"flags", "size", "message"}
    /\ {enc.newMsg, enc.begun, enc.direct, dec.getting, dec.direct, dec.ready, dec.alive}
          \subseteq BOOLEAN

(* A message is, until it is closed, what was sent, and nothing else is    *)
(* received; when all bytes have been written and read, all messages are.  *)
Intact ==
    /\ \A i \in DOMAIN got : got[i] # Closed => got[i].size = sent[i] /\ Data(got[i]) = Body(i)
    /\ dec.alive /\ enc.out = <<>> /\ enc.write = <<>> /\ enc.newMsg /\ wire = <<>>
         /\ dec.size = 0 /\ ~dec.ready => Len(got) = Len(sent)

(* A buffer counts the messages in it and the decoder, lives as long as it *)
(* counts any, and is freed once; the room for the messages' counters      *)
(* suffices.  Bytes handed out by the encoder are there until written.     *)
Counted ==
    /\ \A b \in Buffers :
          LET n == Cardinality({i \in DOMAIN got : got[i].buf = b})
                   + (IF dec.msg.buf = b THEN 1 ELSE 0)
          IN  /\ refs[b] = n + (IF dec.buf = b /\ ~dec.getting THEN 1 ELSE 0)
              /\ b \in alive <=> n > 0 \/ dec.buf = b \/ b \in freeing
              /\ b \in freeing => n = 0 /\ dec.buf # b
    /\ dec.slots * Vsm <= InBatch
    /\ enc.direct /\ enc.out # <<>> => enc.msg # 0
=============================================================================
