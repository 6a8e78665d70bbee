------------------------------- MODULE WsFrames -------------------------------
(***************************************************************************)
(* The bytes of a WebSocket connection of wsd (server.c:260-303, 500-697,  *)
(* 764-871): frames of a browser that come in pieces, and frames for it    *)
(* that the socket takes in pieces.  A byte has Base values, of which a    *)
(* char takes the upper half for negative.  The second byte of a frame is  *)
(* a payload length below Len16, or Len16 and two bytes of length follow,  *)
(* or Len64 and eight.  FIN and the mask bit, which nobody looks at, are    *)
(* left out of the first two bytes.                                        *)
(***************************************************************************)
EXTENDS Integers, Sequences

CONSTANTS
    Base,
    Len16,                      \* WS_PAYLOAD_LEN16
    TextFrame, PongFrame, ClosingFrame,   \* the opcodes that wsd knows
    Xor(_, _),
    Inputs,                     \* what the browser may send: [op, code, mask, data]
    PingWord, CloseWord,        \* payloads that mean more: "ping" and "close"
    Hellos,                     \* what strlen makes of ping[], which has no NUL
    Outputs,                    \* messages for the browser
    WrongMessage,               \* WS_WRONG_MESSAGE
    MaxOutBuff,                 \* MAX_OUTBUFF_SIZE
    MaxRead,                    \* the 1024 bytes of a recv, MAX_BUFF_WRITE too
    MaxFrames                   \* bound: frames in either direction

Len64 == Len16 + 1
Byte == 0 .. Base - 1
Word == Base * Base * Base * Base * Base * Base * Base * Base   \* values of a size_t

\* The browser's frames give their lengths in any of the three ways.
ASSUME FramesAssumption ==
    /\ Base \in Nat /\ Len16 \in Nat /\ Len64 < Base
    /\ {TextFrame, PongFrame, ClosingFrame} \subseteq Byte
    /\ TextFrame # PongFrame /\ TextFrame # ClosingFrame /\ PongFrame # ClosingFrame
    /\ \A x, m \in Byte : Xor(x, m) \in Byte /\ Xor(Xor(x, m), m) = x
    /\ \A f \in Inputs :
        /\ f \in [op : Byte, code : 0 .. Len64, mask : [1 .. 4 -> Byte], data : Seq(Byte)]
        /\ CASE f.code = Len64 -> 14 + Len(f.data) < Word
             [] f.code = Len16 -> Len(f.data) < Base * Base
             [] OTHER -> Len(f.data) = f.code
    /\ Hellos \subseteq Seq(Byte) /\ Outputs \subseteq Seq(Byte) /\ WrongMessage \in Seq(Byte)
    /\ MaxRead \in Nat

VARIABLES
    sending,           \* bytes of the browser that were not read
    buf, out,          \* buffer_read and buffer_write
    visiting,          \* the loop of process_client_read is not done
    closeIt, opened, crashed,
    handed,            \* payloads processed
    got, shown,        \* bytes the browser has, and messages it made of others
    sent, queued       \* history: frames of the browser, messages put in buffer_write

incoming == <<sending, buf, visiting, closeIt, opened, crashed, handed, sent>>
outgoing == <<out, got, shown, queued>>
fvars == <<incoming, outgoing>>

FrameInit ==
    /\ sending = <<>> /\ buf = <<>> /\ visiting = FALSE /\ handed = <<>> /\ sent = <<>>
    /\ closeIt = FALSE /\ opened = TRUE /\ crashed = FALSE
    /\ out = <<>> /\ got = <<>> /\ shown = <<>> /\ queued = <<>>

Eight(n) ==
    LET n7 == n \div Base   n6 == n7 \div Base   n5 == n6 \div Base   n4 == n5 \div Base
        n3 == n4 \div Base  n2 == n3 \div Base   n1 == n2 \div Base
    IN  <<n1 % Base, n2 % Base, n3 % Base, n4 % Base, n5 % Base, n6 % Base, n7 % Base, n % Base>>

LengthBytes(code, n) ==
    IF code = Len64 THEN Eight(n)
    ELSE IF code = Len16 THEN <<n \div Base, n % Base>>
    ELSE <<>>

Masked(data, mask) == [i \in 1 .. Len(data) |-> Xor(data[i], mask[((i - 1) % 4) + 1])]

\* A frame of a browser, and one for it.
Frame(f) == <<f.op, f.code>> \o LengthBytes(f.code, Len(f.data)) \o f.mask \o Masked(f.data, f.mask)

FrameTo(message) ==
    LET n == Len(message)
        code == IF n < Len16 THEN n ELSE Len16
    IN  <<TextFrame, code>> \o LengthBytes(code, n) \o message

Number(w) ==
    ((((((w[1] * Base + w[2]) * Base + w[3]) * Base + w[4]) * Base + w[5]) * Base + w[6]) * Base + w[7]) * Base + w[8]

\* The 64-bit length is put together from chars with |: a negative one sets all bits above.
Wide(b) == [i \in 1 .. 8 |-> IF \E j \in i + 1 .. 8 : b[2 + j] >= Base \div 2 THEN Base - 1 ELSE b[2 + i]]

Length(b) ==
    IF b[2] = Len64 THEN Number(Wide(b)) ELSE IF b[2] = Len16 THEN Base * b[3] + b[4] ELSE b[2]

\* Variant: the header of a long frame counts one byte of its length too few.
HeaderShort(code) == 6 + (IF code = Len64 THEN 7 ELSE IF code = Len16 THEN 2 ELSE 0)

\* The cursor behind a header: two bytes, the length and the masking key.
Header(code) == 6 + (IF code = Len64 THEN 8 ELSE IF code = Len16 THEN 2 ELSE 0)

\* How much process_client_ws waits for.  The sum is a size_t for a 64-bit length.
Needed(b) == IF b[2] = Len64 THEN (Header(b[2]) + Length(b)) % Word ELSE Header(b[2]) + Length(b)

Whole(b) == Len(b) >= 2 /\ Len(b) >= Header(b[2]) /\ Len(b) >= Needed(b)

\* The payload, without its mask.
Payload(b) ==
    LET h == Header(b[2])
    IN  [i \in 1 .. Length(b) |-> Xor(b[h + i], b[h - 3 + ((i - 1) % 4)])]

\* io_buff_get of the first n bytes.
Consumed(b, n) == SubSeq(b, n + 1, Len(b))
-----------------------------------------------------------------------------
(* The browser                                                             *)

MayAdd == Len(sent) + Len(queued) < MaxFrames

\* It sends a frame; after the closing one it sends no more.
Sends == \E f \in Inputs :
    /\ MayAdd /\ \A i \in 1 .. Len(sent) : sent[i].op # ClosingFrame
    /\ sending' = sending \o Frame(f)
    /\ sent' = Append(sent, f)
    /\ UNCHANGED <<buf, visiting, closeIt, opened, crashed, handed, outgoing>>

\* Where the payload of a frame for it starts, and how long it is.
Lead(b) == 2 + (IF b[2] = Len64 THEN 8 ELSE IF b[2] = Len16 THEN 2 ELSE 0)
Extent(b) == Lead(b) + (IF b[2] = Len64 THEN Number([i \in 1 .. 8 |-> b[2 + i]])
                        ELSE IF b[2] = Len16 THEN Base * b[3] + b[4] ELSE b[2])
HasFrame(b) == Len(b) >= 2 /\ Len(b) >= Lead(b) /\ Len(b) >= Extent(b)

Shows ==
    /\ HasFrame(got)
    /\ shown' = Append(shown, SubSeq(got, Lead(got) + 1, Extent(got)))
    /\ got' = SubSeq(got, Extent(got) + 1, Len(got))
    /\ UNCHANGED <<incoming, out, queued>>
-----------------------------------------------------------------------------
(* wsd                                                                     *)

\* process_client_ws_sendn_frame: a message too long is not sent, and one for a buffer
\* over its limit is dropped.
SendFrame(message) ==
    LET fits == Len(message) < Base * Base /\ Len(out) <= MaxOutBuff
    IN  /\ out' = IF fits THEN out \o FrameTo(message) ELSE out
        /\ queued' = IF fits THEN Append(queued, message) ELSE queued
        /\ UNCHANGED <<got, shown>>

\* ws_client_send_message; also from what process_client_ws does with a message.
SendMessage == \E message \in Outputs :
    /\ MayAdd /\ opened /\ ~closeIt /\ ~crashed
    /\ SendFrame(message)
    /\ UNCHANGED incoming

\* process_client_read: recv.  A client to be closed is not visited again.
Reads == \E n \in 1 .. MaxRead :
    /\ opened /\ ~visiting /\ ~closeIt /\ ~crashed /\ n <= Len(sending)
    /\ buf' = buf \o SubSeq(sending, 1, n)
    /\ sending' = Consumed(sending, n)
    /\ visiting' = TRUE
    /\ UNCHANGED <<closeIt, opened, crashed, handed, sent, outgoing>>

\* process_client_ws, a turn of the loop: it waits for more bytes.
Knows(op) == op \in {TextFrame, PongFrame}
Waits ==
    /\ visiting
    /\ Len(buf) < 2 \/ (Knows(buf[1]) /\ ~Whole(buf))
    /\ visiting' = FALSE
    /\ UNCHANGED <<sending, buf, closeIt, opened, crashed, handed, sent, outgoing>>

\* A closing frame.
Closes ==
    /\ visiting /\ Len(buf) >= 2 /\ buf[1] = ClosingFrame
    /\ closeIt' = TRUE /\ visiting' = FALSE
    /\ UNCHANGED <<sending, buf, opened, crashed, handed, sent, outgoing>>

\* A frame of another kind: the browser is sent raw text, and two bytes are taken.
Refuses ==
    /\ visiting /\ Len(buf) >= 2 /\ buf[1] # ClosingFrame /\ ~Knows(buf[1])
    /\ out' = out \o WrongMessage
    /\ buf' = Consumed(buf, 2)
    /\ visiting' = (Len(buf) > 2)
    /\ UNCHANGED <<sending, closeIt, opened, crashed, handed, sent, got, shown, queued>>

\* A length that wrapped: the payload is read past the end of the buffer.
Overruns ==
    /\ visiting /\ Len(buf) >= 2 /\ Knows(buf[1])
    /\ Whole(buf) /\ Len(buf) < Header(buf[2]) + Length(buf)
    /\ crashed' = TRUE /\ visiting' = FALSE
    /\ UNCHANGED <<sending, buf, closeIt, opened, handed, sent, outgoing>>

\* A whole frame.  process_client_ws_text_frame, for a short one, answers "ping" and
\* notes "close"; it goes on with what is left either way.
Takes ==
    LET end == Header(buf[2]) + Length(buf)
        short == buf[2] < Len16
        payload == Payload(buf)
    IN  /\ visiting /\ Len(buf) >= 2 /\ Knows(buf[1])
        /\ Whole(buf) /\ Len(buf) >= end
        /\ handed' = Append(handed, payload)
        /\ closeIt' = (closeIt \/ (short /\ payload = CloseWord))
        /\ \/ short /\ payload = PingWord /\ \E hello \in Hellos : SendFrame(hello)
           \/ ~(short /\ payload = PingWord) /\ UNCHANGED outgoing
        /\ buf' = Consumed(buf, end)
        /\ visiting' = (Len(buf) > end)
        /\ UNCHANGED <<sending, opened, crashed, sent>>

\* process_client_write: the socket takes some of it.  process_clients then closes a
\* client that is to be closed.
Writes == \E n \in 1 .. MaxRead :
    /\ opened /\ ~visiting /\ ~crashed /\ n <= Len(out)
    /\ got' = got \o SubSeq(out, 1, n)
    /\ out' = Consumed(out, n)
    /\ opened' = ~closeIt
    /\ UNCHANGED <<sending, buf, visiting, closeIt, crashed, handed, sent, shown, queued>>

CloseClient ==
    /\ opened /\ ~visiting /\ closeIt
    /\ opened' = FALSE
    /\ UNCHANGED <<sending, buf, visiting, closeIt, crashed, handed, sent, outgoing>>

FrameNext ==
    \/ Sends \/ Shows
    \/ SendMessage \/ Reads \/ Writes \/ CloseClient
    \/ Waits \/ Closes \/ Refuses \/ Overruns \/ Takes

FrameSpec == FrameInit /\ [][FrameNext]_fvars
-----------------------------------------------------------------------------
(* Properties                                                              *)

\* A frame that wsd does not stay in step with: one with an opcode it does not know,
\* of which it leaves all but two bytes in the buffer (server.c:571), and one whose
\* 64-bit length has a byte over 127, but for the first (server.c:658).
OutOfStep(f) ==
    \/ f.op \notin {TextFrame, PongFrame, ClosingFrame}
    \/ (f.code = Len64 /\ \E j \in 2 .. 8 : Eight(Len(f.data))[j] >= Base \div 2)

\* However recv and send cut the stream, frames do not run into each other: every
\* payload of the browser is processed once, whole and in order, and none waits for
\* bytes that are not part of it; and the browser finds in its bytes exactly the
\* messages that were put in the buffer.  The two kinds of frames above end this.
FramesInStep ==
    (\A i \in 1 .. Len(sent) : ~OutOfStep(sent[i])) =>
        /\ ~crashed
        /\ Len(handed) <= Len(sent)
        /\ \A i \in 1 .. Len(handed) : handed[i] = sent[i].data /\ sent[i].op # ClosingFrame
        /\ sending = <<>> /\ ~visiting =>
            /\ \A i \in Len(handed) + 1 .. Len(sent) : sent[i].op = ClosingFrame /\ closeIt
            /\ Len(handed) = Len(sent) => buf = <<>>
        /\ Len(shown) <= Len(queued)
        /\ \A i \in 1 .. Len(shown) : shown[i] = queued[i]
        /\ out = <<>> /\ ~HasFrame(got) => got = <<>> /\ shown = queued
=============================================================================
