---------------------------- MODULE TCPMessages ----------------------------
(***************************************************************************)
(* Messages over a TCP connection (INOUT/cio_network.c): a header with the *)
(* length of the message, then its text.  write() and read() transfer as   *)
(* much as they like, at least one byte, and a message is complete when    *)
(* transmission_count has reached its length.                              *)
(*                                                                         *)
(* One direction of a connection is modelled.  A byte is a pair of the     *)
(* message it belongs to and its position there.                           *)
(***************************************************************************)
EXTENDS Integers, Sequences, FiniteSetsExt

CONSTANTS
    Texts,        \* the messages
    SizeOf,       \* bytes of their text
    HeaderSize,   \* sizeof(uint32_t)
    BufferSize,   \* TCP_BUF_SIZE-1
    WireCapacity  \* bytes the network holds

ASSUME SizesAssumption ==
    /\ SizeOf \in [Texts -> Nat \ {0}]
    /\ {HeaderSize, BufferSize, WireCapacity} \subseteq Nat \ {0}

VARIABLES
    out,         \* the messages to send, the first one in transmission
    out_count,   \* its transmission_count
    wire,        \* bytes in flight
    in_len,      \* msg->len of the message being received, -1 at first
    in_count,    \* its transmission_count
    in_header,   \* len_buf
    in_content   \* its text as far as it has been received

sender     == <<out, out_count>>
receiver   == <<in_len, in_count, in_header, in_content>>
connection == <<sender, wire, receiver>>

MsgLen(m) == SizeOf[m] + HeaderSize
BytesOf(m, from, to) == [i \in 1..(to - from + 1) |-> <<m, from + i - 1>>]
Junk    == <<"junk", 0>>
Garbled == <<"garbled", "">>
Incomplete == <<"incomplete", "">>

Upto(k, s)  == SubSeq(s, 1, k)
After(k, s) == SubSeq(s, k + 1, Len(s))

(* What a buffer with these bytes says: a message, or something else.      *)
TextOf(content) ==
    IF \E m \in Texts : content = BytesOf(m, HeaderSize + 1, MsgLen(m))
    THEN content[1][1] ELSE Garbled

(* TCPMsgUnpack, and TCPMsgAlloc for the next one *)
FreshMsg == in_len' = -1 /\ in_count' = 0 /\ in_header' = <<>> /\ in_content' = <<>>

ConnectionInit ==
    /\ out = <<>> /\ out_count = 0 /\ wire = <<>>
    /\ in_len = -1 /\ in_count = 0 /\ in_header = <<>> /\ in_content = <<>>

(* One write() of TCPMsgSend *)
TCPMsgWrite ==
    /\ out # <<>>
    /\ LET m == Head(out) IN
       \E k \in 1..Min({MsgLen(m) - out_count, WireCapacity - Len(wire)}) :
         /\ wire' = wire \o BytesOf(m, out_count + 1, out_count + k)
         /\ IF out_count + k = MsgLen(m)
            THEN out' = Tail(out) /\ out_count' = 0
            ELSE out_count' = out_count + k /\ UNCHANGED out
    /\ UNCHANGED receiver

(* The header part of TCPMsgRead: the length, once all of it has come.     *)
ReadHeader ==
    /\ in_count < HeaderSize
    /\ \E k \in 1..Min({HeaderSize - in_count, Len(wire)}) :
         /\ in_count'  = in_count + k
         /\ in_header' = in_header \o Upto(k, wire)
         /\ wire'      = After(k, wire)
         /\ in_len'    = IF in_count + k = HeaderSize
                         THEN MsgLen(in_header'[1][1]) ELSE in_len
    /\ UNCHANGED <<sender, in_content>>

(* Mutant: a read that was cut short is counted as a full one. *)
CountRequested(k, len) == len

(* What a read that returned k of len bytes adds to transmission_count.    *)
Transmitted(k, len) == k

(* The other part: read() returns k of the len bytes asked for.  The zero  *)
(* goes to buffer[len], not to buffer[k]: whatever the buffer holds        *)
(* between the two becomes part of the text, up to the first zero byte.    *)
(* result is the message, once it is complete.                             *)
ReadRest(result) ==
    /\ in_count >= HeaderSize
    /\ LET len == Min({BufferSize, in_len - in_count}) IN
       \E k \in 1..Min({len, Len(wire)}) :
       \E junk \in (IF k < len THEN {<<>>, <<Junk>>} ELSE {<<>>}) :
         LET text == in_content \o Upto(k, wire) \o junk IN
         /\ wire' = After(k, wire)
         /\ IF in_count + Transmitted(k, len) = in_len
            THEN result = TextOf(text) /\ FreshMsg
            ELSE /\ result = Incomplete
                 /\ in_count'   = in_count + Transmitted(k, len)
                 /\ in_content' = text
                 /\ UNCHANGED <<in_len, in_header>>
    /\ UNCHANGED sender

(* read() returns 0 *)
ConnClosed(closed) == closed /\ wire = <<>>

----------------------------------------------------------------------------
(* However reads and writes are cut, the two sides agree where a message   *)
(* begins: the bytes in flight continue the message being received and are *)
(* continued by the one being sent, so that no length is ever read from    *)
(* the middle of a text (TCPMsgRead believes whatever it finds there).     *)
InSync ==
    LET expected == in_count + 1
        follows(b, c) == \/ b[1] = c[1] /\ c[2] = b[2] + 1
                         \/ b[2] = MsgLen(b[1]) /\ c[2] = 1
    IN  /\ wire # <<>> => wire[1][2] = expected
        /\ \A i \in 1..(Len(wire) - 1) : follows(wire[i], wire[i + 1])
        /\ wire = <<>> /\ out # <<>> => out_count = in_count
        /\ wire # <<>> /\ out_count > 0 => wire[Len(wire)] = <<Head(out), out_count>>
=============================================================================
