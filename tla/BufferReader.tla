---------------------------- MODULE BufferReader ----------------------------
(***************************************************************************)
(* RJCommon/LibUvHelper.h: how a byte stream becomes messages again.       *)
(*                                                                         *)
(* Msg2Package puts a header (two magic bytes and the size) before every   *)
(* message; BufferReader::SetBuffer collects whatever chunks libuv reads,  *)
(* and hands on a message whenever one is complete.  RJTcpServer has one   *)
(* reader per connection, RJTcpClient one.                                 *)
(*                                                                         *)
(* A byte is known by the package it belongs to and its offset in it: the  *)
(* reader finds the magic in the first byte of its buffer and the size in  *)
(* the last byte of the header, wherever those bytes came from.            *)
(***************************************************************************)
EXTENDS Integers, Sequences

CONSTANTS HeadSize,    \* sizeof(PACKAGE_HEAD), 6
          InitCap,     \* m_buffer_size at first, 1 MB
          MaxChunk,    \* the largest read libuv asks for, 64 kB
          Sizes,       \* sizes of the messages the peer sends
          MaxFrames    \* bound: packages the peer sends

ASSUME ReaderAssumption == /\ HeadSize \in Nat \ {0}
                           /\ Sizes \subseteq Nat \ {0}
                           /\ MaxFrames \in Nat
                           /\ InitCap \in Nat /\ MaxChunk \in Nat
                           /\ MaxChunk <= InitCap

VARIABLES frames,   \* history: the packages sent, [size, good]
          stream,   \* history: their bytes
          net,      \* bytes sent and not yet read (external)
          buf,      \* m_msg_buffer[0 .. m_index - 1]
          cap,      \* m_buffer_size
          reader,   \* "idle", "loop" inside SetBuffer's while, or "undefined"
          taken,    \* history: bytes the reader has consumed
          got,      \* history: messages given to the callback
          errors    \* history: calls of the callback with (nullptr, -1)

readerVars == <<frames, stream, net, buf, cap, reader, taken, got, errors>>

ReaderInit ==
    /\ frames = <<>> /\ stream = <<>> /\ net = <<>>
    /\ buf = <<>> /\ cap = InitCap /\ reader = "idle"
    /\ taken = 0 /\ got = <<>> /\ errors = 0

-----------------------------------------------------------------------------
\* The bytes of package k with a message of the given size.
Msg2Package(k, size) == [i \in 1..HeadSize + size |-> <<k, i>>]

\* The peer sends a package; one that is not good has another magic.
PeerSends ==
    /\ Len(frames) < MaxFrames
    /\ \E size \in Sizes, good \in BOOLEAN :
         LET bytes == Msg2Package(Len(frames) + 1, size) IN
         /\ frames' = Append(frames, [size |-> size, good |-> good])
         /\ stream' = stream \o bytes
         /\ net' = net \o bytes
    /\ UNCHANGED <<buf, cap, reader, taken, got, errors>>

\* Mutant: the buffer is never enlarged.
CheckBufferLength_Keeps(size) == cap' = cap

\* Enlarges once, to twice the size, whatever is asked for.
CheckBufferLength(size) == cap' = IF size > cap THEN cap * 2 ELSE cap

\* SetBuffer(msg, size) up to its loop.
SetBuffer ==
    /\ reader = "idle"
    /\ \E n \in 1..MaxChunk :
         /\ n <= Len(net)
         /\ CheckBufferLength(Len(buf) + n)
         /\ buf' = buf \o SubSeq(net, 1, n)
         /\ net' = SubSeq(net, n + 1, Len(net))
    /\ reader' = "loop"
    /\ UNCHANGED <<frames, stream, taken, got, errors>>

\* What the bytes of the header say.
IsMagic(b) == b[2] = 1 /\ frames[b[1]].good
SizeIn(b) == frames[b[1]].size
MsgSize == SizeIn(buf[HeadSize])

\* Mutant: a message that ends exactly at the end of the buffer has to wait.
Complete_Strict == Len(buf) > HeadSize + MsgSize

Complete == Len(buf) >= HeadSize + MsgSize

\* Drops the package at the front and moves the rest to the start, by memcpy.
\* A rest longer than the package overlaps the place it is moved to: the copy
\* then may come out right, or leave bytes of which nothing is known.
Shift ==
    LET package == HeadSize + MsgSize IN
    /\ buf' = SubSeq(buf, package + 1, Len(buf))
    /\ taken' = taken + package
    /\ \/ UNCHANGED reader
       \/ Len(buf) - package > package /\ reader' = "undefined"

\* Mutant: the callback gets the package from its header on.
Deliver_WithHead ==
    /\ reader = "loop" /\ Len(buf) >= HeadSize
    /\ IsMagic(buf[1]) /\ Complete
    /\ got' = Append(got, SubSeq(buf, 1, MsgSize))
    /\ Shift
    /\ UNCHANGED <<frames, stream, net, cap, errors>>

Deliver ==
    /\ reader = "loop" /\ Len(buf) >= HeadSize
    /\ IsMagic(buf[1]) /\ Complete
    /\ got' = Append(got, SubSeq(buf, HeadSize + 1, HeadSize + MsgSize))
    /\ Shift
    /\ UNCHANGED <<frames, stream, net, cap, errors>>

\* Wrong magic: reported, and the loop is left with the buffer as it is.
Unpackage ==
    /\ reader = "loop" /\ Len(buf) >= HeadSize
    /\ ~IsMagic(buf[1])
    /\ errors' = errors + 1
    /\ reader' = "idle"
    /\ UNCHANGED <<frames, stream, net, buf, cap, taken, got>>

\* The loop ends: no whole header, or no whole message.
AwaitMore ==
    /\ reader = "loop"
    /\ Len(buf) >= HeadSize => IsMagic(buf[1]) /\ ~Complete
    /\ reader' = "idle"
    /\ UNCHANGED <<frames, stream, net, buf, cap, taken, got, errors>>

ReaderNext == PeerSends \/ SetBuffer \/ Deliver \/ Unpackage \/ AwaitMore

ReaderSpec == ReaderInit /\ [][ReaderNext]_readerVars

-----------------------------------------------------------------------------
Frames == [size : Sizes, good : BOOLEAN]
Bytes == (Nat \ {0}) \X (Nat \ {0})

(* The values the state may take; part of InBounds. *)
ReaderTypeOK ==
    /\ frames \in Seq(Frames) /\ Len(frames) <= MaxFrames
    /\ stream \in Seq(Bytes) /\ net \in Seq(Bytes) /\ buf \in Seq(Bytes)
    /\ cap \in Nat /\ cap >= InitCap /\ reader \in {"idle", "loop", "undefined"}
    /\ taken \in Nat /\ got \in Seq(Seq(Bytes)) /\ errors \in Nat

(***************************************************************************)
(* The state is well formed, the buffer never shrinks below its first      *)
(* size, and SetBuffer's memcpy never writes behind it.  CheckBufferLength *)
(* doubles only once per call, so this needs chunks no larger than the     *)
(* first buffer: true of libuv's 64 kB reads into 1 MB.                    *)
(***************************************************************************)
InBounds == ReaderTypeOK /\ Len(buf) <= cap

(***************************************************************************)
(* The k-th message handed on is the k-th message sent, whole, however the *)
(* stream was cut, and nothing passes a package with a wrong magic. It is  *)
(* shown up to the first overlapping memcpy (LibUvHelper.h:165) that does  *)
(* not come out right: from there on the C++ standard promises nothing.    *)
(***************************************************************************)
MessagesIntact ==
    \A k \in 1..Len(got) :
        /\ \A j \in 1..k : frames[j].good
        /\ got[k] = SubSeq(Msg2Package(k, frames[k].size), HeadSize + 1,
                           HeadSize + frames[k].size)

(***************************************************************************)
(* When SetBuffer returns no complete message waits in the buffer for the  *)
(* next chunk, which may never come; with the same reservation.            *)
(***************************************************************************)
NothingWithheld ==
    reader = "idle" /\ errors = 0 /\ Len(got) < Len(frames) =>
        Len(buf) < HeadSize + frames[Len(got) + 1].size
=============================================================================
