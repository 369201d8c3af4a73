----------------------------- MODULE BrokerStream -----------------------------
(***************************************************************************)
(* Frames that come over a stream.  The reader, which is not part of the   *)
(* library, keeps what it has read, and reads as many bytes as decoding    *)
(* says are missing, or less when less has arrived.                        *)
(***************************************************************************)
EXTENDS BrokerPackets

CONSTANTS
    Payloads,        \* those of the frames, in the order they are sent
    FrameRoom        \* the buffer a frame is encoded into

\* Payloads that do not fit are not sent.
ASSUME StreamAssumption ==
    /\ Payloads \in Seq(Seq(STRING)) /\ FrameRoom \in Nat
    /\ \A i \in DOMAIN Payloads : IsOk(EncodeFrame(Payloads[i], FrameRoom))

VARIABLES
    ahead,           \* bytes that were not read yet
    buffer,          \* bytes that were read, from the current frame on
    frames           \* the payloads decoded so far

streamVars == <<ahead, buffer, frames>>

FrameOf(payload) == EncodeFrame(payload, FrameRoom).val

StreamInit ==
    /\ ahead = FlattenSeq([i \in DOMAIN Payloads |-> FrameOf(Payloads[i])])
    /\ buffer = <<>>
    /\ frames = <<>>

\* The bytes of the frame, as_bytes(), are done with.
Deliver ==
    /\ IsOk(DecodeFrame(buffer))
    /\ frames' = Append(frames, DecodeFrame(buffer).val)
    /\ buffer' = DecodeFrame(buffer).rest
    /\ UNCHANGED ahead

ReadMore(n) ==
    /\ DecodeFrame(buffer).err \in {NeedMoreBytes(m) : m \in n .. FrameRoom}
    /\ n <= Len(ahead)
    /\ buffer' = buffer \o SubSeq(ahead, 1, n)
    /\ ahead' = After(n, ahead)
    /\ UNCHANGED frames

StreamNext == Deliver \/ \E n \in 1 .. FrameRoom : ReadMore(n)

StreamSpec == StreamInit /\ [][StreamNext]_streamVars

\* The frames come out as they went in, and a reader that reads what it is told to
\* never holds a byte of the next frame, which it might not be the one to read.
FramesKeptApart ==
    /\ IsPrefix(frames, Payloads)
    /\ IF Len(frames) = Len(Payloads) THEN buffer = <<>>
       ELSE IsPrefix(buffer, FrameOf(Payloads[Len(frames) + 1]))

=============================================================================
