------------------------------ MODULE Framing ------------------------------
(***************************************************************************)
(* The frames IPayloadSender writes and IPayloadReceiver reads: the        *)
(* payload's type, the size of its content, its content.                   *)
(*                                                                         *)
(* Payload n of a stream is represented by n, and sizes[n] is the size of  *)
(* its content.  The unit of the stream is the type (an enum), the size (a *)
(* size_t) or one byte of the content; where the bytes of a type or a size *)
(* are cut makes no difference to asio::async_write and asio::async_read,  *)
(* which complete when all of them are there.                              *)
(***************************************************************************)
EXTENDS Naturals, Sequences, SequencesExt

\* A unit says what it is, of which payload, and the size or the position it
\* carries.
StreamUnits == {"type", "size", "byte"} \X Nat \X Nat

\* The content of payload n, byte by byte.
Content(sizes, n) == [i \in 1..sizes[n] |-> <<"byte", n, i>>]

Frame(sizes, n) ==
    << <<"type", n, 0>>, <<"size", n, sizes[n]>> >> \o Content(sizes, n)

\* The stream of the first n payloads.
Frames(sizes, n) == FlattenSeq([i \in 1..n |-> Frame(sizes, i)])

\* What follows unit u in that stream: the size after the type, the bytes after
\* the size, the type of the next payload after the last byte.
UnitAfter(sizes, u) ==
    LET n == u[2]
        written == IF u[1] = "byte" THEN u[3] ELSE 0
    IN  IF u[1] = "type" THEN <<"size", n, sizes[n]>>
        ELSE IF written < sizes[n] THEN <<"byte", n, written + 1>>
        ELSE <<"type", n + 1, 0>>

\* What comes after the stream s.
NextUnit(sizes, s) ==
    IF s = <<>> THEN <<"type", 1, 0>> ELSE UnitAfter(sizes, s[Len(s)])

\* A stream cut somewhere, a prefix of Frames(sizes, Len(sizes)) said without
\* putting the frames together: it begins with the first payload, each unit is
\* the one after the unit before it, and none is of a payload there is not.
IsCutStream(s, sizes) ==
    /\ s # <<>> => s[1] = <<"type", 1, 0>>
    /\ \A k \in 1..(Len(s) - 1) : s[k + 1] = UnitAfter(sizes, s[k])
    /\ \A k \in 1..Len(s) : s[k][2] \in 1..Len(sizes)

\* A byte that belongs to no payload: uninitialised or freed memory, or the
\* zeros std::string::resize() appends.
Garbage == <<"byte", 0, 0>>
=============================================================================
