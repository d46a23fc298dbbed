------------------------------ MODULE Framing ------------------------------
(***************************************************************************)
(* rdc_stream: the walk over framed chunks.  The stream is a sequence of   *)
(* bytes, as the capture writer lays them out: a header with the chunk's   *)
(* id and flags, the optional fields the flags name, the length in four    *)
(* bytes or eight, the payload, padding to the alignment.  It may be cut   *)
(* anywhere.  Of a field of several bytes the first one stands for the     *)
(* value, which is read only where all of them are there.                  *)
(***************************************************************************)
EXTENDS Integers, Sequences, FiniteSets, FiniteSetsExt, SequencesExt

CONSTANTS Chunks,       \* the chunks a capture may hold: [id, flags, frames, len]
          Align         \* the alignment, in bytes

ASSUME FramingAssumption ==
    /\ Align \in Nat \ {0}
    /\ \A c \in Chunks : c.id # 0 /\ c.frames \in Nat /\ c.len \in Nat

VARIABLES written,      \* the chunks laid out
          cut           \* how many bytes of the last chunk's frame are missing

framingVars == <<written, cut>>

Byte(n) == [id |-> 0, flags |-> {}, n |-> n]
Fill(k) == [i \in 1..k |-> Byte(0)]
Field(b, size) == [i \in 1..size |-> IF i = 1 THEN b ELSE Byte(0)]
AlignUp(pos) == ((pos + Align - 1) \div Align) * Align

Frame_(c) ==
    Field([id |-> c.id, flags |-> c.flags, n |-> 0], 4)
      \o (IF "callstack" \in c.flags THEN Field(Byte(c.frames), 4 + 8 * c.frames) ELSE <<>>)
      \o Fill(8 * Cardinality(c.flags \cap {"threadid", "duration", "timestamp"}))
      \o Field(Byte(c.len), IF "size64" \in c.flags THEN 8 ELSE 4)
      \o Fill(c.len)

Laid(chunks) ==
    FoldLeft(LAMBDA data, c : LET w == data \o Frame_(c) IN w \o Fill(AlignUp(Len(w)) - Len(w)),
             <<>>, chunks)

Stream == SubSeq(Laid(written), 1, Len(Laid(written)) - cut)

\* If every length were read from four bytes ...
ReadFrameShortLength(data, pos) ==
    LET c == data[pos + 1]
        stacked == "callstack" \in c.flags /\ pos + 8 <= Len(data)
        metadata == pos + 4 + 8 * Cardinality(c.flags \cap {"threadid", "duration", "timestamp"})
                      + (IF stacked THEN 4 + 8 * data[pos + 5].n ELSE 0)
        len == data[metadata + 1].n
    IN  IF c.id = 0 THEN [what |-> "end"]
        ELSE IF metadata + 4 > Len(data) \/ len > Len(data) - metadata - 4 THEN [what |-> "bad"]
        ELSE [what |-> "chunk", id |-> c.id, at |-> pos, payload |-> metadata + 4, len |-> len,
              next |-> AlignUp(metadata + 4 + len)]

(***************************************************************************)
(* ... where _read_frame, at a position counted from 0, answers "end" at a *)
(* terminator, "bad" (FrameError) where the frame claims bytes the stream  *)
(* does not hold, "crash" (struct.error) where the stack's own count is    *)
(* not all there.                                                          *)
(***************************************************************************)
ReadFrame(data, pos) ==
    LET c == data[pos + 1]
        stacked == "callstack" \in c.flags
        metadata == pos + 4 + 8 * Cardinality(c.flags \cap {"threadid", "duration", "timestamp"})
                      + (IF stacked /\ pos + 8 <= Len(data) THEN 4 + 8 * data[pos + 5].n ELSE 0)
        payload == metadata + (IF "size64" \in c.flags THEN 8 ELSE 4)
        len == data[metadata + 1].n
    IN  IF c.id = 0 THEN [what |-> "end"]
        ELSE IF stacked /\ pos + 8 > Len(data) THEN [what |-> "crash"]
        ELSE IF payload > Len(data) \/ len > Len(data) - payload THEN [what |-> "bad"]
        ELSE [what |-> "chunk", id |-> c.id, at |-> pos, payload |-> payload, len |-> len,
              next |-> AlignUp(payload + len)]

\* The walk ends where no header fits, at a terminator or at the first frame that cannot be true.
Walk(data) ==
    LET ends(verdict) == [chunks |-> <<>>, verdict |-> verdict]
        from[pos \in 0..(Len(data) + Align)] ==
            IF pos + 4 > Len(data) THEN ends("clean")
            ELSE LET f == ReadFrame(data, pos)
                 IN  IF f.what = "chunk"
                     THEN [chunks |-> <<[id |-> f.id, len |-> f.len]>> \o from[f.next].chunks,
                           verdict |-> from[f.next].verdict]
                     ELSE IF f.what = "end" THEN ends("clean") ELSE ends(f.what)
    IN  from[0]

FramingInit == written = <<>> /\ cut = 0
FramingNext ==
    \/ cut = 0 /\ \E c \in Chunks : written' = Append(written, c) /\ UNCHANGED cut
    \/ cut = 0 /\ written # <<>>
       /\ \E k \in 1..(Len(Laid(written)) - Len(Laid(Front(written)))) : cut' = k
       /\ UNCHANGED written
FramingSpec == FramingInit /\ [][FramingNext]_framingVars

(***************************************************************************)
(* The walk sees exactly the chunks whose payload is whole, whatever       *)
(* optional fields they carry.  A cut in the padding of the last chunk is  *)
(* clean and loses nothing; of a frame cut short the walk speaks only      *)
(* where its header is all there: with three bytes of it or fewer left the *)
(* stream reads as clean, one chunk short (`while pos + 4 <= len(stream)`, *)
(* rdc_stream.py:467), a count of stack frames that is not all there       *)
(* raises (347), and any other cut is reported.                            *)
(***************************************************************************)
WalkIsTheLayout ==
    LET last == written[Len(written)]
        left == Len(Stream) - Len(Laid(Front(written)))
        whole == written = <<>> \/ left >= Len(Frame_(last))
        seen == IF whole THEN written ELSE Front(written)
    IN  Walk(Stream) =
          [chunks |-> [i \in 1..Len(seen) |-> [id |-> seen[i].id, len |-> seen[i].len]],
           verdict |-> IF whole \/ left < 4 THEN "clean"
                       ELSE IF "callstack" \in last.flags /\ left < 8 THEN "crash" ELSE "bad"]
=============================================================================
