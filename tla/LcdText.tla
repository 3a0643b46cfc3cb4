------------------------------ MODULE LcdText ------------------------------
(***************************************************************************)
(* How text gets onto the lcd and a packet gets its checksum               *)
(* (util.go, blurb.go, spinner.go, packet.go of pkg/hw/cfa).                *)
(*                                                                          *)
(* A text is a sequence of characters: 0 is the space and every other       *)
(* character is a number of its own, so that one that is lost or moved      *)
(* shows.  Columns and rows count from 0, as in the code.                   *)
(***************************************************************************)
EXTENDS Integers, Sequences, SequencesExt, FiniteSetsExt, Bitwise

Space == 0
Wider == -2   \* the signs for text that is off screen, to the left
Further == -3 \* and to the right

Blanks(n) == [i \in 1 .. n |-> Space]

\* ---------------------------------------------------------------- lines

\* The bug of a break that does not know of words.
WrapAnywhere(msg, w) == IF Len(msg) < w THEN Len(msg) ELSE w

\* Where to break a text: before the last space that leaves at most w
\* characters; 0 if there is none, or none but at the start.
WrapPos(msg, w) ==
  IF Len(msg) <= w THEN Len(msg)
  ELSE LET spaces == {i \in 1 .. w + 1 : msg[i] = Space}
       IN IF spaces = {} THEN 0 ELSE Max(spaces) - 1

TrimLeft(msg) ==
  LET texts == {i \in 1 .. Len(msg) : msg[i] # Space}
  IN IF texts = {} THEN << >> ELSE SubSeq(msg, Min(texts), Len(msg))

\* Lines of at most w characters, and no more than rows + 1 of them.
RECURSIVE FitFrom(_, _, _, _)
FitFrom(lines, msg, w, rows) ==
  IF msg = << >> \/ Len(lines) > rows THEN lines
  ELSE LET wrap == WrapPos(msg, w)
           cut  == IF wrap = 0 THEN Min({Len(msg), w}) ELSE wrap
       IN FitFrom(Append(lines, SubSeq(msg, 1, cut)), TrimLeft(SubSeq(msg, cut + 1, Len(msg))), w, rows)
Fit(msg, w, rows) == FitFrom(<< >>, msg, w, rows)

\* A line made exactly w wide.
Padcate(line, w) ==
  LET kept == SubSeq(line, 1, Min({Len(line), w})) IN kept \o Blanks(w - Len(kept))

\* What a window of rows + 1 lines shows.
Window(lines, w, rows) ==
  [r \in 0 .. rows |-> Padcate(IF r < Len(lines) THEN lines[r + 1] ELSE << >>, w)]

\* ---------------------------------------------------------------- blurbs

BlurbKind(msg, w, rows) ==
  IF Len(Fit(msg, w, 255)) <= rows + 1 THEN "still"
  ELSE IF rows > 0 THEN "vertical" ELSE "horizontal"

\* A blurb that scrolls up: the line at its top, and then the next one.
VertWindow(lines, top, w, rows) == Window(SubSeq(lines, top + 1, Len(lines)), w, rows)
VertNext(lines, top) == IF top >= Len(lines) THEN 0 ELSE top + 1

\* The part of a text that is shown, with signs where it goes on.  What is
\* to the right is told by the sum of two bytes.
Visible(txt, start, w) ==
  IF start >= Len(txt) \/ w = 0 THEN << >>
  ELSE LET vis == SubSeq(txt, start + 1, Min({Len(txt), start + w}))
           more == (start + w) % 256 < Len(txt)
       IN IF w <= 3 THEN vis
          ELSE [i \in 1 .. Len(vis) |->
                  IF i = Len(vis) /\ more THEN Further
                  ELSE IF i = 1 /\ start # 0 THEN Wider ELSE vis[i]]

\* A blurb that scrolls sideways waits at both ends of its text.
LastPos(txt, w) == Len(txt) - w
HorizPos(txt, w, state) ==
  Min({LastPos(txt, w), IF state <= 2 THEN 0 ELSE state - 2})
HorizNext(txt, w, state) == IF state + 1 > LastPos(txt, w) + 4 THEN 0 ELSE state + 1

\* ---------------------------------------------------------------- spinner

\* Msg says where its lines end.  Taking the last column for the width, it
\* leaves that column free.
MsgEnd(msg, max) ==
  LET lines == Fit(msg, max.col, max.row)
  IN IF lines = << >> THEN [row |-> 0, col |-> 0]
     ELSE [row |-> Len(lines) - 1, col |-> Len(Last(lines))]

\* A space is left before the spinner where there is room.
SpinnerAt(msg, max) ==
  LET end == MsgEnd(msg, max)
  IN IF end.col + 2 <= max.col THEN [end EXCEPT !.col = @ + 2]
     ELSE IF end.row < max.row THEN [row |-> end.row + 1, col |-> 0]
     ELSE [end EXCEPT !.col = max.col]

\* --------------------------------------------------------------- checksum

\* One bit of a byte goes into the checksum.
CrcBit(crc, bit) ==
  LET shifted == crc \div 2 IN IF crc % 2 # bit THEN shifted ^^ 33800 ELSE shifted

CrcByte(crc, byte) ==
  FoldLeft(LAMBDA c, i : CrcBit(c, (byte \div 2^i) % 2), crc, [j \in 1 .. 8 |-> j - 1])

CfCrc(bytes) ==
  LET crc == 65535 - FoldLeft(CrcByte, 65535, bytes)
  IN (crc % 256) * 256 + crc \div 256

\* The checksum of a packet: command, length and data.
Crc(packet) == CfCrc(<<packet.command, Len(packet.data)>> \o packet.data)

\* A packet as it goes out, and whether one that comes in is accepted.
Buf(packet) == packet @@ [crc |-> Crc(packet)]
Validate(packet) == Crc(packet) = packet.crc
WriteTo(packet) ==
  LET out == Buf(packet)
  IN <<out.command, Len(out.data)>> \o out.data \o <<out.crc \div 256, out.crc % 256>>

\* What comes in is a response or a report of a key; after a header that is
\* neither, the port is flushed.  A packet that is refused or that ends early
\* is read to its end, wherever its length says that is.
Type(command) == command \div 64
Response      == 1
ReportKey     == 128
MaxDataLength == 22

BadHeader(in) == (Type(in[1]) # Response /\ in[1] # ReportKey) \/ in[2] > MaxDataLength
GetPacket(in) ==
  IF Len(in) < 2 \/ BadHeader(in) \/ Len(in) < in[2] + 4
  THEN [got |-> <<>>, rest |-> <<>>]
  ELSE LET end    == in[2] + 2
           packet == [command |-> in[1], data |-> SubSeq(in, 3, end)]
           crc    == in[end + 1] * 256 + in[end + 2]
       IN [got  |-> IF Validate(packet @@ [crc |-> crc]) THEN <<packet>> ELSE <<>>,
           rest |-> SubSeq(in, end + 3, Len(in))]

\* All packets the reader makes of what comes in.
Incoming(in) ==
  FoldLeft(LAMBDA acc, i : LET next == GetPacket(acc.rest) IN [got |-> acc.got \o next.got, rest |-> next.rest],
           [got |-> <<>>, rest |-> in], in).got
=============================================================================
