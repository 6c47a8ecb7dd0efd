-------------------------------- MODULE Bufio --------------------------------
(***************************************************************************)
(* bufio.c: the buffer between a terminal line and the code that reads it   *)
(* in lines, frames and single bytes.  Client and server are built from the *)
(* same file.  This module has the buffer and its operations; what is read, *)
(* in which order and with which deadline is up to the module that extends  *)
(* it.                                                                      *)
(*                                                                          *)
(* stream and taken are histories: all that was written to the line, and    *)
(* how much of it the reader was handed.                                    *)
(***************************************************************************)
EXTENDS Naturals, Sequences

CONSTANT Cap  \* sizeof buf (4096 bytes in the code)

ASSUME CapAssumption == Cap \in Nat \ {0}

VARIABLES
    stream,   \* the bytes written to the line, from the first one on
    fetched,  \* how many of them read() has returned
    buf,      \* the array; bytes that are left over behind the held ones are
              \* never read and stand as zeros
    start,    \* the held bytes are buf[start + 1] .. buf[start + len]
    len,
    taken     \* how many bytes the reader has been handed

bufioVars == <<stream, fetched, buf, start, len, taken>>

Held == [i \in 1 .. len |-> buf[start + i]]

Unread == SubSeq(stream, taken + 1, Len(stream))

\* The kernel has bytes that were not read yet.
Waiting == Len(stream) - fetched

\* bufio_init.
BufioInit ==
    /\ stream = <<>> /\ fetched = 0 /\ taken = 0
    /\ buf = [i \in 1 .. Cap |-> 0]
    /\ start = 0 /\ len = 0

\* The other side writes s: bufio_write, which goes on until all is written.
Put(s) ==
    /\ stream' = stream \o s
    /\ UNCHANGED <<fetched, buf, start, len, taken>>

\* Mutant of Moved: the bytes stay where they are.
MovedNot == buf

\* The array once the held bytes have moved to its beginning.
Moved == [i \in 1 .. Cap |-> IF i <= len THEN buf[start + i] ELSE 0]

\* Mutant of Room: one byte more than the array has.
RoomOneMore == (Cap + 1) - len

\* Mutant of Room: only what is behind the last held byte.
RoomBehind == Cap - (start + len)

Room == Cap - len

\* bufio_fill returns 1: read() has returned some of the bytes there are.
Fill ==
    /\ Room > 0
    /\ \E n \in 1 .. Room :
          /\ n <= Waiting
          /\ buf' = [i \in 1 .. Cap |-> IF i > len /\ i <= len + n
                                        THEN stream[fetched + (i - len)] ELSE Moved[i]]
          /\ fetched' = fetched + n
          /\ len' = len + n
    /\ start' = 0
    /\ UNCHANGED <<stream, taken>>

\* bufio_fill returns 0: the buffer is full, or the deadline has passed.
FillFails ==
    /\ buf' = Moved
    /\ start' = 0
    /\ UNCHANGED <<stream, fetched, len, taken>>

\* The reader is handed n of the held bytes.
Take(n) ==
    /\ n <= len
    /\ start' = start + n
    /\ len' = len - n
    /\ taken' = taken + n
    /\ UNCHANGED <<stream, fetched, buf>>

(***************************************************************************)
(* bufio_read_until: the places in s where t ends, and the first of them,   *)
(* if there is one.                                                         *)
(***************************************************************************)
Ends(s, t) == {i \in Len(t) .. Len(s) : SubSeq(s, (i - Len(t)) + 1, i) = t}

FirstEnd(s, t) == {i \in Ends(s, t) : \A j \in Ends(s, t) : i <= j}

(***************************************************************************)
(* Properties                                                               *)
(***************************************************************************)

BufioTypeOK ==
    /\ start \in Nat /\ len \in Nat /\ start + len <= Cap
    /\ taken \in Nat /\ fetched \in Nat /\ fetched <= Len(stream)
    /\ DOMAIN buf = 1 .. Cap

\* No byte is lost, repeated or changed in place between read() and the
\* reader: the held bytes are those of the line that come after the ones the
\* reader was handed, whatever was moved and refilled (bufio_fill, bufio_read
\* and bufio_read_until).
StreamKept ==
    /\ fetched = taken + len
    /\ \A i \in 1 .. len : buf[start + i] = stream[taken + i]
=============================================================================
