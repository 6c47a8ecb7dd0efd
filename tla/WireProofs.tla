----------------------------- MODULE WireProofs ------------------------------
(***************************************************************************)
(* Wire, for every number of callers, every request and every buffer size:  *)
(* the types, and that the buffer keeps the stream.  The two are inductive  *)
(* together: which bytes a frame is made of follows from StreamKept.        *)
(*                                                                          *)
(* The operations of Bufio come first; each keeps the invariant whoever     *)
(* calls it and with whatever bytes.  Then what the messages add to it: how *)
(* much can pile up without an end of line, and that the server reads whole *)
(* frames only from their beginning.                                        *)
(***************************************************************************)
EXTENDS Wire, FiniteSetTheorems, SequenceTheorems, TLAPS

BufioInv == BufioTypeOK /\ StreamKept /\ stream \in Seq(Byte)

(***************************************************************************)
(* bufio.c                                                                  *)
(***************************************************************************)

LEMMA BufioStarts == BufioInit => BufioInv
  BY CapAssumption DEF BufioInit, BufioInv, BufioTypeOK, StreamKept, Byte

LEMMA PutKeeps ==
  ASSUME BufioInv, NEW s \in Seq(Byte), Put(s)
  PROVE  BufioInv'
<1>1. stream' \in Seq(Byte) /\ Len(stream') = Len(stream) + Len(s)
  BY DEF Put, BufioInv
<1>2. \A i \in 1 .. len : stream'[taken + i] = stream[taken + i]
  <2> SUFFICES ASSUME NEW i \in 1 .. len PROVE stream'[taken + i] = stream[taken + i]
    OBVIOUS
  <2>1. taken + i \in 1 .. Len(stream)
    BY DEF BufioInv, BufioTypeOK, StreamKept
  <2> QED BY <2>1 DEF Put, BufioInv
<1>3. UNCHANGED <<fetched, buf, start, len, taken>>
  BY DEF Put
<1>4. BufioTypeOK'
  BY <1>1, <1>3 DEF BufioInv, BufioTypeOK
<1>5. StreamKept'
  BY <1>2, <1>3 DEF BufioInv, StreamKept
<1> QED BY <1>1, <1>4, <1>5 DEF BufioInv

LEMMA MovedHolds ==
  ASSUME BufioInv
  PROVE  /\ DOMAIN Moved = 1 .. Cap
         /\ len \in 0 .. Cap
         /\ \A i \in 1 .. len : Moved[i] = stream[taken + i]
<1>1. len \in 0 .. Cap
  BY CapAssumption DEF BufioInv, BufioTypeOK
<1>2. DOMAIN Moved = 1 .. Cap
  BY DEF Moved
<1>3. ASSUME NEW i \in 1 .. len PROVE Moved[i] = stream[taken + i]
  <2>1. i \in 1 .. Cap /\ i <= len
    BY <1>1, CapAssumption
  <2> QED BY <2>1 DEF Moved, BufioInv, StreamKept
<1> QED BY <1>1, <1>2, <1>3

LEMMA FillFailsKeeps ==
  ASSUME BufioInv, FillFails
  PROVE  BufioInv'
<1>1. \A i \in 1 .. len' : buf'[start' + i] = stream'[taken' + i]
  <2>1. UNCHANGED <<stream, len, taken>> /\ start' = 0 /\ buf' = Moved
    BY DEF FillFails
  <2>2. ASSUME NEW i \in 1 .. len PROVE buf'[0 + i] = stream[taken + i]
    BY <2>1, MovedHolds
  <2> QED BY <2>1, <2>2
<1> QED BY <1>1, MovedHolds, CapAssumption DEF FillFails, BufioInv, BufioTypeOK, StreamKept

LEMMA FillKeeps ==
  ASSUME BufioInv, Fill
  PROVE  BufioInv'
<1>1. PICK n \in 1 .. Room :
         /\ n <= Waiting
         /\ buf' = [i \in 1 .. Cap |-> IF i > len /\ i <= len + n
                                       THEN stream[fetched + (i - len)] ELSE Moved[i]]
         /\ fetched' = fetched + n
         /\ len' = len + n
  BY DEF Fill
<1>2. start' = 0 /\ UNCHANGED <<stream, taken>>
  BY DEF Fill
<1>3. len \in Nat /\ fetched \in Nat /\ taken \in Nat /\ Len(stream) \in Nat
  BY DEF BufioInv, BufioTypeOK
<1>4. n \in Nat /\ len + n <= Cap /\ fetched + n <= Len(stream)
  BY <1>1, <1>3, CapAssumption DEF Room, Waiting
<1>5. \A i \in 1 .. len + n : buf'[i] = stream[taken + i]
  <2> SUFFICES ASSUME NEW i \in 1 .. len + n PROVE buf'[i] = stream[taken + i]
    OBVIOUS
  <2>1. i \in 1 .. Cap
    BY <1>3, <1>4, CapAssumption
  <2>2. CASE i <= len
    BY <2>1, <2>2, <1>1, <1>3, MovedHolds
  <2>3. CASE i > len
    <3>1. fetched + (i - len) = taken + i
      BY <1>3, <2>3 DEF BufioInv, StreamKept
    <3> QED BY <2>1, <2>3, <3>1, <1>1, <1>3, <1>4
  <2> QED BY <2>2, <2>3, <1>3
<1>6. BufioTypeOK'
  BY <1>1, <1>2, <1>3, <1>4, CapAssumption DEF BufioInv, BufioTypeOK
<1>7. fetched' = taken' + len'
  BY <1>1, <1>2, <1>3, <1>4 DEF BufioInv, StreamKept
<1>8. \A i \in 1 .. len' : buf'[start' + i] = stream'[taken' + i]
  <2>1. ASSUME NEW i \in 1 .. len + n PROVE buf'[0 + i] = stream[taken + i]
    BY <1>3, <1>4, <1>5
  <2> QED BY <1>1, <1>2, <2>1
<1> QED BY <1>2, <1>6, <1>7, <1>8 DEF BufioInv, StreamKept

LEMMA TakeKeeps ==
  ASSUME BufioInv, NEW n \in Nat, Take(n)
  PROVE  BufioInv'
<1>1. n <= len /\ start' = start + n /\ len' = len - n /\ taken' = taken + n
      /\ UNCHANGED <<stream, fetched, buf>>
  BY DEF Take
<1>2. len \in Nat /\ start \in Nat /\ taken \in Nat
  BY DEF BufioInv, BufioTypeOK
<1>3. \A i \in 1 .. len' : buf'[start' + i] = stream'[taken' + i]
  <2> SUFFICES ASSUME NEW i \in 1 .. len' PROVE buf'[start' + i] = stream'[taken' + i]
    OBVIOUS
  <2>1. n + i \in 1 .. len
    BY <1>1, <1>2
  <2>2. buf[start + (n + i)] = stream[taken + (n + i)]
    BY <2>1 DEF BufioInv, StreamKept
  <2>3. start' + i = start + (n + i) /\ taken' + i = taken + (n + i)
    BY <1>1, <1>2
  <2> QED BY <1>1, <2>2, <2>3
<1> QED BY <1>1, <1>2, <1>3, CapAssumption DEF BufioInv, BufioTypeOK, StreamKept

\* What is held are bytes of the stream.
LEMMA HeldBytes ==
  ASSUME BufioInv
  PROVE  Held \in Seq(Byte) /\ Len(Held) = len /\ (len > 0 => Held[1] \in Byte)
<1>1. len \in Nat /\ DOMAIN Held = 1 .. len
  BY DEF BufioInv, BufioTypeOK, Held
<1>2. \A i \in 1 .. len : Held[i] \in Byte
  <2> SUFFICES ASSUME NEW i \in 1 .. len PROVE Held[i] \in Byte
    OBVIOUS
  <2>1. taken + i \in 1 .. Len(stream) /\ Held[i] = stream[taken + i]
    BY DEF BufioInv, BufioTypeOK, StreamKept, Held
  <2> QED BY <2>1 DEF BufioInv
<1>3. Held \in [1 .. len -> Byte]
  BY <1>1, <1>2 DEF Held
<1> QED BY <1>1, <1>2, <1>3

\* Where a terminator ends is a number of bytes.
LEMMA EndsAreLengths ==
  ASSUME BufioInv, NEW t, Len(t) \in Nat, NEW n \in FirstEnd(Held, t)
  PROVE  n \in Nat
  BY HeldBytes DEF FirstEnd, Ends

(***************************************************************************)
(* The line                                                                 *)
(***************************************************************************)

\* What a client writes are bytes.
LEMMA MessageBytes ==
  ASSUME TypeOK, NEW c \in Callers
  PROVE  Message(c) \in Seq(Byte)
<1>1. <<CmdZ, CR>> \in Seq(Byte) /\ <<CmdT, CR>> \in Seq(Byte) /\ HangUp \in Seq(Byte)
  BY DEF CmdZ, CmdT, CmdH, CR, HangUp, Byte
<1>2. Escape \in Seq(Byte)
  BY DEF Escape, Plus, Byte
<1>3. Frame(Fields[c]) \in Seq(Byte)
  BY FramesAssumption
<1> QED BY <1>1, <1>2, <1>3 DEF Message

\* The part of TypeOK beside the buffer.
LineTyped ==
    /\ next \in [Callers -> 1 .. 6]
    /\ connects \in Nat
    /\ mode \in Modes
    /\ body \in Seq(Byte) /\ Len(body) <= MaxBody

IInv == BufioInv /\ LineTyped

LEMMA IInvIs == IInv <=> TypeOK /\ StreamKept
  BY DEF IInv, BufioInv, LineTyped, TypeOK

LEMMA EmptyBody == <<>> \in Seq(Byte) /\ Len(<<>>) <= MaxBody
  BY LimitsAssumption DEF MaxBody

LEMMA Starts == Init => IInv
  BY BufioStarts, EmptyBody DEF Init, IInv, LineTyped, Modes

LEMMA ClientsKeep ==
  ASSUME IInv, ClientStep
  PROVE  IInv'
<1>1. PICK c \in Callers : Write(c) \/ Leave(c)
  BY DEF ClientStep
<1>2. CASE Write(c)
  <2>1. BufioInv'
    BY <1>2, PutKeeps, MessageBytes, IInvIs DEF Write, IInv
  <2>2. connects' \in Nat
    BY <1>2 DEF Write, IInv, LineTyped
  <2>3. next' \in [Callers -> 1 .. 6]
    BY <1>2 DEF Write, IInv, LineTyped
  <2> QED BY <1>2, <2>1, <2>2, <2>3 DEF Write, IInv, LineTyped
<1>3. CASE Leave(c)
  BY <1>3 DEF Leave, IInv, LineTyped, BufioInv, BufioTypeOK, StreamKept
<1> QED BY <1>1, <1>2, <1>3

LEMMA BodiesKeep ==
  ASSUME IInv, ReadBody
  PROVE  IInv'
<1>1. BufioInv'
  BY TakeKeeps DEF ReadBody, IInv
<1>2. Held[1] \in Byte
  <2>1. len > 0
    BY DEF ReadBody, Ready, ByByte
  <2> QED BY <2>1, HeldBytes DEF IInv
<1>3. body' \in Seq(Byte) /\ Len(body') <= MaxBody /\ mode' \in Modes
  <2>1. CASE Len(body) >= MaxBody
    BY <2>1, EmptyBody DEF ReadBody, Modes
  <2>2. CASE ~(Len(body) >= MaxBody)
    <3>1. body' = Append(body, Held[1]) /\ mode' \in Modes
      BY <2>2 DEF ReadBody, Modes
    <3>2. Len(body') = Len(body) + 1 /\ body' \in Seq(Byte)
      BY <3>1, <1>2 DEF IInv, LineTyped
    <3>3. MaxBody \in Nat /\ Len(body) \in Nat
      BY LimitsAssumption DEF MaxBody, IInv, LineTyped
    <3> QED BY <3>1, <3>2, <3>3, <2>2
  <2> QED BY <2>1, <2>2
<1> QED BY <1>1, <1>3 DEF ReadBody, IInv, LineTyped

LEMMA ServerKeeps ==
  ASSUME IInv, ServerStep
  PROVE  IInv'
<1> USE DEF IInv, LineTyped, Modes
<1>1. CASE ReadMore
  BY <1>1, FillKeeps DEF ReadMore
<1>2. CASE GiveUp
  BY <1>2, FillFailsKeeps, EmptyBody DEF GiveUp
<1>3. CASE ReadCommand
  <2>1. PICK n \in FirstEnd(Held, <<CR>>) :
           /\ Take(n)
           /\ IF Dials(SubSeq(Held, 1, n - 1))
              THEN mode' = "stx" /\ connects' = connects + 1
              ELSE UNCHANGED <<mode, connects>>
    BY <1>3 DEF ReadCommand
  <2>2. BufioInv'
    BY <2>1, TakeKeeps, EndsAreLengths
  <2>3. mode' \in Modes /\ connects' \in Nat
    BY <2>1
  <2> QED BY <1>3, <2>2, <2>3 DEF ReadCommand
<1>4. CASE ReadSTX
  BY <1>4, TakeKeeps DEF ReadSTX
<1>5. CASE ReadBody
  BY <1>5, BodiesKeep
<1>6. CASE ReadLRC
  BY <1>6, TakeKeeps, EmptyBody DEF ReadLRC, ClientSide
<1>7. CASE ReadEscape
  <2>1. PICK n \in FirstEnd(Held, Escape) : Take(n)
    BY <1>7 DEF ReadEscape
  <2>2. Len(Escape) \in Nat
    BY DEF Escape
  <2>3. BufioInv'
    BY <2>1, <2>2, TakeKeeps, EndsAreLengths
  <2> QED BY <1>7, <2>3 DEF ReadEscape
<1>8. CASE ReadHangUp
  <2>1. PICK n \in FirstEnd(Held, <<CR>>) : Take(n)
    BY <1>8 DEF ReadHangUp
  <2>2. BufioInv'
    BY <2>1, TakeKeeps, EndsAreLengths
  <2> QED BY <1>8, <2>2 DEF ReadHangUp
<1> QED BY <1>1, <1>2, <1>3, <1>4, <1>5, <1>6, <1>7, <1>8 DEF ServerStep

LEMMA StuttersKeep ==
  ASSUME IInv, UNCHANGED vars
  PROVE  IInv'
  BY DEF IInv, LineTyped, BufioInv, BufioTypeOK, StreamKept, vars

LEMMA AlwaysIInv == Spec => []IInv
<1>1. IInv /\ [Next]_vars => IInv'
  BY ClientsKeep, ServerKeeps, StuttersKeep DEF Next
<1> QED BY <1>1, Starts, PTL DEF Spec

\* The types of the line and of both of its ends: no index leaves the array
\* of bufio.c, and no frame the one of recv_frame.
THEOREM WireTypes == Spec => []TypeOK
<1>1. IInv => TypeOK
  BY IInvIs
<1> QED BY <1>1, AlwaysIInv, PTL

\* Whatever is written, in which pieces it is read and when deadlines pass,
\* the reader is handed the bytes of the line, all of them and in order.
THEOREM StreamIsKept == Spec => []StreamKept
<1>1. IInv => StreamKept
  BY IInvIs
<1> QED BY <1>1, AlwaysIInv, PTL

(***************************************************************************)
(* The line is never wedged.  What can pile up without an end of line are   *)
(* frames and escapes, at most one of each from every caller: the other     *)
(* messages end in a CR.  So there is a bound on the bytes between two CRs, *)
(* and a buffer beyond it is never full without a CR in it.                 *)
(***************************************************************************)

\* No CR comes after the k-th byte of s and up to its e-th.
Bare(s, k, e) == \A j \in k + 1 .. e : s[j] # CR

Framed == {c \in Callers : next[c] >= 4}

Escaped == {c \in Callers : next[c] >= 5}

\* The frames, of at most M bytes, and the escapes that may stand behind the
\* last CR, and the most bytes that may stand between any two.
Loose(M) == M * Cardinality(Framed) + 3 * Cardinality(Escaped)

Widest(M) == (M + 3) * Cardinality(Callers) + 1

TailShort(M) ==
    \A k \in 0 .. Len(stream) :
        Bare(stream, k, Len(stream)) => Len(stream) - k <= Loose(M)

PiecesShort(M) ==
    \A e \in 0 .. Len(stream) : \A k \in 0 .. e :
        Bare(stream, k, e) => e - k <= Widest(M)

LinesShort(M) == TailShort(M) /\ PiecesShort(M)

\* M bounds the frames of the callers, who are finitely many.
FramesWithin(M) ==
    /\ IsFiniteSet(Callers)
    /\ \A c \in Callers : Len(Frame(Fields[c])) <= M

LEMMA SubsetsFit ==
  ASSUME NEW M \in Nat, IsFiniteSet(Callers), NEW F, NEW E, F \subseteq Callers, E \subseteq Callers
  PROVE  /\ M * Cardinality(F) + 3 * Cardinality(E) \in Nat
         /\ Widest(M) \in Nat
         /\ M * Cardinality(F) + 3 * Cardinality(E) + 1 <= Widest(M)
<1>1. /\ IsFiniteSet(F) /\ IsFiniteSet(E)
      /\ Cardinality(F) <= Cardinality(Callers) /\ Cardinality(E) <= Cardinality(Callers)
  BY FS_Subset
<1>2. Cardinality(F) \in Nat /\ Cardinality(E) \in Nat /\ Cardinality(Callers) \in Nat
  BY <1>1, FS_CardinalityType
<1>3. \A f, n \in Nat : f <= n => M * f <= M * n
  OBVIOUS
<1>4. M * Cardinality(F) <= M * Cardinality(Callers)
  BY <1>1, <1>2, <1>3
<1>5. \A n \in Nat : M * n \in Nat /\ (M + 3) * n = M * n + 3 * n
  OBVIOUS
<1> QED BY <1>1, <1>2, <1>4, <1>5 DEF Widest

LEMMA LooseFits ==
  ASSUME NEW M \in Nat, IsFiniteSet(Callers)
  PROVE  /\ Widest(M) \in Nat /\ Widest(M)' = Widest(M)
         /\ Loose(M) \in Nat /\ Loose(M) + 1 <= Widest(M)
         /\ Loose(M)' \in Nat /\ Loose(M)' + 1 <= Widest(M)
<1>1. Loose(M) \in Nat /\ Loose(M) + 1 <= Widest(M) /\ Widest(M) \in Nat
  <2>1. Framed \subseteq Callers /\ Escaped \subseteq Callers
    BY DEF Framed, Escaped
  <2> QED BY <2>1, SubsetsFit DEF Loose
<1>2. Loose(M)' \in Nat /\ Loose(M)' + 1 <= Widest(M)
  <2>1. Framed' \subseteq Callers /\ Escaped' \subseteq Callers
    BY DEF Framed, Escaped
  <2> QED BY <2>1, SubsetsFit DEF Loose
<1>3. Widest(M)' = Widest(M)
  BY DEF Widest
<1> QED BY <1>1, <1>2, <1>3

\* What a caller does next never makes fewer frames and escapes of it.
LEMMA LooseGrows ==
  ASSUME NEW M \in Nat, IsFiniteSet(Callers), LineTyped,
         NEW c \in Callers, NEW n \in 1 .. 6, n >= next[c],
         next' = [next EXCEPT ![c] = n]
  PROVE  /\ Loose(M)' >= Loose(M)
         /\ next[c] = 3 /\ n = 4 => Loose(M)' = Loose(M) + M
         /\ next[c] = 4 /\ n = 5 => Loose(M)' = Loose(M) + 3
<1>1. \A d \in Callers : next'[d] = IF d = c THEN n ELSE next[d]
  BY DEF LineTyped
<1>2. \A d \in Callers : next[d] \in 1 .. 6
  BY DEF LineTyped
<1>3. Framed \subseteq Framed' /\ Escaped \subseteq Escaped'
  BY <1>1, <1>2 DEF Framed, Escaped
<1>4. IsFiniteSet(Framed) /\ IsFiniteSet(Escaped) /\ IsFiniteSet(Framed') /\ IsFiniteSet(Escaped')
  BY FS_Subset DEF Framed, Escaped
<1>5. /\ Cardinality(Framed) \in Nat /\ Cardinality(Escaped) \in Nat
      /\ Cardinality(Framed') \in Nat /\ Cardinality(Escaped') \in Nat
  BY <1>4, FS_CardinalityType
<1>6. /\ Cardinality(Framed) <= Cardinality(Framed')
      /\ Cardinality(Escaped) <= Cardinality(Escaped')
  BY <1>3, <1>4, FS_Subset
<1>7. \A f, g \in Nat : f <= g => M * f <= M * g
  OBVIOUS
<1>8. M * Cardinality(Framed) <= M * Cardinality(Framed')
  BY <1>5, <1>6, <1>7
<1>9. \A f \in Nat : M * f \in Nat /\ M * (f + 1) = M * f + M
  OBVIOUS
<1>10. Loose(M)' = M * Cardinality(Framed') + 3 * Cardinality(Escaped')
  BY DEF Loose
<1>11. Loose(M)' >= Loose(M)
  BY <1>5, <1>6, <1>8, <1>9, <1>10 DEF Loose
<1>12. ASSUME next[c] = 3, n = 4 PROVE Loose(M)' = Loose(M) + M
  <2>1. Framed' = Framed \cup {c} /\ c \notin Framed /\ Escaped' = Escaped
    BY <1>1, <1>2, <1>12 DEF Framed, Escaped
  <2>2. Cardinality(Framed \cup {c}) = Cardinality(Framed) + 1
    BY <1>4, <2>1, FS_AddElement
  <2>3. Cardinality(Framed') = Cardinality(Framed) + 1 /\ Cardinality(Escaped') = Cardinality(Escaped)
    BY <2>1, <2>2, Zenon
  <2> QED BY <1>5, <1>9, <1>10, <2>3 DEF Loose
<1>13. ASSUME next[c] = 4, n = 5 PROVE Loose(M)' = Loose(M) + 3
  <2>1. Escaped' = Escaped \cup {c} /\ c \notin Escaped /\ Framed' = Framed
    BY <1>1, <1>2, <1>13 DEF Framed, Escaped
  <2>2. Cardinality(Escaped \cup {c}) = Cardinality(Escaped) + 1
    BY <1>4, <2>1, FS_AddElement
  <2>3. Cardinality(Escaped') = Cardinality(Escaped) + 1 /\ Cardinality(Framed') = Cardinality(Framed)
    BY <2>1, <2>2, Zenon
  <2> QED BY <1>5, <1>9, <1>10, <2>3 DEF Loose
<1> QED BY <1>11, <1>12, <1>13

\* A message with its only CR at its end, behind one other byte.
LEMMA CommandsEnd ==
  ASSUME TypeOK, NEW c \in Callers, next[c] \in {1, 2, 5}
  PROVE  Len(Message(c)) = 2 /\ Message(c)[2] = CR
  BY DEF Message, HangUp

\* A piece of a stream that has grown by m is a piece of the stream, a piece
\* of m, or one of each that meet.
LEMMA GrownPieces ==
  ASSUME NEW s \in Seq(Byte), NEW m \in Seq(Byte),
         NEW e \in 0 .. Len(s \o m), NEW k \in 0 .. e, Bare(s \o m, k, e)
  PROVE  /\ e <= Len(s) => Bare(s, k, e)
         /\ k <= Len(s) /\ e >= Len(s) => Bare(s, k, Len(s))
         /\ \A i \in 1 .. Len(m) : k < Len(s) + i /\ Len(s) + i <= e => m[i] # CR
<1>1. Len(s) \in Nat /\ Len(m) \in Nat /\ Len(s \o m) = Len(s) + Len(m)
  OBVIOUS
<1>2. \A j \in 1 .. Len(s) : (s \o m)[j] = s[j]
  OBVIOUS
<1>3. \A i \in 1 .. Len(m) : (s \o m)[Len(s) + i] = m[i]
  OBVIOUS
<1>4. \A j \in k + 1 .. e : (s \o m)[j] # CR
  BY DEF Bare
<1>5. ASSUME e <= Len(s) PROVE Bare(s, k, e)
  <2> SUFFICES ASSUME NEW j \in k + 1 .. e PROVE s[j] # CR
    BY DEF Bare
  <2>1. j \in 1 .. Len(s)
    BY <1>1, <1>5
  <2> QED BY <1>2, <1>4, <2>1
<1>6. ASSUME k <= Len(s), e >= Len(s) PROVE Bare(s, k, Len(s))
  <2> SUFFICES ASSUME NEW j \in k + 1 .. Len(s) PROVE s[j] # CR
    BY DEF Bare
  <2>1. j \in 1 .. Len(s) /\ j \in k + 1 .. e
    BY <1>1, <1>6
  <2> QED BY <1>2, <1>4, <2>1
<1>7. ASSUME NEW i \in 1 .. Len(m), k < Len(s) + i, Len(s) + i <= e PROVE m[i] # CR
  <2>1. Len(s) + i \in k + 1 .. e
    BY <1>1, <1>7
  <2> QED BY <1>3, <1>4, <2>1
<1> QED BY <1>5, <1>6, <1>7

LEMMA PutCommandShort ==
  ASSUME NEW M \in Nat, IsFiniteSet(Callers), stream \in Seq(Byte), LinesShort(M),
         NEW m \in Seq(Byte), Len(m) = 2, m[2] = CR,
         stream' = stream \o m, Loose(M)' >= Loose(M), Loose(M)' \in Nat
  PROVE  LinesShort(M)'
<1> DEFINE L == Len(stream)
<1>1. L \in Nat /\ Len(stream') = L + 2
  <2>1. Len(stream \o m) = Len(stream) + Len(m)
    BY ConcatProperties
  <2> QED BY <2>1
<1>2. Loose(M) \in Nat /\ Widest(M) \in Nat /\ Loose(M) + 1 <= Widest(M) /\ Widest(M)' = Widest(M)
  BY LooseFits
<1>3. ASSUME NEW e \in 0 .. L + 2, NEW k \in 0 .. e, Bare(stream \o m, k, e)
      PROVE  /\ e - k <= Widest(M)
             /\ e = L + 2 => k = e
  <2>1. /\ e <= L => Bare(stream, k, e)
        /\ k <= L /\ e >= L => Bare(stream, k, L)
        /\ \A i \in 1 .. 2 : k < L + i /\ L + i <= e => m[i] # CR
    BY <1>1, <1>3, GrownPieces
  <2>2. ~(k < L + 2 /\ L + 2 <= e)
    BY <2>1
  <2>3. CASE e <= L
    BY <1>1, <2>1, <2>3 DEF LinesShort, PiecesShort
  <2>4. CASE e = L + 1
    <3>1. CASE k <= L
      <4>1. L - k <= Loose(M)
        BY <1>1, <2>1, <2>4, <3>1 DEF LinesShort, TailShort
      <4> QED BY <1>1, <1>2, <2>4, <4>1
    <3>2. CASE k > L
      BY <1>1, <1>2, <2>4, <3>2
    <3> QED BY <1>1, <3>1, <3>2
  <2>5. CASE e = L + 2
    BY <1>1, <1>2, <2>2, <2>5
  <2> QED BY <1>1, <2>3, <2>4, <2>5
<1>4. PiecesShort(M)'
  BY <1>1, <1>2, <1>3 DEF PiecesShort
<1>5. TailShort(M)'
  BY <1>1, <1>3 DEF TailShort
<1> QED BY <1>4, <1>5 DEF LinesShort

LEMMA PutLooseShort ==
  ASSUME NEW M \in Nat, IsFiniteSet(Callers), stream \in Seq(Byte), LinesShort(M),
         NEW m \in Seq(Byte), stream' = stream \o m,
         Loose(M)' >= Loose(M) + Len(m), Loose(M)' + 1 <= Widest(M), Loose(M)' \in Nat
  PROVE  LinesShort(M)'
<1> DEFINE L == Len(stream)
<1>1. L \in Nat /\ Len(m) \in Nat /\ Len(stream') = L + Len(m)
  OBVIOUS
<1>2. Loose(M) \in Nat /\ Widest(M) \in Nat /\ Widest(M)' = Widest(M)
  BY LooseFits
<1>3. ASSUME NEW e \in 0 .. L + Len(m), NEW k \in 0 .. e, Bare(stream \o m, k, e)
      PROVE  /\ e - k <= Widest(M)
             /\ e = L + Len(m) => e - k <= Loose(M)'
  <2>1. /\ e <= L => Bare(stream, k, e)
        /\ k <= L /\ e >= L => Bare(stream, k, L)
    BY <1>1, <1>3, GrownPieces
  <2>2. e >= L => e - k <= Loose(M)'
    <3> SUFFICES ASSUME e >= L PROVE e - k <= Loose(M)'
      OBVIOUS
    <3>1. CASE k <= L
      <4>1. L - k <= Loose(M)
        BY <1>1, <2>1, <3>1 DEF LinesShort, TailShort
      <4> QED BY <1>1, <1>2, <4>1
    <3>2. CASE k > L
      BY <1>1, <1>2, <3>2
    <3> QED BY <1>1, <3>1, <3>2
  <2>3. CASE e >= L
    BY <1>1, <1>2, <2>2, <2>3
  <2>4. CASE e < L
    BY <1>1, <2>1, <2>4 DEF LinesShort, PiecesShort
  <2> QED BY <1>1, <2>2, <2>3, <2>4
<1>4. PiecesShort(M)'
  BY <1>1, <1>2, <1>3 DEF PiecesShort
<1>5. TailShort(M)'
  BY <1>1, <1>3 DEF TailShort
<1> QED BY <1>4, <1>5 DEF LinesShort

LEMMA WritesShort ==
  ASSUME NEW M \in Nat, FramesWithin(M), IInv, IInv', LinesShort(M),
         NEW c \in Callers, Write(c)
  PROVE  LinesShort(M)'
<1>1. /\ stream \in Seq(Byte) /\ TypeOK /\ LineTyped /\ IsFiniteSet(Callers)
      /\ next[c] \in 1 .. 5
  BY IInvIs DEF IInv, BufioInv, FramesWithin, Write, LineTyped
<1>2. stream' = stream \o Message(c) /\ Message(c) \in Seq(Byte)
  BY <1>1, MessageBytes DEF Write, Put
<1>3. next' = [next EXCEPT ![c] = next[c] + 1]
  BY DEF Write
<1>4. Loose(M) \in Nat /\ Loose(M)' \in Nat /\ Loose(M)' + 1 <= Widest(M)
  BY <1>1, LooseFits
<1>5. /\ Loose(M)' >= Loose(M)
      /\ next[c] = 3 => Loose(M)' = Loose(M) + M
      /\ next[c] = 4 => Loose(M)' = Loose(M) + 3
  <2>1. PICK n \in 1 .. 6 : n = next[c] + 1
    BY <1>1
  <2>2. n >= next[c] /\ next' = [next EXCEPT ![c] = n]
    BY <1>1, <1>3, <2>1
  <2>3. /\ Loose(M)' >= Loose(M)
        /\ next[c] = 3 /\ n = 4 => Loose(M)' = Loose(M) + M
        /\ next[c] = 4 /\ n = 5 => Loose(M)' = Loose(M) + 3
    BY <1>1, <2>2, LooseGrows, Zenon
  <2> QED BY <1>1, <2>1, <2>3
<1>6. CASE next[c] \in {1, 2, 5}
  BY <1>1, <1>2, <1>4, <1>5, <1>6, CommandsEnd, PutCommandShort
<1>7. CASE next[c] = 3
  <2>1. Len(Message(c)) <= M
    BY <1>7 DEF Message, FramesWithin
  <2>2. Loose(M)' >= Loose(M) + Len(Message(c))
    BY <1>2, <1>4, <1>5, <1>7, <2>1
  <2> QED BY <1>1, <1>2, <1>4, <2>2, PutLooseShort
<1>8. CASE next[c] = 4
  <2>1. Len(Message(c)) = 3
    BY <1>8 DEF Message, Escape
  <2>2. Loose(M)' >= Loose(M) + Len(Message(c))
    BY <1>4, <1>5, <1>8, <2>1
  <2> QED BY <1>1, <1>2, <1>4, <2>2, PutLooseShort
<1> QED BY <1>1, <1>6, <1>7, <1>8

LEMMA LeavesShort ==
  ASSUME NEW M \in Nat, FramesWithin(M), IInv, LinesShort(M), NEW c \in Callers, Leave(c)
  PROVE  LinesShort(M)'
<1>1. LineTyped /\ IsFiniteSet(Callers) /\ next[c] \in 1 .. 6
  BY DEF IInv, LineTyped, FramesWithin
<1>2. next' = [next EXCEPT ![c] = 6] /\ stream' = stream
  BY DEF Leave
<1>3. Loose(M)' >= Loose(M)
  <2>1. PICK n \in 1 .. 6 : n = 6
    OBVIOUS
  <2>2. n >= next[c] /\ next' = [next EXCEPT ![c] = n]
    BY <1>1, <1>2, <2>1
  <2> QED BY <1>1, <2>2, LooseGrows, Zenon
<1>4. Loose(M) \in Nat /\ Loose(M)' \in Nat /\ Widest(M)' = Widest(M)
  BY <1>1, LooseFits
<1>5. TailShort(M)'
  <2>1. Len(stream) \in Nat
    BY DEF IInv, BufioInv
  <2> QED BY <1>2, <1>3, <1>4, <2>1 DEF LinesShort, TailShort
<1> QED BY <1>2, <1>4, <1>5 DEF LinesShort, PiecesShort

\* The server writes nothing in this direction, and sends no client on.
LEMMA ServerLeavesStream ==
  ASSUME ServerStep
  PROVE  UNCHANGED <<stream, next>>
  BY DEF ServerStep, ReadMore, GiveUp, ReadCommand, ReadSTX, ReadBody, ReadLRC,
         ReadEscape, ReadHangUp, Fill, FillFails, Take, ClientSide

LEMMA LinesStayShort ==
  ASSUME NEW M \in Nat, FramesWithin(M), IInv, IInv', LinesShort(M), [Next]_vars
  PROVE  LinesShort(M)'
<1>1. CASE ClientStep
  <2>1. PICK c \in Callers : Write(c) \/ Leave(c)
    BY <1>1 DEF ClientStep
  <2> QED BY <2>1, WritesShort, LeavesShort
<1>2. CASE UNCHANGED <<stream, next>>
  BY <1>2 DEF LinesShort, TailShort, PiecesShort, Loose, Widest, Framed, Escaped
<1>3. CASE ServerStep
  BY <1>2, <1>3, ServerLeavesStream
<1>4. CASE UNCHANGED vars
  BY <1>2, <1>4 DEF vars
<1> QED BY <1>1, <1>3, <1>4 DEF Next

LEMMA StartsShort ==
  ASSUME NEW M \in Nat, FramesWithin(M), Init
  PROVE  LinesShort(M)
<1>1. Len(stream) = 0
  BY DEF Init, BufioInit
<1>2. Loose(M) \in Nat /\ Widest(M) \in Nat
  BY LooseFits DEF FramesWithin
<1> QED BY <1>1, <1>2 DEF LinesShort, TailShort, PiecesShort

LEMMA OneByte ==
  ASSUME NEW s, NEW i \in Int, s[i] \in Byte
  PROVE  SubSeq(s, i, i) = <<s[i]>>
<1>1. \A j \in i .. i : s[j] \in Byte
  OBVIOUS
<1>2. /\ SubSeq(s, i, i) \in Seq(Byte)
      /\ Len(SubSeq(s, i, i)) = IF i <= i THEN i - i + 1 ELSE 0
      /\ \A j \in 1 .. i - i + 1 : SubSeq(s, i, i)[j] = s[i + j - 1]
  BY <1>1, SubSeqProperties
<1>3. Len(SubSeq(s, i, i)) = 1 /\ SubSeq(s, i, i)[1] = s[i]
  BY <1>2
<1>4. <<s[i]>> \in Seq(Byte) /\ Len(<<s[i]>>) = 1 /\ <<s[i]>>[1] = s[i]
  OBVIOUS
<1>5. ASSUME NEW u \in Seq(Byte), NEW v \in Seq(Byte), Len(u) = 1, Len(v) = 1, u[1] = v[1]
      PROVE  u = v
  BY <1>5, SeqEqual
<1> QED BY <1>2, <1>3, <1>4, <1>5

\* A full buffer is too long for a piece without a CR, and where one is held
\* a line ends.
LEMMA ShortLinesEnd ==
  ASSUME NEW M \in Nat, FramesWithin(M), Cap > Widest(M), IInv, LinesShort(M)
  PROVE  Room > 0 \/ Ends(Held, <<CR>>) # {}
<1>1. /\ len \in Nat /\ taken \in Nat /\ fetched \in Nat /\ fetched = taken + len
      /\ fetched <= Len(stream) /\ Len(stream) \in Nat
      /\ \A i \in 1 .. len : buf[start + i] = stream[taken + i]
  BY DEF IInv, BufioInv, BufioTypeOK, StreamKept
<1>2. Len(Held) = len /\ \A i \in 1 .. len : Held[i] = stream[taken + i]
  BY <1>1, HeldBytes DEF IInv, Held
<1>3. CASE \E i \in 1 .. len : Held[i] = CR
  <2>1. PICK i \in 1 .. len : Held[i] = CR
    BY <1>3
  <2>2. Len(<<CR>>) = 1 /\ (i - 1) + 1 = i
    OBVIOUS
  <2>3. SubSeq(Held, i, i) = <<CR>>
    <3>1. Held[i] \in Byte
      BY <1>2, HeldBytes DEF IInv
    <3>2. SubSeq(Held, i, i) = <<Held[i]>>
      BY <3>1, OneByte
    <3> QED BY <2>1, <3>2
  <2>4. i \in Ends(Held, <<CR>>)
    BY <1>2, <2>2, <2>3 DEF Ends
  <2> QED BY <2>4
<1>4. CASE \A i \in 1 .. len : Held[i] # CR
  <2>1. Bare(stream, taken, taken + len)
    <3> SUFFICES ASSUME NEW j \in taken + 1 .. taken + len PROVE stream[j] # CR
      BY DEF Bare
    <3>1. j - taken \in 1 .. len /\ taken + (j - taken) = j
      BY <1>1
    <3> QED BY <1>2, <1>4, <3>1
  <2>2. taken + len \in 0 .. Len(stream) /\ taken \in 0 .. taken + len
    BY <1>1
  <2>3. (taken + len) - taken <= Widest(M)
    BY <2>1, <2>2 DEF LinesShort, PiecesShort
  <2>4. Widest(M) \in Nat
    BY LooseFits DEF FramesWithin
  <2> QED BY <1>1, <2>3, <2>4, CapAssumption DEF Room
<1> QED BY <1>3, <1>4

\* With a buffer that has room for a frame and an escape of every caller and
\* one byte more, run() never finds it full and without an end of line,
\* whichever calls are broken off between which of their writes.
THEOREM LinesAlwaysEnd ==
  ASSUME NEW M \in Nat, IsFiniteSet(Callers),
         \A c \in Callers : Len(Frame(Fields[c])) <= M,
         Cap > (M + 3) * Cardinality(Callers) + 1
  PROVE  Spec => []NeverWedged
<1>1. FramesWithin(M) /\ Cap > Widest(M)
  BY DEF FramesWithin, Widest
<1>2. Init => LinesShort(M)
  BY <1>1, StartsShort
<1>3. IInv /\ IInv' /\ LinesShort(M) /\ [Next]_vars => LinesShort(M)'
  BY <1>1, LinesStayShort
<1>4. IInv /\ LinesShort(M) => NeverWedged
  BY <1>1, ShortLinesEnd DEF NeverWedged
<1> QED BY <1>2, <1>3, <1>4, AlwaysIInv, PTL DEF Spec

(***************************************************************************)
(* What the server takes for a request was sent as one.  It starts to read  *)
(* a frame only right after a CR, and what follows a CR is the beginning of *)
(* a message, if none has a CR in its middle; then an STX is the first byte *)
(* of a frame, whose ETX is the first one to come.                          *)
(***************************************************************************)

\* The fields of a caller's frame with their separators, and what its LRC
\* is about.
Text(c) == Joined(Added(Fields[c]))

Covered(c) == Append(Text(c), ETX)

\* No CR or ETX is in a request.
Unbroken == \A c \in Callers : Text(c) \in Seq(Byte \ {CR, ETX})

\* The frame of c stands on the line, from byte p on.
StandsAt(c, p) ==
    /\ p \in Nat \ {0}
    /\ p + Len(Text(c)) + 2 <= Len(stream)
    /\ stream[p] = STX
    /\ \A j \in 1 .. Len(Text(c)) : stream[p + j] = Text(c)[j]
    /\ stream[p + Len(Text(c)) + 1] = ETX
    /\ stream[p + Len(Text(c)) + 2] = Lrc(Covered(c))

\* at says where the frames are, and every STX after a CR is one of them.
FramesAt(at) ==
    /\ DOMAIN at \subseteq Sent
    /\ \A c \in DOMAIN at : StandsAt(c, at[c])
    /\ \A p \in 1 .. Len(stream) - 1 :
          stream[p] = CR /\ stream[p + 1] = STX => \E c \in DOMAIN at : at[c] = p + 1

\* The server reads a frame from its beginning.
ReadsFrame(at) ==
    /\ mode = "stx" => taken > 0 /\ stream[taken] = CR
    /\ mode = "body" =>
          \E c \in DOMAIN at :
              /\ taken = at[c] + Len(body)
              /\ Len(body) <= Len(Text(c))
              /\ \A j \in 1 .. Len(body) : body[j] = Text(c)[j]
    /\ mode = "lrc" =>
          \E c \in DOMAIN at : taken = at[c] + Len(Text(c)) + 1 /\ body = Covered(c)
    /\ mode \notin {"body", "lrc"} => body = <<>>

Requests == {Parsed(Covered(c)) : c \in Callers}

\* of says whose the accepted requests are; their frames have been read.
Whose(at, of) ==
    /\ accepted \in Seq(Requests)
    /\ of \in [1 .. Len(accepted) -> DOMAIN at]
    /\ \A i, j \in 1 .. Len(accepted) : of[i] = of[j] => i = j
    /\ \A i \in 1 .. Len(accepted) :
          /\ accepted[i] = Parsed(Covered(of[i]))
          /\ at[of[i]] + Len(Text(of[i])) + 2 <= taken

Tells(at, of) == FramesAt(at) /\ ReadsFrame(at) /\ Whose(at, of)

RequestsInv == \E at, of : Tells(at, of)

LEMMA FrameParts ==
  ASSUME Unbroken, NEW c \in Callers
  PROVE  /\ Len(Text(c)) \in Nat /\ Text(c) \in Seq(Byte)
         /\ Len(Frame(Fields[c])) = Len(Text(c)) + 3
         /\ Frame(Fields[c])[1] = STX
         /\ \A j \in 1 .. Len(Text(c)) : /\ Frame(Fields[c])[j + 1] = Text(c)[j]
                                         /\ Text(c)[j] # CR /\ Text(c)[j] # ETX
         /\ Frame(Fields[c])[Len(Text(c)) + 2] = ETX
         /\ Frame(Fields[c])[Len(Text(c)) + 3] = Lrc(Covered(c))
<1> DEFINE lrc == Lrc(Covered(c))
           S == Byte \cup {lrc}
<1>1. Text(c) \in Seq(Byte \ {CR, ETX})
  BY DEF Unbroken
<1>2. Frame(Fields[c]) = <<STX>> \o Covered(c) \o <<lrc>>
  BY DEF Frame, Covered, Text
<1>3. \A j \in 1 .. Len(Text(c)) : Text(c)[j] \in Byte \ {CR, ETX}
  BY <1>1
<1> HIDE DEF lrc
<1>4. PICK t : t = Text(c)
  OBVIOUS
<1>5. t \in Seq(S) /\ <<STX>> \in Seq(S) /\ <<lrc>> \in Seq(S) /\ ETX \in S
  BY <1>1, <1>4 DEF STX, ETX, Byte
<1>6. /\ Len(t) \in Nat
      /\ Append(t, ETX) \in Seq(S)
      /\ Len(Append(t, ETX)) = Len(t) + 1
      /\ \A j \in 1 .. Len(t) : Append(t, ETX)[j] = t[j]
      /\ Append(t, ETX)[Len(t) + 1] = ETX
  BY <1>5, AppendProperties
<1>7. PICK u : u = Append(t, ETX)
  OBVIOUS
<1>8. /\ <<STX>> \o u \in Seq(S)
      /\ Len(<<STX>> \o u) = Len(u) + 1
      /\ (<<STX>> \o u)[1] = STX
      /\ \A j \in 1 .. Len(u) : (<<STX>> \o u)[j + 1] = u[j]
  BY <1>5, <1>6, <1>7
<1>9. PICK v : v = <<STX>> \o u
  OBVIOUS
<1>10. /\ Len(v \o <<lrc>>) = Len(v) + 1
       /\ \A j \in 1 .. Len(v) : (v \o <<lrc>>)[j] = v[j]
       /\ (v \o <<lrc>>)[Len(v) + 1] = lrc
  BY <1>5, <1>8, <1>9
<1>11. PICK w : w = v \o <<lrc>>
  OBVIOUS
<1>12. w = Frame(Fields[c])
  BY <1>2, <1>4, <1>7, <1>9, <1>11 DEF Covered
<1>13. /\ Len(w) = Len(t) + 3 /\ w[1] = STX
       /\ \A j \in 1 .. Len(t) : w[j + 1] = t[j]
       /\ w[Len(t) + 2] = ETX /\ w[Len(t) + 3] = lrc
  <2>1. Len(u) = Len(t) + 1 /\ Len(v) = Len(t) + 2 /\ Len(w) = Len(t) + 3
    BY <1>6, <1>7, <1>8, <1>9, <1>10, <1>11
  <2>2. w[1] = STX /\ w[Len(t) + 3] = lrc
    BY <2>1, <1>6, <1>8, <1>9, <1>10, <1>11
  <2>3. \A j \in 1 .. Len(t) + 1 : w[j + 1] = u[j]
    BY <2>1, <1>6, <1>8, <1>9, <1>10, <1>11
  <2>4. w[(Len(t) + 1) + 1] = ETX
    BY <2>3, <1>6, <1>7
  <2>5. \A j \in 1 .. Len(t) : w[j + 1] = t[j]
    BY <2>3, <1>6, <1>7
  <2> QED BY <2>1, <2>2, <2>4, <2>5, <1>6
<1>14. Text(c) \in Seq(Byte)
  BY <1>1
<1> QED BY <1>3, <1>4, <1>6, <1>12, <1>13, <1>14 DEF lrc

\* What stands on the line goes on standing there.
LEMMA StillStands ==
  ASSUME NEW m \in Seq(Byte), stream \in Seq(Byte), stream' = stream \o m,
         NEW c \in Callers, Len(Text(c)) \in Nat, NEW p, StandsAt(c, p)
  PROVE  StandsAt(c, p)'
<1>1. \A j \in 1 .. Len(stream) : stream'[j] = stream[j]
  OBVIOUS
<1>2. Len(stream') >= Len(stream) /\ Len(stream) \in Nat /\ Len(stream') \in Nat
  BY ConcatProperties
<1>3. PICK n \in Nat : n = Len(Text(c))
  OBVIOUS
<1>4. /\ p \in Nat \ {0} /\ p + n + 2 <= Len(stream)
      /\ stream[p] = STX
      /\ \A j \in 1 .. n : stream[p + j] = Text(c)[j]
      /\ stream[p + n + 1] = ETX
      /\ stream[p + n + 2] = Lrc(Covered(c))
  BY <1>3 DEF StandsAt
<1>5. \A j \in 0 .. n + 2 : p + j \in 1 .. Len(stream)
  BY <1>2, <1>4
<1>6. stream'[p] = stream[p] /\ p + n + 2 <= Len(stream')
  BY <1>1, <1>2, <1>4
<1>7. \A j \in 1 .. n : stream'[p + j] = stream[p + j]
  BY <1>1, <1>5
<1>8. stream'[p + n + 1] = stream[p + n + 1] /\ stream'[p + n + 2] = stream[p + n + 2]
  BY <1>1, <1>2, <1>4
<1> QED BY <1>3, <1>4, <1>6, <1>7, <1>8 DEF StandsAt

\* Nobody but the server moves what it reads and has read.
LEMMA ReadingStays ==
  ASSUME NEW m \in Seq(Byte), IInv, stream' = stream \o m,
         UNCHANGED <<taken, mode, body, accepted>>,
         NEW at, NEW more, DOMAIN at \subseteq DOMAIN more,
         \A c \in DOMAIN at : more[c] = at[c],
         NEW of, ReadsFrame(at), Whose(at, of)
  PROVE  ReadsFrame(more)' /\ Whose(more, of)'
<1>1. \A j \in 1 .. Len(stream) : stream'[j] = stream[j]
  BY DEF IInv, BufioInv
<1>2. taken \in Nat /\ taken <= Len(stream) /\ Len(stream) \in Nat
  BY DEF IInv, BufioInv, BufioTypeOK, StreamKept
<1>3. mode' = "stx" => taken' > 0 /\ stream'[taken'] = CR
  BY <1>1, <1>2 DEF ReadsFrame
<1>4. ReadsFrame(more)'
  BY <1>3 DEF ReadsFrame
<1>5. of \in [1 .. Len(accepted) -> DOMAIN more]
  BY DEF Whose
<1>6. Whose(more, of)'
  BY <1>5 DEF Whose, Requests
<1> QED BY <1>4, <1>6

\* A message that is not a frame begins with a letter or a plus, and a CR can
\* only be its last byte.
LEMMA OtherMessages ==
  ASSUME NEW c \in Callers, next[c] \in {1, 2, 4, 5}
  PROVE  /\ Len(Message(c)) \in Nat \ {0}
         /\ Message(c)[1] # STX
         /\ \A j \in 1 .. Len(Message(c)) - 1 : Message(c)[j] # CR
<1>1. CASE next[c] = 4
  BY <1>1 DEF Message, Escape, Plus, STX, CR
<1>2. CASE next[c] \in {1, 2, 5}
  BY <1>2 DEF Message, HangUp, CmdZ, CmdT, CmdH, STX, CR
<1> QED BY <1>1, <1>2

\* Where a CR stands after a message m was written: where it did, or at the
\* end of m.
LEMMA CRsStand ==
  ASSUME stream \in Seq(Byte), NEW m \in Seq(Byte), stream' = stream \o m,
         \A j \in 1 .. Len(m) - 1 : m[j] # CR,
         NEW p \in 1 .. Len(stream') - 1, stream'[p] = CR, stream'[p + 1] = STX
  PROVE  \/ p \in 1 .. Len(stream) - 1 /\ stream[p] = CR /\ stream[p + 1] = STX
         \/ p = Len(stream) /\ m[1] = STX
<1>1. /\ Len(stream) \in Nat /\ Len(m) \in Nat /\ Len(stream') = Len(stream) + Len(m)
      /\ \A j \in 1 .. Len(stream) : stream'[j] = stream[j]
      /\ \A j \in 1 .. Len(m) : stream'[Len(stream) + j] = m[j]
  <2>1. /\ Len(stream \o m) = Len(stream) + Len(m)
        /\ \A j \in 1 .. Len(stream) : (stream \o m)[j] = stream[j]
    BY ConcatProperties
  <2>2. \A j \in 1 .. Len(m) : (stream \o m)[Len(stream) + j] = m[j]
    OBVIOUS
  <2> QED BY <2>1, <2>2
<1>2. CASE p < Len(stream)
  BY <1>1, <1>2
<1>3. CASE p = Len(stream)
  <2>1. stream'[Len(stream) + 1] = m[1]
    BY <1>1, <1>3
  <2> QED BY <1>3, <2>1
<1>4. CASE p > Len(stream)
  <2>1. p - Len(stream) \in 1 .. Len(m) - 1 /\ Len(stream) + (p - Len(stream)) = p
    BY <1>1, <1>4
  <2>2. stream'[p] = m[p - Len(stream)]
    BY <1>1, <2>1
  <2> QED BY <2>1, <2>2
<1> QED BY <1>1, <1>2, <1>3, <1>4

LEMMA OtherWritesTell ==
  ASSUME Unbroken, IInv, NEW at, NEW of, Tells(at, of),
         NEW c \in Callers, Write(c), next[c] # 3
  PROVE  Tells(at, of)'
<1>1. /\ stream \in Seq(Byte) /\ TypeOK /\ Message(c) \in Seq(Byte)
      /\ stream' = stream \o Message(c) /\ UNCHANGED <<taken, mode, body, accepted>>
      /\ next' = [next EXCEPT ![c] = next[c] + 1]
      /\ next \in [Callers -> 1 .. 6]
      /\ next[c] \in {1, 2, 4, 5}
  <2>1. stream \in Seq(Byte) /\ TypeOK /\ next \in [Callers -> 1 .. 6]
    BY IInvIs DEF IInv, BufioInv, LineTyped
  <2> QED BY <2>1, MessageBytes DEF Write, Put
<1>2. PICK m \in Seq(Byte) : m = Message(c)
  BY <1>1
<1>3. /\ Len(m) \in Nat \ {0} /\ m[1] # STX
      /\ \A j \in 1 .. Len(m) - 1 : m[j] # CR
  BY <1>1, <1>2, OtherMessages
<1>4. Sent \subseteq Sent'
  <2>1. ASSUME NEW d \in Callers PROVE next[d] > 3 => next'[d] > 3
    <3>1. next'[d] = (IF d = c THEN next[c] + 1 ELSE next[d]) /\ next[d] \in 1 .. 6
      BY <1>1
    <3> QED BY <3>1
  <2> QED BY <2>1 DEF Sent
<1>5. \A d \in DOMAIN at : StandsAt(d, at[d])'
  <2> SUFFICES ASSUME NEW d \in DOMAIN at PROVE StandsAt(d, at[d])'
    OBVIOUS
  <2>1. d \in Callers /\ StandsAt(d, at[d]) /\ Len(Text(d)) \in Nat
    BY FrameParts DEF Tells, FramesAt, Sent
  <2> QED BY <1>1, <1>2, <2>1, StillStands
<1>6. ASSUME NEW p \in 1 .. Len(stream') - 1, stream'[p] = CR, stream'[p + 1] = STX
      PROVE  \E d \in DOMAIN at : at[d] = p + 1
  <2>1. p \in 1 .. Len(stream) - 1 /\ stream[p] = CR /\ stream[p + 1] = STX
    BY <1>1, <1>2, <1>3, <1>6, CRsStand
  <2> QED BY <2>1 DEF Tells, FramesAt
<1>7. FramesAt(at)'
  BY <1>4, <1>5, <1>6 DEF Tells, FramesAt
<1>8. ReadsFrame(at)' /\ Whose(at, of)'
  BY <1>1, <1>2, ReadingStays DEF Tells
<1> QED BY <1>7, <1>8 DEF Tells

LEMMA FrameWritesTell ==
  ASSUME Unbroken, IInv, NEW at, NEW of, Tells(at, of),
         NEW c \in Callers, Write(c), next[c] = 3
  PROVE  RequestsInv'
<1>1. /\ stream \in Seq(Byte) /\ TypeOK /\ Message(c) \in Seq(Byte)
      /\ stream' = stream \o Message(c) /\ UNCHANGED <<taken, mode, body, accepted>>
      /\ next' = [next EXCEPT ![c] = next[c] + 1]
      /\ next \in [Callers -> 1 .. 6]
  <2>1. stream \in Seq(Byte) /\ TypeOK /\ next \in [Callers -> 1 .. 6]
    BY IInvIs DEF IInv, BufioInv, LineTyped
  <2> QED BY <2>1, MessageBytes DEF Write, Put
<1>2. PICK m \in Seq(Byte) : m = Message(c)
  BY <1>1
<1>3. m = Frame(Fields[c])
  BY <1>2 DEF Message
<1>4. PICK n \in Nat : n = Len(Text(c))
  BY FrameParts
<1>5. /\ Len(m) = n + 3 /\ m[1] = STX
      /\ \A j \in 1 .. n : m[j + 1] = Text(c)[j] /\ Text(c)[j] # CR /\ Text(c)[j] # ETX
      /\ m[n + 2] = ETX /\ m[n + 3] = Lrc(Covered(c))
  BY <1>3, <1>4, FrameParts
<1>6. ASSUME NEW j \in 1 .. Len(m) - 1 PROVE m[j] # CR
  <2>1. CASE j = 1
    BY <1>5, <2>1 DEF STX, CR
  <2>2. CASE j \in 2 .. n + 1
    <3>1. j - 1 \in 1 .. n /\ (j - 1) + 1 = j
      BY <2>2
    <3> QED BY <1>5, <3>1
  <2>3. CASE j = n + 2
    BY <1>5, <2>3 DEF ETX, CR
  <2> QED BY <1>5, <2>1, <2>2, <2>3
<1>7. PICK p : p = Len(stream) + 1
  OBVIOUS
<1>8. /\ Len(stream) \in Nat /\ Len(stream') = Len(stream) + Len(m)
      /\ \A j \in 1 .. Len(m) : stream'[Len(stream) + j] = m[j]
  <2>1. Len(stream \o m) = Len(stream) + Len(m)
    BY ConcatProperties
  <2>2. \A j \in 1 .. Len(m) : (stream \o m)[Len(stream) + j] = m[j]
    OBVIOUS
  <2> QED BY <1>1, <1>2, <2>1, <2>2
<1>9. StandsAt(c, p)'
  <2>1. p \in Nat \ {0} /\ p + n + 2 <= Len(stream')
    BY <1>5, <1>7, <1>8
  <2>2. stream'[p] = STX
    BY <1>5, <1>7, <1>8
  <2>3. \A j \in 1 .. n : stream'[p + j] = Text(c)[j]
    <3> SUFFICES ASSUME NEW j \in 1 .. n PROVE stream'[p + j] = Text(c)[j]
      OBVIOUS
    <3>1. j + 1 \in 1 .. n + 3
      OBVIOUS
    <3>2. p + j = Len(stream) + (j + 1)
      BY <1>7, <1>8
    <3> QED BY <1>5, <1>8, <3>1, <3>2
  <2>4. stream'[p + n + 1] = ETX
    <3>1. n + 2 \in 1 .. Len(m) /\ p + n + 1 = Len(stream) + (n + 2)
      BY <1>5, <1>7, <1>8
    <3> QED BY <1>5, <1>8, <3>1
  <2>5. stream'[p + n + 2] = Lrc(Covered(c))
    <3>1. n + 3 \in 1 .. Len(m) /\ p + n + 2 = Len(stream) + (n + 3)
      BY <1>5, <1>7, <1>8
    <3> QED BY <1>5, <1>8, <3>1
  <2> QED BY <1>4, <2>1, <2>2, <2>3, <2>4, <2>5 DEF StandsAt
<1> DEFINE more == [d \in DOMAIN at \cup {c} |-> IF d = c THEN p ELSE at[d]]
<1>10. PICK new : new = more
  OBVIOUS
<1>11. DOMAIN at \subseteq Sent /\ c \notin Sent /\ c \in Sent' /\ Sent \subseteq Sent'
  <2>1. \A d \in Callers : next'[d] = IF d = c THEN 4 ELSE next[d]
    BY <1>1
  <2>2. DOMAIN at \subseteq Sent
    BY DEF Tells, FramesAt
  <2> QED BY <2>1, <2>2 DEF Sent
<1>12. /\ DOMAIN new = DOMAIN at \cup {c} /\ new[c] = p
       /\ \A d \in DOMAIN at : new[d] = at[d]
  BY <1>10, <1>11
<1>13. \A d \in DOMAIN new : StandsAt(d, new[d])'
  <2> SUFFICES ASSUME NEW d \in DOMAIN at PROVE StandsAt(d, at[d])'
    BY <1>9, <1>12
  <2>1. d \in Callers /\ StandsAt(d, at[d]) /\ Len(Text(d)) \in Nat
    BY FrameParts DEF Tells, FramesAt, Sent
  <2> QED BY <1>1, <1>2, <2>1, StillStands
<1>14. ASSUME NEW q \in 1 .. Len(stream') - 1, stream'[q] = CR, stream'[q + 1] = STX
       PROVE  \E d \in DOMAIN new : new[d] = q + 1
  <2>1. CASE q \in 1 .. Len(stream) - 1 /\ stream[q] = CR /\ stream[q + 1] = STX
    <3>1. \E d \in DOMAIN at : at[d] = q + 1
      BY <2>1 DEF Tells, FramesAt
    <3> QED BY <1>12, <3>1
  <2>2. CASE q = Len(stream)
    BY <1>7, <1>12, <2>2
  <2> QED BY <1>1, <1>2, <1>6, <1>14, <2>1, <2>2, CRsStand
<1>15. FramesAt(new)'
  BY <1>11, <1>12, <1>13, <1>14 DEF FramesAt
<1>16. ReadsFrame(new)' /\ Whose(new, of)'
  BY <1>1, <1>2, <1>12, ReadingStays DEF Tells
<1> QED BY <1>15, <1>16 DEF Tells, RequestsInv

LEMMA LeavesTell ==
  ASSUME IInv, NEW at, NEW of, Tells(at, of), NEW c \in Callers, Leave(c)
  PROVE  Tells(at, of)'
<1>1. /\ UNCHANGED <<stream, taken, mode, body, accepted>>
      /\ next \in [Callers -> 1 .. 6] /\ next' = [next EXCEPT ![c] = 6]
  BY DEF Leave, IInv, LineTyped
<1>2. Sent \subseteq Sent'
  BY <1>1 DEF Sent
<1>3. FramesAt(at)'
  BY <1>1, <1>2 DEF Tells, FramesAt, StandsAt, Text, Covered
<1> QED BY <1>1, <1>3 DEF Tells, ReadsFrame, Whose, Requests

LEMMA TextLength == Unbroken => \A c \in Callers : Len(Text(c)) \in Nat
  BY DEF Unbroken

\* A server that has read nothing and is not in a frame has nothing to tell.
LEMMA RestsTell ==
  ASSUME NEW at, NEW of, Tells(at, of),
         UNCHANGED <<stream, next, taken, accepted>>,
         mode' = "command", body' = <<>>
  PROVE  Tells(at, of)'
  BY DEF Tells, FramesAt, StandsAt, ReadsFrame, Whose, Sent, Text, Covered, Requests

LEMMA StepsTell ==
  ASSUME Unbroken, NEW at, NEW of, Tells(at, of), IInv,
         UNCHANGED <<stream, next, accepted>>, NEW n \in Nat, Take(n), ReadsFrame(at)'
  PROVE  Tells(at, of)'
<1>1. FramesAt(at)'
  BY DEF Tells, FramesAt, StandsAt, Sent, Text, Covered
<1>2. taken' = taken + n /\ taken \in Nat
  BY DEF Take, IInv, BufioInv, BufioTypeOK
<1>3. \A i \in 1 .. Len(accepted) : at[of[i]] + Len(Text(of[i])) + 2 <= taken'
  <2> SUFFICES ASSUME NEW i \in 1 .. Len(accepted)
               PROVE  at[of[i]] + Len(Text(of[i])) + 2 <= taken'
    OBVIOUS
  <2>1. /\ at[of[i]] + Len(Text(of[i])) + 2 <= taken
        /\ StandsAt(of[i], at[of[i]])
    BY DEF Tells, Whose, FramesAt
  <2>2. at[of[i]] \in Nat /\ Len(Text(of[i])) \in Nat
    BY <2>1, TextLength DEF Tells, Whose, FramesAt, StandsAt, Sent
  <2> QED BY <1>2, <2>1, <2>2
<1>4. Whose(at, of)'
  BY <1>3 DEF Tells, Whose, Requests, Text, Covered
<1> QED BY <1>1, <1>4 DEF Tells

\* What the server takes next is the next byte of the line.
LEMMA NextByte ==
  ASSUME IInv, len > 0
  PROVE  Held[1] = stream[taken + 1] /\ taken + 1 <= Len(stream) /\ taken \in Nat
<1>1. Held[1] = buf[start + 1] /\ buf[start + 1] = stream[taken + 1]
  BY DEF Held, IInv, BufioInv, BufioTypeOK, StreamKept
<1>2. taken + 1 <= Len(stream) /\ taken \in Nat
  BY DEF IInv, BufioInv, BufioTypeOK, StreamKept
<1> QED BY <1>1, <1>2

\* A line ends in a CR of the stream.
LEMMA LineEndsInCR ==
  ASSUME IInv, NEW n \in FirstEnd(Held, <<CR>>)
  PROVE  n \in 1 .. len /\ stream[taken + n] = CR
<1>1. n \in Len(<<CR>>) .. Len(Held) /\ SubSeq(Held, (n - Len(<<CR>>)) + 1, n) = <<CR>>
  BY DEF FirstEnd, Ends
<1>2. Len(Held) = len /\ Len(<<CR>>) = 1
  BY HeldBytes DEF IInv
<1>3. n \in 1 .. len /\ (n - Len(<<CR>>)) + 1 = n
  BY <1>1, <1>2 DEF IInv, BufioInv, BufioTypeOK
<1>4. SubSeq(Held, n, n) = <<CR>>
  BY <1>1, <1>3
<1>5. Held[n] \in Byte /\ Held[n] = stream[taken + n]
  <2>1. Held[n] \in Byte
    <3>1. Held \in Seq(Byte)
      BY HeldBytes DEF IInv
    <3> QED BY <1>2, <1>3, <3>1
  <2>2. Held[n] = buf[start + n] /\ buf[start + n] = stream[taken + n]
    BY <1>3 DEF Held, IInv, BufioInv, StreamKept
  <2> QED BY <2>1, <2>2
<1>6. SubSeq(Held, n, n) = <<Held[n]>>
  BY <1>3, <1>5, OneByte
<1>7. <<Held[n]>>[1] = <<CR>>[1]
  BY <1>4, <1>6, Zenon
<1> QED BY <1>3, <1>5, <1>7

LEMMA CommandsTell ==
  ASSUME Unbroken, IInv, NEW at, NEW of, Tells(at, of), ReadCommand
  PROVE  Tells(at, of)'
<1>1. PICK n \in FirstEnd(Held, <<CR>>) :
         /\ Take(n)
         /\ IF Dials(SubSeq(Held, 1, n - 1))
            THEN mode' = "stx" /\ connects' = connects + 1
            ELSE UNCHANGED <<mode, connects>>
  BY DEF ReadCommand
<1>2. n \in 1 .. len /\ stream[taken + n] = CR
  BY LineEndsInCR
<1>3. n \in Nat /\ n > 0 /\ taken \in Nat /\ taken' = taken + n
  BY <1>1, <1>2 DEF Take, IInv, BufioInv, BufioTypeOK
<1>4. UNCHANGED <<stream, next, body, accepted>> /\ mode = "command" /\ body = <<>>
  BY <1>1 DEF ReadCommand, Take, Tells, ReadsFrame
<1>5. mode' \in {"stx", "command"}
  BY <1>1, <1>4
<1>6. ReadsFrame(at)'
  BY <1>2, <1>3, <1>4, <1>5 DEF ReadsFrame
<1> QED BY <1>1, <1>3, <1>4, <1>6, StepsTell

LEMMA StxTells ==
  ASSUME Unbroken, IInv, NEW at, NEW of, Tells(at, of), ReadSTX
  PROVE  Tells(at, of)'
<1>1. /\ mode = "stx" /\ len > 0 /\ Take(1)
      /\ UNCHANGED <<stream, next, body, accepted>>
      /\ mode' = (IF Held[1] = STX THEN "body" ELSE "command")
      /\ taken' = taken + 1
  BY DEF ReadSTX, Ready, ByByte, Take
<1>2. /\ taken > 0 /\ stream[taken] = CR /\ body = <<>>
  BY <1>1 DEF Tells, ReadsFrame
<1>3. Held[1] = stream[taken + 1] /\ taken + 1 <= Len(stream) /\ taken \in Nat
  BY <1>1, NextByte
<1>4. ReadsFrame(at)'
  <2>1. CASE Held[1] = STX
    <3>1. Len(stream) \in Nat
      BY DEF IInv, BufioInv
    <3>2. taken \in 1 .. Len(stream) - 1 /\ stream[taken] = CR /\ stream[taken + 1] = STX
      BY <1>2, <1>3, <2>1, <3>1
    <3>3. PICK c \in DOMAIN at : at[c] = taken + 1
      BY <3>2 DEF Tells, FramesAt
    <3>4. Len(body') = 0 /\ Len(Text(c)) \in Nat
      BY <1>1, <1>2, <3>3, TextLength DEF Tells, FramesAt, Sent
    <3>5. taken' = at[c] + Len(body')
      BY <1>1, <1>3, <3>3, <3>4
    <3>6. mode' = "body" /\ Text(c)' = Text(c)
      BY <1>1, <2>1 DEF Text
    <3> QED BY <3>3, <3>4, <3>5, <3>6 DEF ReadsFrame
  <2>2. CASE Held[1] # STX
    BY <1>1, <1>2, <2>2 DEF ReadsFrame
  <2> QED BY <2>1, <2>2
<1> QED BY <1>1, <1>4, StepsTell

LEMMA BodiesTell ==
  ASSUME Unbroken, IInv, NEW at, NEW of, Tells(at, of), ReadBody
  PROVE  Tells(at, of)'
<1>1. /\ mode = "body" /\ len > 0 /\ Take(1)
      /\ UNCHANGED <<stream, next, accepted>>
      /\ taken' = taken + 1
  BY DEF ReadBody, Ready, ByByte, Take
<1>2. CASE Len(body) >= MaxBody
  <2>1. mode' = "command" /\ body' = <<>>
    BY <1>2 DEF ReadBody
  <2>2. ReadsFrame(at)'
    BY <2>1 DEF ReadsFrame
  <2> QED BY <1>1, <2>2, StepsTell
<1>3. CASE ~(Len(body) >= MaxBody)
  <2>1. /\ body' = Append(body, Held[1])
        /\ mode' = (IF Held[1] = ETX THEN "lrc" ELSE "body")
    BY <1>3 DEF ReadBody
  <2>2. PICK c \in DOMAIN at :
           /\ taken = at[c] + Len(body)
           /\ Len(body) <= Len(Text(c))
           /\ \A j \in 1 .. Len(body) : body[j] = Text(c)[j]
    BY <1>1 DEF Tells, ReadsFrame
  <2>3. c \in Callers /\ StandsAt(c, at[c])
    BY DEF Tells, FramesAt, Sent
  <2>4. PICK t : t = Text(c)
    OBVIOUS
  <2>5. /\ t \in Seq(Byte) /\ Len(t) \in Nat
        /\ \A j \in 1 .. Len(t) : t[j] # ETX
    BY <2>3, <2>4, FrameParts
  <2>6. PICK b \in Seq(Byte) : b = body
    BY DEF IInv, LineTyped
  <2>7. /\ Len(b) \in Nat /\ Len(b) <= Len(t) /\ taken = at[c] + Len(b)
        /\ \A j \in 1 .. Len(b) : b[j] = t[j]
    BY <2>2, <2>4, <2>6
  <2>8. /\ at[c] \in Nat
        /\ \A j \in 1 .. Len(t) : stream[at[c] + j] = t[j]
        /\ stream[at[c] + Len(t) + 1] = ETX
    BY <2>3, <2>4 DEF StandsAt
  <2>9. Held[1] = stream[taken + 1] /\ Held[1] \in Byte
    BY <1>1, NextByte, HeldBytes DEF IInv
  <2>10. PICK x \in Byte : x = Held[1]
    BY <2>9
  <2>11. /\ body' = Append(b, x) /\ Len(Append(b, x)) = Len(b) + 1
         /\ \A j \in 1 .. Len(b) : Append(b, x)[j] = b[j]
         /\ Append(b, x)[Len(b) + 1] = x
    BY <2>1, <2>6, <2>10, AppendProperties
  <2>12. Text(c)' = Text(c) /\ Covered(c)' = Covered(c)
    BY DEF Text, Covered
  <2>13. CASE Len(b) < Len(t)
    <3>1. Len(b) + 1 \in 1 .. Len(t) /\ taken + 1 = at[c] + (Len(b) + 1)
      BY <2>5, <2>7, <2>8, <2>13
    <3>2. x = t[Len(b) + 1] /\ x # ETX
      BY <2>5, <2>8, <2>9, <2>10, <3>1
    <3>3. mode' = "body"
      BY <2>1, <2>10, <3>2
    <3>4. PICK d : d = body'
      OBVIOUS
    <3>5. /\ Len(d) = Len(b) + 1
          /\ \A j \in 1 .. Len(b) : d[j] = b[j]
          /\ d[Len(b) + 1] = x
      BY <2>11, <3>4
    <3>6. ASSUME NEW j \in 1 .. Len(d) PROVE d[j] = t[j]
      <4>1. CASE j <= Len(b)
        BY <2>7, <3>5, <4>1
      <4>2. CASE j > Len(b)
        <5>1. j = Len(b) + 1
          BY <2>7, <3>5, <4>2
        <5> QED BY <3>2, <3>5, <5>1
      <4> QED BY <2>7, <3>5, <4>1, <4>2
    <3>7. taken' = at[c] + Len(d) /\ Len(d) <= Len(t)
      BY <1>1, <2>5, <2>7, <2>8, <3>1, <3>5
    <3>8. ReadsFrame(at)'
      BY <2>4, <2>12, <3>3, <3>4, <3>6, <3>7 DEF ReadsFrame
    <3> QED BY <1>1, <3>8, StepsTell
  <2>14. CASE Len(b) = Len(t)
    <3>1. b = t
      <4>1. \A j \in 1 .. Len(b) : b[j] = t[j]
        BY <2>7
      <4> QED BY <2>5, <2>14, <4>1, SeqEqual
    <3>2. taken + 1 = at[c] + Len(t) + 1
      BY <2>5, <2>7, <2>8, <2>14
    <3>3. x = ETX /\ mode' = "lrc"
      BY <2>1, <2>8, <2>9, <2>10, <3>2
    <3>4. body' = Covered(c)
      BY <2>4, <2>11, <3>1, <3>3 DEF Covered
    <3>5. taken' = at[c] + Len(Text(c)) + 1
      BY <1>1, <2>4, <3>2
    <3>6. ReadsFrame(at)'
      BY <2>12, <3>3, <3>4, <3>5 DEF ReadsFrame
    <3> QED BY <1>1, <3>6, StepsTell
  <2> QED BY <2>5, <2>7, <2>13, <2>14
<1> QED BY <1>2, <1>3

LEMMA AcceptsTell ==
  ASSUME Unbroken, IInv, NEW at, NEW of, Tells(at, of), ReadLRC, Held[1] = Lrc(body)
  PROVE  RequestsInv'
<1>1. /\ mode = "lrc" /\ len > 0 /\ Take(1)
      /\ UNCHANGED <<stream, next>>
      /\ mode' = "escape" /\ body' = <<>>
      /\ accepted' = Append(accepted, Parsed(body))
      /\ taken' = taken + 1
  BY DEF ReadLRC, Ready, ByByte, Take, ClientSide
<1>2. PICK c \in DOMAIN at : taken = at[c] + Len(Text(c)) + 1 /\ body = Covered(c)
  BY <1>1 DEF Tells, ReadsFrame
<1>3. c \in Callers /\ StandsAt(c, at[c])
  BY DEF Tells, FramesAt, Sent
<1>4. at[c] \in Nat /\ Len(Text(c)) \in Nat
  BY <1>3, TextLength DEF StandsAt
<1>5. /\ accepted \in Seq(Requests) /\ Parsed(Covered(c)) \in Requests
      /\ of \in [1 .. Len(accepted) -> DOMAIN at]
  BY <1>3 DEF Tells, Whose, Requests
<1>6. PICK n \in Nat : n = Len(accepted)
  BY <1>5
<1>7. /\ accepted' \in Seq(Requests) /\ Len(accepted') = n + 1
      /\ \A i \in 1 .. n : accepted'[i] = accepted[i]
      /\ accepted'[n + 1] = Parsed(Covered(c))
  BY <1>1, <1>2, <1>5, <1>6, AppendProperties
<1>8. PICK whose : whose = [i \in 1 .. n + 1 |-> IF i <= n THEN of[i] ELSE c]
  OBVIOUS
<1>9. /\ whose \in [1 .. n + 1 -> DOMAIN at]
      /\ \A i \in 1 .. n : whose[i] = of[i]
      /\ whose[n + 1] = c
  BY <1>2, <1>5, <1>6, <1>8
<1>10. ASSUME NEW i \in 1 .. n
       PROVE  /\ accepted[i] = Parsed(Covered(of[i]))
              /\ at[of[i]] + Len(Text(of[i])) + 2 <= taken
              /\ of[i] # c
  <2>1. /\ accepted[i] = Parsed(Covered(of[i]))
        /\ at[of[i]] + Len(Text(of[i])) + 2 <= taken
    BY <1>6 DEF Tells, Whose
  <2>2. of[i] # c
    BY <1>2, <1>4, <2>1
  <2> QED BY <2>1, <2>2
<1>11. ASSUME NEW i \in 1 .. n + 1, NEW j \in 1 .. n + 1, whose[i] = whose[j]
       PROVE  i = j
  <2>1. \A k, l \in 1 .. n : of[k] = of[l] => k = l
    BY <1>6 DEF Tells, Whose
  <2>2. CASE i \in 1 .. n /\ j \in 1 .. n
    BY <1>9, <1>11, <2>1, <2>2
  <2>3. CASE i \in 1 .. n /\ j = n + 1
    BY <1>9, <1>10, <1>11, <2>3
  <2>4. CASE i = n + 1 /\ j \in 1 .. n
    BY <1>9, <1>10, <1>11, <2>4
  <2> QED BY <2>2, <2>3, <2>4
<1>12. ASSUME NEW i \in 1 .. n + 1
       PROVE  /\ accepted'[i] = Parsed(Covered(whose[i]))
              /\ at[whose[i]] + Len(Text(whose[i])) + 2 <= taken'
  <2>1. CASE i \in 1 .. n
    <3>1. whose[i] = of[i] /\ accepted'[i] = accepted[i]
      BY <1>7, <1>9, <2>1
    <3>2. accepted'[i] = Parsed(Covered(whose[i]))
      BY <1>10, <2>1, <3>1
    <3>3. of[i] \in Callers /\ at[of[i]] \in Nat
      BY <1>5, <1>6, <2>1 DEF Tells, FramesAt, StandsAt, Sent
    <3>4. Len(Text(of[i])) \in Nat
      BY <3>3, TextLength
    <3>5. at[of[i]] + Len(Text(of[i])) + 2 <= taken
      BY <1>10, <2>1
    <3>6. taken \in Nat
      BY DEF IInv, BufioInv, BufioTypeOK
    <3> QED BY <1>1, <3>1, <3>2, <3>3, <3>4, <3>5, <3>6
  <2>2. CASE i = n + 1
    <3>1. accepted'[i] = Parsed(Covered(whose[i])) /\ whose[i] = c
      BY <1>7, <1>9, <2>2
    <3>2. at[c] + Len(Text(c)) + 2 <= taken'
      BY <1>1, <1>2, <1>4
    <3> QED BY <3>1, <3>2
  <2> QED BY <2>1, <2>2
<1>13. FramesAt(at)'
  BY <1>1 DEF Tells, FramesAt, StandsAt, Sent, Text, Covered
<1>14. ReadsFrame(at)'
  BY <1>1 DEF ReadsFrame
<1>15. Whose(at, whose)'
  BY <1>7, <1>9, <1>11, <1>12 DEF Whose, Requests, Text, Covered
<1> QED BY <1>13, <1>14, <1>15 DEF Tells, RequestsInv

LEMMA NothingNewTells ==
  ASSUME NEW at, NEW of, Tells(at, of),
         UNCHANGED <<stream, next, taken, mode, body, accepted>>
  PROVE  Tells(at, of)'
<1>1. FramesAt(at)'
  BY DEF Tells, FramesAt, StandsAt, Sent, Text, Covered
<1>2. ReadsFrame(at)'
  BY DEF Tells, ReadsFrame, Text, Covered
<1>3. Whose(at, of)'
  BY DEF Tells, Whose, Requests, Text, Covered
<1> QED BY <1>1, <1>2, <1>3 DEF Tells

LEMMA ServerTells ==
  ASSUME Unbroken, IInv, NEW at, NEW of, Tells(at, of), ServerStep
  PROVE  RequestsInv'
<1>1. CASE ReadMore
  <2>1. UNCHANGED <<stream, next, taken, mode, body, accepted>>
    BY <1>1 DEF ReadMore, Fill
  <2> QED BY <2>1, NothingNewTells DEF RequestsInv
<1>2. CASE GiveUp
  <2>1. UNCHANGED <<stream, next, taken, accepted>> /\ mode' = "command" /\ body' = <<>>
    BY <1>2 DEF GiveUp, FillFails
  <2> QED BY <2>1, RestsTell DEF RequestsInv
<1>3. CASE ReadCommand
  BY <1>3, CommandsTell DEF RequestsInv
<1>4. CASE ReadSTX
  BY <1>4, StxTells DEF RequestsInv
<1>5. CASE ReadBody
  BY <1>5, BodiesTell DEF RequestsInv
<1>6. CASE ReadLRC
  <2>1. CASE Held[1] = Lrc(body)
    BY <1>6, <2>1, AcceptsTell
  <2>2. CASE Held[1] # Lrc(body)
    <3>1. /\ Take(1) /\ UNCHANGED <<stream, next, accepted>>
          /\ mode' = "command" /\ body' = <<>>
      BY <1>6, <2>2 DEF ReadLRC, Take, ClientSide
    <3>2. ReadsFrame(at)'
      BY <3>1 DEF ReadsFrame
    <3> QED BY <3>1, <3>2, StepsTell DEF RequestsInv
  <2> QED BY <2>1, <2>2
<1>7. CASE ReadEscape
  <2>1. PICK n \in FirstEnd(Held, Escape) : Take(n)
    BY <1>7 DEF ReadEscape
  <2>2. n \in Nat
    BY EndsAreLengths DEF Escape, IInv
  <2>3. /\ UNCHANGED <<stream, next, accepted, body>> /\ mode = "escape" /\ mode' = "hangup"
    BY <1>7, <2>1 DEF ReadEscape, Take
  <2>4. ReadsFrame(at)'
    BY <2>3 DEF Tells, ReadsFrame
  <2> QED BY <2>1, <2>2, <2>3, <2>4, StepsTell DEF RequestsInv
<1>8. CASE ReadHangUp
  <2>1. PICK n \in FirstEnd(Held, <<CR>>) : Take(n)
    BY <1>8 DEF ReadHangUp
  <2>2. n \in Nat
    BY EndsAreLengths DEF IInv
  <2>3. UNCHANGED <<stream, next, accepted, body>> /\ mode = "hangup" /\ mode' = "command"
    BY <1>8, <2>1 DEF ReadHangUp, Take
  <2>4. ReadsFrame(at)'
    BY <2>3 DEF Tells, ReadsFrame
  <2> QED BY <2>1, <2>2, <2>3, <2>4, StepsTell DEF RequestsInv
<1> QED BY <1>1, <1>2, <1>3, <1>4, <1>5, <1>6, <1>7, <1>8 DEF ServerStep

LEMMA AllTell ==
  ASSUME Unbroken, IInv, RequestsInv, [Next]_vars
  PROVE  RequestsInv'
<1>1. PICK at, of : Tells(at, of)
  BY DEF RequestsInv
<1>2. CASE ClientStep
  <2>1. PICK c \in Callers : Write(c) \/ Leave(c)
    BY <1>2 DEF ClientStep
  <2>2. CASE Write(c) /\ next[c] = 3
    BY <1>1, <2>2, FrameWritesTell
  <2>3. CASE Write(c) /\ next[c] # 3
    BY <1>1, <2>3, OtherWritesTell DEF RequestsInv
  <2>4. CASE Leave(c)
    BY <1>1, <2>4, LeavesTell DEF RequestsInv
  <2> QED BY <2>1, <2>2, <2>3, <2>4
<1>3. CASE ServerStep
  BY <1>1, <1>3, ServerTells
<1>4. CASE UNCHANGED vars
  <2>1. UNCHANGED <<stream, next, taken, mode, body, accepted>>
    BY <1>4 DEF vars
  <2> QED BY <1>1, <2>1, NothingNewTells DEF RequestsInv
<1> QED BY <1>2, <1>3, <1>4 DEF Next

LEMMA StartsTelling == Init => RequestsInv
<1> SUFFICES ASSUME Init PROVE RequestsInv
  OBVIOUS
<1>1. stream = <<>> /\ accepted = <<>> /\ mode = "command" /\ body = <<>>
  BY DEF Init, BufioInit
<1>2. PICK f : f = [c \in {} |-> 1]
  OBVIOUS
<1>3. DOMAIN f = {} /\ f \in [1 .. 0 -> {}]
  BY <1>2
<1>4. Len(stream) = 0 /\ Len(accepted) = 0 /\ accepted \in Seq(Requests)
  BY <1>1
<1>5. FramesAt(f) /\ ReadsFrame(f) /\ Whose(f, f)
  BY <1>1, <1>3, <1>4 DEF FramesAt, ReadsFrame, Whose
<1> QED BY <1>5 DEF Tells, RequestsInv

LEMMA TellingKeepsRequests ==
  ASSUME \A c \in Callers : Plain(c) => Parsed(Covered(c)) = Added(Fields[c]),
         RequestsInv
  PROVE  RequestsKept
<1> SUFFICES ASSUME \A c \in Callers : Plain(c)
             PROVE  \E of \in [DOMAIN accepted -> Sent] :
                        /\ IsInjective(of)
                        /\ \A i \in DOMAIN accepted : accepted[i] = Added(Fields[of[i]])
  BY DEF RequestsKept
<1>1. PICK at, of : Tells(at, of)
  BY DEF RequestsInv
<1>2. /\ DOMAIN at \subseteq Sent /\ Sent \subseteq Callers
      /\ accepted \in Seq(Requests)
      /\ of \in [1 .. Len(accepted) -> DOMAIN at]
      /\ \A i, j \in 1 .. Len(accepted) : of[i] = of[j] => i = j
      /\ \A i \in 1 .. Len(accepted) : accepted[i] = Parsed(Covered(of[i]))
  BY <1>1 DEF Tells, FramesAt, Whose, Sent
<1>3. DOMAIN accepted = 1 .. Len(accepted)
  BY <1>2
<1>4. of \in [DOMAIN accepted -> Sent] /\ IsInjective(of)
  BY <1>2, <1>3 DEF IsInjective
<1>5. \A i \in DOMAIN accepted : accepted[i] = Added(Fields[of[i]])
  <2> SUFFICES ASSUME NEW i \in DOMAIN accepted PROVE accepted[i] = Added(Fields[of[i]])
    OBVIOUS
  <2>1. of[i] \in Callers
    BY <1>2, <1>3
  <2> QED BY <1>2, <1>3, <2>1
<1> QED BY <1>4, <1>5

\* The server acts on whole requests of clients that sent one, each once and
\* with its fields, for any number of calls broken off between any two of
\* their writes, if no request has a CR or an ETX in it and each frame by
\* itself is parsed back into the fields it was made of.
THEOREM RequestsStayWhole ==
  ASSUME \A c \in Callers : Joined(Added(Fields[c])) \in Seq(Byte \ {CR, ETX}),
         \A c \in Callers :
             Plain(c) => Parsed(Append(Joined(Added(Fields[c])), ETX)) = Added(Fields[c])
  PROVE  Spec => []RequestsKept
<1>1. Unbroken
  BY DEF Unbroken, Text
<1>2. \A c \in Callers : Plain(c) => Parsed(Covered(c)) = Added(Fields[c])
  BY DEF Covered, Text
<1>3. IInv /\ RequestsInv /\ [Next]_vars => RequestsInv'
  BY <1>1, AllTell
<1>4. RequestsInv => RequestsKept
  BY <1>2, TellingKeepsRequests
<1> QED BY <1>3, <1>4, StartsTelling, AlwaysIInv, PTL DEF Spec
=============================================================================
