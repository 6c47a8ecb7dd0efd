-------------------------------- MODULE Wire ---------------------------------
(***************************************************************************)
(* The terminal line of DialupLine byte by byte, in the direction from the  *)
(* clients to the modem server: DialupClient writes commands, an escape and *)
(* a request frame with its LRC; DialupServer's run() reads them through    *)
(* bufio_read_until and recv_frame.  The other direction runs through the   *)
(* same two files.  Here only its CONNECT matters, without which no client  *)
(* sends a frame; the replies and the outcome of calls are DialupLine's.    *)
(***************************************************************************)
EXTENDS Bufio, FiniteSets, SequencesExt

CONSTANTS
    Callers,      \* the client processes that write to this line
    Fields,       \* the fields of each caller's request, as it adds them
    MaxFields,    \* PROTO_MAX_FIELDS (8 in the code)
    MaxFieldLen   \* PROTO_MAX_FIELD_LEN (64 in the code), with its NUL

Byte == 0 .. 255

ASSUME FieldsAssumption == Fields \in [Callers -> Seq(Seq(Byte))]
ASSUME LimitsAssumption == MaxFields \in Nat \ {0} /\ MaxFieldLen \in Nat \ {0}

\* The bytes that somebody looks for.  A command stands for itself with the
\* one letter that tells it from the others: ATZ, ATDT, ATH0.
STX == 2
ETX == 3
CR == 13
Plus == 43
Bar == 124
CmdZ == 90
CmdT == 84
CmdH == 72
Space == {9, 10, 11, 12, 13, 32}

Escape == <<Plus, Plus, Plus>>

(***************************************************************************)
(* protocol.c: a frame and its fields                                       *)
(***************************************************************************)

\* Mutant of Clip: the last byte is not kept free for the NUL.
ClipLate(f) == SubSeq(f, 1, IF Len(f) <= MaxFieldLen THEN Len(f) ELSE MaxFieldLen)

\* A field with the rest cut off that has no room: snprintf in frame_add,
\* the bound of flen in recv_frame.
Clip(f) == SubSeq(f, 1, IF Len(f) < MaxFieldLen THEN Len(f) ELSE MaxFieldLen - 1)

\* The fields that are kept: frame_add and recv_frame drop the ones beyond.
Kept(fs) == SubSeq(fs, 1, IF Len(fs) <= MaxFields THEN Len(fs) ELSE MaxFields)

Added(fs) == [i \in DOMAIN Kept(fs) |-> Clip(fs[i])]

Joined(fs) ==
    FlattenSeq([i \in DOMAIN fs |-> IF i = 1 THEN fs[i] ELSE <<Bar>> \o fs[i]])

\* Exclusive or: bit k of the result is set if it is in an odd number of bytes.
Odd(s, k) == Cardinality({i \in DOMAIN s : (s[i] \div 2^k) % 2 = 1}) % 2

Lrc(s) == Odd(s, 0) + 2 * Odd(s, 1) + 4 * Odd(s, 2) + 8 * Odd(s, 3)
          + 16 * Odd(s, 4) + 32 * Odd(s, 5) + 64 * Odd(s, 6) + 128 * Odd(s, 7)

Frame(fs) ==
    LET covered == Append(Joined(Added(fs)), ETX)
    IN  <<STX>> \o covered \o <<Lrc(covered)>>

\* What send_frame sends are bytes.
ASSUME FramesAssumption == \A c \in Callers : Frame(Fields[c]) \in Seq(Byte)

\* Where the k-th piece of a body ends; the ETX ends the last one.
Cuts(s) == {i \in DOMAIN s : s[i] \in {Bar, ETX}}

Cut(s, k) == CHOOSE i \in Cuts(s) : Cardinality({j \in Cuts(s) : j <= i}) = k

\* Mutant of Parts: a field starts at its separator.
PartsWithBar(s) ==
    [k \in 1 .. Cardinality(Cuts(s)) |->
        SubSeq(s, IF k = 1 THEN 1 ELSE Cut(s, k - 1), Cut(s, k) - 1)]

\* The pieces of a body between its separators.
Parts(s) ==
    [k \in 1 .. Cardinality(Cuts(s)) |->
        SubSeq(s, IF k = 1 THEN 1 ELSE Cut(s, k - 1) + 1, Cut(s, k) - 1)]

Parsed(s) == Added(Parts(s))

\* sizeof data in recv_frame.
MaxBody == MaxFields * MaxFieldLen + 2

VARIABLES
    next,      \* which of its messages each caller writes next; 6: none
    connects,  \* CONNECT replies that no caller has acted upon
    mode,      \* what the server is reading
    body,      \* the frame bytes since STX
    accepted   \* the requests recv_frame has returned, in order

vars == <<stream, fetched, buf, start, len, taken, next, connects, mode, body, accepted>>

Modes == {"command", "stx", "body", "lrc", "escape", "hangup"}

Init ==
    /\ BufioInit
    /\ next = [c \in Callers |-> 1]
    /\ connects = 0
    /\ mode = "command" /\ body = <<>> /\ accepted = <<>>

(***************************************************************************)
(* The clients                                                              *)
(***************************************************************************)

\* Mutant of HangUp: the command has no end.
HangUpUnended == <<CmdH>>

HangUp == <<CmdH, CR>>

Message(c) ==
    CASE next[c] = 1 -> <<CmdZ, CR>>
      [] next[c] = 2 -> <<CmdT, CR>>
      [] next[c] = 3 -> Frame(Fields[c])
      [] next[c] = 4 -> Escape
      [] OTHER       -> HangUp

\* A client writes its messages in order.  It waits for each reply, at most
\* until a deadline, but only the one to ATDT has to come.
Write(c) ==
    /\ next[c] < 6
    /\ next[c] = 3 => connects > 0
    /\ Put(Message(c))
    /\ connects' = IF next[c] = 3 THEN connects - 1 ELSE connects
    /\ next' = [next EXCEPT ![c] = @ + 1]
    /\ UNCHANGED <<mode, body, accepted>>

\* No CONNECT has come, or the client is killed.
Leave(c) ==
    /\ next[c] \in 2 .. 5
    /\ next' = [next EXCEPT ![c] = 6]
    /\ UNCHANGED <<stream, fetched, buf, start, len, taken, connects, mode, body, accepted>>

(***************************************************************************)
(* The server: run()                                                        *)
(***************************************************************************)
ClientSide == <<next, connects>>

\* The terminator of the read in progress; a frame is read byte by byte.
Terminator == IF mode = "escape" THEN Escape ELSE <<CR>>

ByByte == mode \in {"stx", "body", "lrc"}

\* The read in progress can return.
Ready == IF ByByte THEN len > 0 ELSE Ends(Held, Terminator) # {}

ReadMore ==
    /\ ~Ready
    /\ Fill
    /\ UNCHANGED <<next, connects, mode, body, accepted>>

\* Everything but the wait for a command ends when the deadline passes or the
\* buffer is full; run() then takes the line for dropped.  The wait for a
\* command begins anew and finds the buffer as it is.
GiveUp ==
    /\ ~Ready
    /\ mode # "command"
    /\ FillFails
    /\ mode' = "command" /\ body' = <<>>
    /\ UNCHANGED <<next, connects, accepted>>

Dials(s) ==
    \E i \in DOMAIN s : s[i] = CmdT /\ \A j \in 1 .. i - 1 : s[j] \in Space

ReadCommand ==
    /\ mode = "command"
    /\ Ready
    /\ \E n \in FirstEnd(Held, <<CR>>) :
          /\ Take(n)
          /\ IF Dials(SubSeq(Held, 1, n - 1))
             THEN mode' = "stx" /\ connects' = connects + 1
             ELSE UNCHANGED <<mode, connects>>
    /\ UNCHANGED <<next, body, accepted>>

\* recv_frame: "expected STX".
ReadSTX ==
    /\ mode = "stx"
    /\ Ready
    /\ Take(1)
    /\ mode' = IF Held[1] = STX THEN "body" ELSE "command"
    /\ UNCHANGED <<next, connects, body, accepted>>

ReadBody ==
    /\ mode = "body"
    /\ Ready
    /\ Take(1)
    /\ IF Len(body) >= MaxBody
       THEN mode' = "command" /\ body' = <<>>
       ELSE /\ body' = Append(body, Held[1])
            /\ mode' = IF Held[1] = ETX THEN "lrc" ELSE "body"
    /\ UNCHANGED <<next, connects, accepted>>

\* A frame with the right LRC is answered, and run() waits for the escape.
ReadLRC ==
    /\ mode = "lrc"
    /\ Ready
    /\ Take(1)
    /\ IF Held[1] = Lrc(body)
       THEN mode' = "escape" /\ accepted' = Append(accepted, Parsed(body))
       ELSE mode' = "command" /\ UNCHANGED accepted
    /\ body' = <<>>
    /\ UNCHANGED ClientSide

ReadEscape ==
    /\ mode = "escape"
    /\ Ready
    /\ \E n \in FirstEnd(Held, Escape) : Take(n)
    /\ mode' = "hangup"
    /\ UNCHANGED <<next, connects, body, accepted>>

\* Whatever the command is, the call is over.
ReadHangUp ==
    /\ mode = "hangup"
    /\ Ready
    /\ \E n \in FirstEnd(Held, <<CR>>) : Take(n)
    /\ mode' = "command"
    /\ UNCHANGED <<next, connects, body, accepted>>

ServerStep ==
    \/ ReadMore \/ GiveUp
    \/ ReadCommand \/ ReadSTX \/ ReadBody \/ ReadLRC \/ ReadEscape \/ ReadHangUp

ClientStep == \E c \in Callers : Write(c) \/ Leave(c)

Next == ClientStep \/ ServerStep

Spec == Init /\ [][Next]_vars

\* The server process is scheduled and its deadlines pass; clients may stop.
FairSpec == Spec /\ WF_vars(ServerStep)

(***************************************************************************)
(* Properties                                                               *)
(***************************************************************************)
TypeOK ==
    /\ BufioTypeOK
    /\ stream \in Seq(Byte)
    /\ next \in [Callers -> 1 .. 6]
    /\ connects \in Nat
    /\ mode \in Modes
    /\ body \in Seq(Byte) /\ Len(body) <= MaxBody

\* Nothing in a request that its frame cannot carry: recv_frame takes a bar
\* in a field for a separator and an ETX for the end.
Plain(c) == \A i \in DOMAIN Fields[c] : \A j \in DOMAIN Fields[c][i] :
                Fields[c][i][j] \notin {Bar, ETX}

Sent == {c \in Callers : next[c] > 3}

\* The server acts on whole requests of clients that did send one, each once
\* and with the fields as they were added: bytes of two calls, of a call that
\* has given up and of the commands around them never make a request
\* (send_frame, recv_frame and the reads of run() around them).
RequestsKept ==
    (\A c \in Callers : Plain(c)) =>
        \E of \in [DOMAIN accepted -> Sent] :
            /\ IsInjective(of)
            /\ \A i \in DOMAIN accepted : accepted[i] = Added(Fields[of[i]])

\* run() never waits for a command with a full buffer and no end of line in
\* it: bufio_fill would return 0 at once, for ever.
NeverWedged == mode = "command" => Room > 0 \/ Ends(Held, <<CR>>) # {}

\* Every command that was written is read, also when the calls before it were
\* broken off between two of their writes: the server always comes back to
\* reading lines.
EveryLineRead == (\E i \in DOMAIN Unread : Unread[i] = CR)
                 ~> ~(\E i \in DOMAIN Unread : Unread[i] = CR)
=============================================================================
