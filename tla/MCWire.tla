------------------------------- MODULE MCWire --------------------------------
(***************************************************************************)
(* Two calls on one line.  One request has a field that is cut and a field   *)
(* too many; the LRC of the other is a CR, which readers of lines look for. *)
(***************************************************************************)
EXTENDS Wire

CONSTANTS a, b

MCFields == (a :> << <<50, 51>>, <<>>, <<53>> >>) @@ (b :> << <<>>, <<114>> >>)

\* RequestsKept says something of these requests, and RequestsStayWhole of
\* WireProofs is about them.
ASSUME RequestsAssumption ==
    \A c \in Callers : Plain(c) /\ Joined(Added(Fields[c])) \in Seq(Byte \ {CR, ETX})
=============================================================================
