--------------------------- MODULE MCHttpRequest ---------------------------
(* HttpRequest for TLC: headers and bodies of a few bytes around the size   *)
(* of the buffer.                                                           *)
EXTENDS HttpRequest

CONSTANTS HeaderLengths, BodyLengths

MCRequests ==
    {r \in [to : {"weather", "astro"}, kind : WeatherKinds \cup AstroKinds,
            shape : [header : HeaderLengths, body : BodyLengths,
                     city : 0 .. 6, declared : BOOLEAN]] :
        /\ r.kind \in IF r.to = "weather" THEN WeatherKinds ELSE AstroKinds
        /\ r.shape.city <= r.shape.body
        /\ r.kind # "POST" => r.shape.body = 0
        /\ r.shape.body = 0 => r.shape.declared}
=============================================================================
