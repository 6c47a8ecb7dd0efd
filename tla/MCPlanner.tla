------------------------------ MODULE MCPlanner ------------------------------
(***************************************************************************)
(* Two runs of one customer and one of another.                             *)
(***************************************************************************)
EXTENDS Planner

MCOwner == <<"ann", "ann", "bob">>

Menus == <<"pick", "pick">>

Good == <<"approved number", "expiry", "cvv">>

\* Inputs that end at a menu or at the card, and a card of every class.
MCInputs ==
    << {Menus \o Good, <<"pick">>},
       {<<"pick", "junk", "pick">> \o Good, Menus},
       {Menus \o <<"declined number", "expiry", "cvv">>, Menus \o <<"approved number", "expiry">>,
        Menus \o Good} >>
=============================================================================
