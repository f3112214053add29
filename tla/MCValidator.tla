---------------------------- MODULE MCValidator -----------------------------
(***************************************************************************)
(* Two boards, three ports, so that a board can come up on another port    *)
(* and two can change places; the validator is given the first two.        *)
(***************************************************************************)
EXTENDS Validator, TLC

CONSTANTS b1, b2, responder, initiator

Mapping == (responder :> b1) @@ (initiator :> b2)
FirstTwo == <<1, 2>>
=============================================================================
