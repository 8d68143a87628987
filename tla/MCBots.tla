------------------------------- MODULE MCBots -------------------------------
(***************************************************************************)
(* Values for TLC: one question, with or without a canned response, and    *)
(* one request_id.                                                         *)
(***************************************************************************)
EXTENDS Bots

CONSTANTS r1, k1, v1

MCRequests == {r1}
MCKeys == {k1}
MCValues == {v1}
MCQuestions == [id : {r1}, canned : BOOLEAN, timeout : {"ahead"}]
=============================================================================
