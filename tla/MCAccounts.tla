----------------------------- MODULE MCAccounts -----------------------------
(* Accounts on an instance with two usernames and two clients.             *)
EXTENDS Accounts, TLC

CONSTANTS t1, t2, c1, c2, k1, k2, code

MCTokens == {t1, t2}
MCClients == {c1, c2}
MCKeys == {k1, k2}
MCSymmetry == Permutations(MCTokens)
=============================================================================
