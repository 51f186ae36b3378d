------------------------------ MODULE MCKeyCache ------------------------------
(* A user's key in the home project and another tenant's key of no user, two      *)
(* requests at a time.                                                            *)
EXTENDS KeyCache, TLC

CONSTANTS kb, kq, u1, home, other

MCKeyProject == kb :> home @@ kq :> other
MCKeyUser == kb :> u1 @@ kq :> NoUser
CallerSymmetry == Permutations(Callers)
=============================================================================
