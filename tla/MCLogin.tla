--------------------------------- MODULE MCLogin ---------------------------------
(* How users and how this service itself are identified: two logins at once, on      *)
(* either surface, and three callers of another service.  The two share no state, so *)
(* each is explored while the other waits.                                           *)
EXTENDS Login, ServiceTokens, TLC

CONSTANTS admin, web, staff, public

OrganizationsOfBoth == (admin :> {staff}) @@ (web :> {public, staff})
RolesOfBoth == (admin :> {"admin"}) @@ (web :> {})

IdentityInit == LoginInit /\ TokensInit

IdentityNext ==
    \/ TokensInit /\ LoginNext /\ UNCHANGED tokenVars
    \/ LoginInit /\ TokensNext /\ UNCHANGED loginVars

IdentitySpec == IdentityInit /\ [][IdentityNext]_<<loginVars, tokenVars>>

IdentitySymmetry == Permutations(Handlers) \cup Permutations(Transactions)
==================================================================================
