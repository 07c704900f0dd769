---------------------------- MODULE AuthTestCache ----------------------------
(***************************************************************************)
(* testCache of package auth (src/auth/cache_test.go): the in-memory      *)
(* Cacher the auth tests run against, and so the behaviour they expect of *)
(* a Cacher.  Tokens are abstracted to presence; Fetch and a simulated    *)
(* failure change nothing and are stuttering steps.                       *)
(***************************************************************************)
CONSTANTS Sessions

VARIABLES
    users,        \* users[s]: c.users holds s
    invalidated   \* invalidated[s]: c.invalidated[s] is true

Init ==
    /\ users = [s \in Sessions |-> FALSE]
    /\ invalidated = [s \in Sessions |-> FALSE]

Store(s) ==
    /\ users' = [users EXCEPT ![s] = TRUE]
    /\ UNCHANGED invalidated

Invalidate(s) ==
    /\ invalidated' = [invalidated EXCEPT ![s] = TRUE]
    /\ users' = [users EXCEPT ![s] = FALSE]

Purge(s) ==
    /\ users' = [users EXCEPT ![s] = FALSE]
    /\ invalidated' = [invalidated EXCEPT ![s] = FALSE]

Spec == Init /\ [][\E s \in Sessions : Store(s) \/ Invalidate(s) \/ Purge(s)]_<<users, invalidated>>
=============================================================================
