----------------------------- MODULE MCAuthCache -----------------------------
(* One session (each call touches one key, so keys are independent), a   *)
(* clock of 2 ticks per second running for 4 seconds, invalidateTimeout   *)
(* scaled to 2 seconds and the 30-day limit to 3.  A stored user expires  *)
(* at 0.5 s (a sub-second TTL), 2.5 s (a relative TTL), 4 s (beyond the   *)
(* relative limit when stored at 0) or never.                             *)
EXTENDS AuthCache, TLC

CONSTANTS s1

MCSessions == {s1}
MCExpiries == {1, 5, 8}

(* For the comparison with the test double, which has no clock: the clock *)
(* stands still and a stored user expires within the relative limit.      *)
MCLiveExpiries == {5}

=============================================================================
