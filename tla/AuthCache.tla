------------------------------ MODULE AuthCache ------------------------------
(***************************************************************************)
(* memcacheCacher of package auth (src/auth/cache.go): the session token  *)
(* cache kept in memcache.  Store sets the session's token with a TTL     *)
(* computed from the user's ExpiryTs, Invalidate sets the "invalid"       *)
(* placeholder for invalidateTimeout seconds, Fetch gets and interprets   *)
(* the value, Purge deletes the key.  Each call is one memcache request,  *)
(* atomic at the server; calls from any number of goroutines interleave   *)
(* only between requests, so the model runs one call per step.           *)
(*                                                                         *)
(* Time is a clock in ticks of 1/TicksPerSec second, so that the         *)
(* truncation of a sub-second remainder to whole seconds is visible.     *)
(* memcache itself (not in the repository) is modelled by its protocol:  *)
(* an expiration of 0 never expires, one above 30 days (RelativeLimit)    *)
(* is a Unix time (long past), a negative one has already expired; a     *)
(* request may fail before or after the server applied it, and a Set may *)
(* reach the server up to MaxDelay ticks after its TTL was computed.      *)
(***************************************************************************)
EXTENDS Integers

CONSTANTS
    Sessions,           \* session ids
    TicksPerSec,
    MaxTime,            \* the clock runs in 0..MaxTime ticks
    InvalidateTimeout,  \* invalidateTimeout, in seconds
    RelativeLimit,      \* memcache's 30-day limit of relative expirations, in seconds
    Expiries,           \* the ExpiryTs values (ticks) a stored user may carry
    ZeroTs,             \* ExpiryTs.IsZero()
    SetCanFail, GetCanFail, DecodeCanFail,
    MaxDelay            \* ticks a Set may spend between doStore's time.Now() and the server

ASSUME 0 < InvalidateTimeout /\ InvalidateTimeout <= RelativeLimit

VARIABLES
    item,       \* item[s]: the memcache item under key s
    now,        \* the clock
    lastWrite,  \* lastWrite[s]: the last write the server applied to key s
    ret         \* ret[s]: what the last call on s returned

vars == <<item, now, lastWrite, ret>>

NeverExpires == -1
Absent == [val |-> "none", exp |-> 0, uexp |-> ZeroTs]
Items == [val : {"token", "invalid"}, exp : Int, uexp : Expiries \cup {ZeroTs}] \cup {Absent}
Rets == [op : {"none", "store", "invalidate", "fetch", "purge"},
         err : {"nil", "miss", "net"}, hit : {"none", "invalid", "user"}, at : 0..MaxTime]

\* The item is held and not expired.
Live(it) == it # Absent /\ (it.exp = NeverExpires \/ now < it.exp)

\* int32(d.Seconds()): a conversion toward zero.
TruncSecs(ticks) == IF ticks >= 0 THEN ticks \div TicksPerSec ELSE -((-ticks) \div TicksPerSec)

\* The expiry instant the memcache server gives an item set with ttl secs.
ExpiryAt(ttl) ==
    CASE ttl = 0                          -> NeverExpires
      [] ttl < 0 \/ ttl > RelativeLimit   -> now
      [] OTHER                            -> now + ttl * TicksPerSec

\* A write is applied and answered ("ok"), lost before the server ("lost"),
\* or applied and its answer lost ("late").
WriteOutcomes == IF SetCanFail THEN {"ok", "lost", "late"} ELSE {"ok"}
Applied(o) == o \in {"ok", "late"}
ErrOf(o) == IF o = "ok" THEN "nil" ELSE "net"

TypeOK ==
    /\ item \in [Sessions -> Items]
    /\ now \in 0..MaxTime
    /\ lastWrite \in [Sessions -> [op : {"none", "store", "invalidate", "purge"}, at : 0..MaxTime]]
    /\ ret \in [Sessions -> Rets]
    /\ \A s \in Sessions : ret[s].hit # "none" => ret[s].err = "nil"  \* no hit with an error

Init ==
    /\ item = [s \in Sessions |-> Absent]
    /\ now = 0
    /\ lastWrite = [s \in Sessions |-> [op |-> "none", at |-> 0]]
    /\ ret = [s \in Sessions |-> [op |-> "none", err |-> "nil", hit |-> "none", at |-> 0]]

\* Records the result of a call on s, and an applied write.
Return(s, op, err, hit) == ret' = [ret EXCEPT ![s] = [op |-> op, err |-> err, hit |-> hit, at |-> now]]
Wrote(s, op, o) ==
    lastWrite' = IF Applied(o) THEN [lastWrite EXCEPT ![s] = [op |-> op, at |-> now]] ELSE lastWrite

-----------------------------------------------------------------------------
(* Store/doStore: ttl is 0 for a zero ExpiryTs, else the time remaining  *)
(* at time.Now() (d ticks before the server applies the Set) truncated to *)
(* whole seconds; then mc.Set of the token, whose expiry memcache counts  *)
(* from its arrival.                                                      *)
Store(s, e, o, d) ==
    LET ttl == IF e = ZeroTs THEN 0 ELSE TruncSecs(e - (now - d))
    IN /\ item' = IF Applied(o)
                    THEN [item EXCEPT ![s] = [val |-> "token", exp |-> ExpiryAt(ttl), uexp |-> e]]
                    ELSE item
       /\ Wrote(s, "store", o)
       /\ Return(s, "store", ErrOf(o), "none")
       /\ UNCHANGED now

(* Invalidate/doInvalidate: mc.Set of the placeholder for invalidateTimeout. *)
Invalidate(s, o) ==
    /\ item' = IF Applied(o)
                 THEN [item EXCEPT ![s] = [val |-> "invalid", exp |-> ExpiryAt(InvalidateTimeout),
                                           uexp |-> ZeroTs]]
                 ELSE item
    /\ Wrote(s, "invalidate", o)
    /\ Return(s, "invalidate", ErrOf(o), "none")
    /\ UNCHANGED now

(* Mutant of DoFetch: a Get error is returned as a hit. *)
DoFetchErrorAsHit(s) ==
    \/ GetCanFail /\ Return(s, "fetch", "net", "invalid")
    \/ ~Live(item[s]) /\ Return(s, "fetch", "nil", "none")
    \/ Live(item[s]) /\ item[s].val = "invalid" /\ Return(s, "fetch", "nil", "invalid")
    \/ Live(item[s]) /\ item[s].val = "token" /\ DecodeCanFail /\ Return(s, "fetch", "nil", "none")
    \/ Live(item[s]) /\ item[s].val = "token" /\ Return(s, "fetch", "nil", "user")

(* Mutant of DoFetch: a token that cannot be decoded is reported as the   *)
(* invalid placeholder (cacheHit true, no user).                           *)
DoFetchDecodeAsInvalid(s) ==
    \/ GetCanFail /\ Return(s, "fetch", "net", "none")
    \/ ~Live(item[s]) /\ Return(s, "fetch", "nil", "none")
    \/ Live(item[s]) /\ item[s].val = "invalid" /\ Return(s, "fetch", "nil", "invalid")
    \/ Live(item[s]) /\ item[s].val = "token" /\ DecodeCanFail /\ Return(s, "fetch", "nil", "invalid")
    \/ Live(item[s]) /\ item[s].val = "token" /\ Return(s, "fetch", "nil", "user")

(* doFetch: a Get error other than a miss is returned; a miss is no hit;  *)
(* the placeholder is a hit with no user; a token is decoded by           *)
(* FromSessionToken, and one that fails to decode is treated as a miss.   *)
DoFetch(s) ==
    \/ GetCanFail /\ Return(s, "fetch", "net", "none")
    \/ ~Live(item[s]) /\ Return(s, "fetch", "nil", "none")
    \/ Live(item[s]) /\ item[s].val = "invalid" /\ Return(s, "fetch", "nil", "invalid")
    \/ Live(item[s]) /\ item[s].val = "token" /\ DecodeCanFail /\ Return(s, "fetch", "nil", "none")
    \/ Live(item[s]) /\ item[s].val = "token" /\ Return(s, "fetch", "nil", "user")

Fetch(s) == DoFetch(s) /\ UNCHANGED <<item, now, lastWrite>>

(* Purge/doPurge: mc.Delete, whose error is returned as it is; deleting a *)
(* key the server does not hold (absent or expired) is ErrCacheMiss.      *)
Purge(s, o) ==
    IF Live(item[s])
      THEN /\ item' = IF Applied(o) THEN [item EXCEPT ![s] = Absent] ELSE item
           /\ Wrote(s, "purge", o)
           /\ Return(s, "purge", ErrOf(o), "none")
           /\ UNCHANGED now
      ELSE /\ Return(s, "purge", IF o = "ok" THEN "miss" ELSE "net", "none")
           /\ UNCHANGED <<item, now, lastWrite>>

Tick ==
    /\ now < MaxTime
    /\ now' = now + 1
    /\ UNCHANGED <<item, lastWrite, ret>>

Next ==
    \/ \E s \in Sessions, o \in WriteOutcomes :
          \/ \E e \in Expiries \cup {ZeroTs}, d \in 0..MaxDelay :
                d <= now /\ Store(s, e, o, d)
          \/ Invalidate(s, o)
          \/ Purge(s, o)
    \/ \E s \in Sessions : Fetch(s)
    \/ Tick

Spec == Init /\ [][Next]_vars

-----------------------------------------------------------------------------
(* Fetch's contract (comment on Fetch): a hit with no user means the     *)
(* session is known to be invalid.  A Fetch reports the placeholder only  *)
(* while the last write the server applied to the key is an Invalidate   *)
(* less than invalidateTimeout old, and a user only while it is a Store,  *)
(* whatever writes failed, were lost or were applied without an answer.  *)
FetchHitIsCurrent ==
    [][\A s \in Sessions :
         ret'[s] # ret[s] /\ ret'[s].op = "fetch" =>
            /\ ret'[s].hit = "invalid" =>
                  /\ lastWrite[s].op = "invalidate"
                  /\ now < lastWrite[s].at + InvalidateTimeout * TicksPerSec
            /\ ret'[s].hit = "user" => lastWrite[s].op = "store"]_vars

(* doStore derives the TTL from the user's ExpiryTs so that the cached   *)
(* token goes when the session does: a token cached for a user with an    *)
(* expiry is never served at or after that expiry.                         *)
CachedTokenNotPastExpiry ==
    \A s \in Sessions :
        Live(item[s]) /\ item[s].val = "token" /\ item[s].uexp # ZeroTs => now < item[s].uexp

(* Refinement mapping to the test double: a live token is c.users[s], a   *)
(* live placeholder is c.invalidated[s].                                   *)
TD == INSTANCE AuthTestCache WITH
        users <- [s \in Sessions |-> Live(item[s]) /\ item[s].val = "token"],
        invalidated <- [s \in Sessions |-> Live(item[s]) /\ item[s].val = "invalid"]

(* memcacheCacher behaves as the testCache the auth tests run against:    *)
(* every call changes what Fetch would report as the double's does.  In   *)
(* the double an invalidated session stays invalid when it is stored      *)
(* again, until it is purged.                                             *)
ImplementsTestCache == TD!Spec
=============================================================================
