---------------------------- MODULE RateLimiter ----------------------------
(***************************************************************************)
(* The rate limiter of the server, src/server/shared/rate-limiter.ts: what *)
(* each of its operations returns and does to its map.  The map keeps keys *)
(* in the order in which they were set, so it is a sequence of entries.    *)
(* Accounts uses it for the attempts to sign in.                           *)
(*                                                                         *)
(* KeptBlockless is a slip that the code might have made in Stale; only    *)
(* the tests of the properties use it.                                     *)
(***************************************************************************)
EXTENDS Naturals, Sequences, SequencesExt

CONSTANTS Window,          \* windowMs
          MaxRequests,     \* granted in a window
          MaxFailures,     \* failures before a key is blocked
          InitialBackoff,  \* for how long it is blocked first
          MaxBackoff,      \* and at most
          MaxEntries       \* keys in the map

ASSUME LimiterAssumption ==
  /\ {Window, MaxRequests, MaxFailures, InitialBackoff, MaxBackoff, MaxEntries}
       \subseteq Nat \ {0}
  /\ InitialBackoff <= MaxBackoff

Entry(key, now) ==
  [key |-> key, count |-> 1, resetAt |-> now + Window, failures |-> 0,
   blockedUntil |-> 0, lastFailureAt |-> 0]

Has(map, key) == \E i \in DOMAIN map : map[i].key = key
Place(map, key) == CHOOSE i \in DOMAIN map : map[i].key = key
Of(map, key) == map[Place(map, key)]
Without(map, key) == IF Has(map, key) THEN RemoveAt(map, Place(map, key)) ELSE map
With(map, e) == [i \in DOMAIN map |-> IF map[i].key = e.key THEN e ELSE map[i]]

\* reset
Reset(map, key) == Without(map, key)

\* An entry that nothing is lost with.
Forgiven(e, now) == e.failures = 0 \/ now - e.lastFailureAt > MaxBackoff
KeptBlockless(e, now) == e.resetAt <= now
Stale(e, now) == e.resetAt <= now /\ e.blockedUntil <= now /\ Forgiven(e, now)

\* cleanup goes through the entries and deletes the stale ones.
Cleaned(map, now) ==
  LET kept[i \in 0..Len(map)] ==
        IF i = 0 THEN << >>
        ELSE IF Stale(map[i], now) THEN kept[i - 1] ELSE Append(kept[i - 1], map[i])
  IN  kept[Len(map)]

\* setEntry, for a key that is new: a map that stays full after it was cleaned
\* loses its oldest key, blocked or not.
Inserted(map, e, now) ==
  LET clean == IF Len(map) >= MaxEntries THEN Cleaned(map, now) ELSE map
      room  == IF Len(clean) >= MaxEntries THEN Tail(clean) ELSE clean
  IN  Append(room, e)

\* isLimited: what it answers, and the map after it was asked.
IsLimited(map, key, now) ==
  /\ Has(map, key)
  /\ \/ Of(map, key).blockedUntil > now
     \/ Of(map, key).resetAt > now /\ Of(map, key).count >= MaxRequests

Looked(map, key, now) ==
  IF ~Has(map, key) \/ Of(map, key).blockedUntil > now \/ Of(map, key).resetAt > now
  THEN map
  ELSE IF Forgiven(Of(map, key), now) THEN Without(map, key)
  ELSE With(map, [Of(map, key) EXCEPT !.count = 0, !.resetAt = now + Window])

\* consume, when the key is not limited
Consumed(map, key, now) ==
  LET seen == Looked(map, key, now)
  IN  IF Has(seen, key) THEN With(seen, [Of(seen, key) EXCEPT !.count = @ + 1])
      ELSE Inserted(seen, Entry(key, now), now)

\* recordFailure: the block doubles with each failure after the first ones.
Backoff(failures) ==
  LET long[more \in 0..(failures - MaxFailures)] ==
        IF more = 0 THEN InitialBackoff ELSE 2 * long[more - 1]
      last == long[failures - MaxFailures]
  IN  IF last < MaxBackoff THEN last ELSE MaxBackoff

Failed(map, key, now) ==
  LET had  == IF Has(map, key) THEN map ELSE Inserted(map, Entry(key, now), now)
      old  == Of(had, key)
      over == Has(map, key) /\ old.resetAt <= now /\ old.blockedUntil <= now
      base == IF ~over THEN old
              ELSE [old EXCEPT !.count = 1, !.resetAt = now + Window,
                      !.failures = IF now - old.lastFailureAt > MaxBackoff THEN 0 ELSE @]
      n    == base.failures + 1
  IN  With(had, [base EXCEPT !.failures = n, !.lastFailureAt = now,
                   !.blockedUntil = IF n >= MaxFailures THEN now + Backoff(n) ELSE @])
=============================================================================
