------------------------------ MODULE RedisKeys ------------------------------
(***************************************************************************)
(* Life of a Redis key, as the services use it: a key is absent, or it     *)
(* lives for a number of ticks, or it lives until somebody deletes it.     *)
(* The numbers follow the reply of the TTL command: NoExpiry for a key     *)
(* without an expiry, a positive number for the ticks a key has left.      *)
(* Redis itself is outside the repository; these are the effects the       *)
(* callers rely on.                                                        *)
(***************************************************************************)
EXTENDS Integers

Absent == 0
NoExpiry == -1

\* The lives of a key whose longest expiry is max ticks.
Life(max) == {NoExpiry} \cup 0..max

Exists(life) == life # Absent

\* HSET, INCR, SADD, LPUSH: create the key without an expiry, or keep the one
\* it has.
Touched(life) == IF life = Absent THEN NoExpiry ELSE life

\* EXPIRE: does nothing to a key that is gone.
Expiring(life, ttl) == IF life = Absent THEN Absent ELSE ttl

\* One tick of the server's clock.
Aged(life) == IF life > 0 THEN life - 1 ELSE life
=============================================================================
