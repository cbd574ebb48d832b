----------------------------- MODULE SessionPool -----------------------------
(***************************************************************************)
(* Pool<T> of client.rs: the idle sessions of each (catalog, schema) key    *)
(* and a count of the sessions that key may still create, each behind a     *)
(* mutex of its own.  An operator here is one critical section; what takes  *)
(* both locks one after the other (drain_idle, drain_key) is two of them,   *)
(* and another thread may come in between.                                  *)
(***************************************************************************)
EXTENDS Integers, Sequences, SequencesExt, FiniteSets

CONSTANTS
  Keys,
  MaxSessionsPerKey

ASSUME CapAssumption == MaxSessionsPerKey \in Nat \ {0} /\ IsFiniteSet(Keys)

VARIABLES
  idle,    \* Pool.idle: the sessions waiting for reuse, as stacks
  total    \* Pool.total: the sessions accounted to each key

poolVars == <<idle, total>>

\* saturating_sub
Minus(a, b) == IF a > b THEN a - b ELSE 0

-----------------------------------------------------------------------------
(* Mutants                                                                  *)

\* The session is handed out but stays on the stack.
PoppedKeeping(stack) == stack

\* A released slot is forgotten.
ReleasedNever(k) == UNCHANGED total

-----------------------------------------------------------------------------
HasIdle(k) == idle[k] # <<>>
TopIdle(k) == Last(idle[k])

Popped(stack) == Front(stack)

\* Pool::take
Take(k) == idle' = [idle EXCEPT ![k] = Popped(@)]

HasRoom(k) == total[k] < MaxSessionsPerKey

\* Pool::reserve, under the cap
Reserve(k) == total' = [total EXCEPT ![k] = @ + 1]

\* Pool::release: a creation that failed, a dropped Reservation, a discard
Release(k) == total' = [total EXCEPT ![k] = Minus(@, 1)]

\* Pool::put
Put(k, s) == idle' = [idle EXCEPT ![k] = Append(@, s)]

\* Pool::checkin
Checkin(k, s, keep) ==
  IF keep THEN Put(k, s) /\ UNCHANGED total ELSE Release(k) /\ UNCHANGED idle

\* The first critical section of drain_key and drain_idle, and the second.
RemoveIdle(ks) == idle' = [k \in Keys |-> IF k \in ks THEN <<>> ELSE idle[k]]
Discount(drained) == total' = [k \in Keys |-> Minus(total[k], Len(drained[k]))]

NothingDrained == [k \in Keys |-> <<>>]
Drained(ks) == [k \in Keys |-> IF k \in ks THEN idle[k] ELSE <<>>]

SessionsIn(lists) == UNION {Range(lists[k]) : k \in Keys}
=============================================================================
