---------------------------- MODULE SlotCircuit ----------------------------
(***************************************************************************)
(* The crash circuit breaker of one agent slot                             *)
(* (crates/buzz-acp/src/lib.rs, struct SlotCircuit).                       *)
(*                                                                         *)
(* crash_times is the number of crashes on record.  The entries that       *)
(* record_crash prunes because they are older than the window are chosen   *)
(* freely, so record_crash is a set of possible results.  open_until is    *)
(* "absent" while the circuit is closed, "future" during the cooldown and  *)
(* "past" after it.                                                        *)
(***************************************************************************)
EXTENDS Integers

CONSTANT Threshold   \* CIRCUIT_BREAKER_THRESHOLD

ASSUME CircuitAssumption == Threshold \in Nat \ {0}

Circuit == [crash_times : 0..Threshold,
            open_until : {"absent", "future", "past"},
            respawn_in_flight : BOOLEAN]

NewCircuit == [crash_times |-> 0, open_until |-> "absent",
               respawn_in_flight |-> FALSE]

\* Half-open: the next crash inside the window trips the breaker at once.
PreSeeded(k) == [k EXCEPT !.crash_times = Threshold - 1,
                          !.open_until = "absent"]

\* record_crash followed by what its caller does with the verdict: a respawn
\* task is started unless the circuit is open.
RecordCrash(k) ==
    CASE k.open_until = "past" ->
            {[PreSeeded(k) EXCEPT !.respawn_in_flight = TRUE]}
      [] k.open_until = "future" -> {k}
      [] k.open_until = "absent" ->
            {IF recent >= Threshold
             THEN [k EXCEPT !.crash_times = recent, !.open_until = "future"]
             ELSE [k EXCEPT !.crash_times = recent, !.respawn_in_flight = TRUE] :
               recent \in 1..(k.crash_times + 1)}

\* Mutant: starts the spawn and leaves the circuit open.
RefilledStaysOpen(k) == [k EXCEPT !.respawn_in_flight = TRUE]

\* can_refill, and the state it leaves behind when it says yes.
CanRefill(k) == k.open_until # "future"
Refilled(k) == [(IF k.open_until = "past" THEN PreSeeded(k) ELSE k)
                  EXCEPT !.respawn_in_flight = TRUE]

\* The main loop takes a respawn result off the channel; a failed spawn opens
\* the circuit (mark_spawn_failed).
Collected(k, ok) ==
    [k EXCEPT !.respawn_in_flight = FALSE,
              !.open_until = IF ok THEN @ ELSE "future"]

CooldownElapses(k) == [k EXCEPT !.open_until = "past"]
=============================================================================
