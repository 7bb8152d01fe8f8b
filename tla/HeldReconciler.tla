--------------------------- MODULE HeldReconciler ---------------------------
(***************************************************************************)
(* The durable physical-level slots that the S3 translator and the P4      *)
(* receiver share (common/control_state_reconciler).  A slot remembers the *)
(* newest level seen for one held control (`desired'), the level last      *)
(* handed to the next layer (`scheduled', meaningful once `valid'), and    *)
(* whether the two disagree (`dirty').                                     *)
(*                                                                         *)
(* A level is a packed 16-bit value in the code; here it is a member of    *)
(* Levels, and ReleaseOf gives the value control_held_state_release_value  *)
(* computes from it: 0 for a plain button, the value without its pressed   *)
(* bit (and so with its Shift bit) for a pad or an extension action.       *)
(***************************************************************************)
EXTENDS Integers

CONSTANTS
  NHeld,      \* number of held controls (CONTROL_HELD_STATE_COUNT, 54)
  Levels,     \* the values a held control reports
  ReleaseOf   \* the release of each value

ASSUME HeldAssumption ==
  /\ NHeld \in Nat
  /\ Levels \subseteq Nat /\ 0 \in Levels
  /\ ReleaseOf \in [Levels -> Levels]
  /\ \A v \in Levels : ReleaseOf[ReleaseOf[v]] = ReleaseOf[v]

HeldKeys == 0 .. NHeld - 1

Slot == [observed : BOOLEAN, valid : BOOLEAN, dirty : BOOLEAN,
         desired : Levels, scheduled : Levels]

\* control_held_state_reset
ResetSlots ==
  [k \in HeldKeys |-> [observed |-> FALSE, valid |-> FALSE, dirty |-> FALSE,
                       desired |-> 0, scheduled |-> 0]]

\* Deliberately wrong variants, for checking that the properties notice.
NeedsScheduleOnce(valid, scheduled, desired) == ~valid
NeedsScheduleAlways(valid, scheduled, desired) == TRUE

NeedsSchedule(valid, scheduled, desired) == ~valid \/ scheduled # desired

\* control_held_state_observe: a repeated level is not dirty again.
Observe(s, v) ==
  [observed |-> TRUE, valid |-> s.valid,
   dirty |-> NeedsSchedule(s.valid, s.scheduled, v),
   desired |-> v, scheduled |-> s.scheduled]

\* control_held_state_mark_scheduled: `v' is what was sent, which need not be
\* what is desired by the time the send returns.
MarkScheduled(s, v) ==
  [observed |-> s.observed, valid |-> TRUE, dirty |-> s.desired # v,
   desired |-> s.desired, scheduled |-> v]

\* control_held_state_release_all
ReleaseAll(slots) ==
  [k \in HeldKeys |-> IF slots[k].observed
                      THEN Observe(slots[k], ReleaseOf[slots[k].desired])
                      ELSE slots[k]]

\* The slots control_held_state_next_dirty can return from a cursor.
DirtyFrom(slots, cursor) ==
  {k \in HeldKeys : k >= cursor /\ slots[k].observed /\ slots[k].dirty}

\* control_held_state_next_dirty: the lowest of them.
IsNextDirty(slots, cursor, k) ==
  /\ k \in DirtyFrom(slots, cursor)
  /\ \A j \in DirtyFrom(slots, cursor) : k <= j

\* control_held_state_next_observed: every observed slot, dirty or not.
ObservedFrom(slots, cursor) ==
  {k \in HeldKeys : k >= cursor /\ slots[k].observed}

IsNextObserved(slots, cursor, k) ==
  /\ k \in ObservedFrom(slots, cursor)
  /\ \A j \in ObservedFrom(slots, cursor) : k <= j
=============================================================================
