--------------------------- MODULE MCSlotBooking ---------------------------
(* Instances of SlotBooking for TLC. *)
EXTENDS SlotBooking

\* Two intervals that overlap each other, and one that overlaps the second.
ChainedSlots == {<<8, 10>>, <<9, 11>>, <<10, 12>>}
TwoSlots == {<<8, 10>>, <<9, 11>>}
ApartSlots == {<<8, 10>>, <<10, 12>>}

AnyTransition == Status \X {"pending", "confirmed", "completed", "cancelled"}
OnlyApprovals == {<<"pending", "confirmed">>}
NoTransition == {}
=============================================================================
