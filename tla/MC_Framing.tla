------------------------------ MODULE MC_Framing ------------------------------
(* Head field values at the byte boundaries: ids whose digits differ, so a *)
(* missing byte swap shows, and a call id with its top bit set.            *)
EXTENDS Framing

MCServiceIds == {<<0, 0, 0, 1>>, <<255, 254, 0, 2>>}
MCMethodIds == {<<0, 0, 0, 3>>}
MCCallIds == {<<0, 0, 127, 255, 190, 1, 2, 3>>, <<128, 0, 0, 0, 0, 0, 0, 1>>}

=============================================================================
