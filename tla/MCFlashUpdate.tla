---------------------------- MODULE MCFlashUpdate ----------------------------
(* Machines of two boards that differ in make, size, chip and wear.          *)
EXTENDS FlashUpdate

Some == [make |-> "RIPPLE", big |-> TRUE, firmware |-> TRUE, chip |-> "sectors", worn |-> FALSE]

Matze == [Some EXCEPT !.make = "MATZE"]
Worn == [Some EXCEPT !.worn = TRUE]
Unknown == [Matze EXCEPT !.chip = "unknown"]

Kinds ==
  {Some, Matze, Worn, Unknown, [Some EXCEPT !.make = "CIDER"], [Matze EXCEPT !.big = FALSE],
   [Some EXCEPT !.chip = "whole"], [Matze EXCEPT !.chip = "whole"],
   [Matze EXCEPT !.firmware = FALSE]}

TwoBoards == {<<b, c>> : b \in {Matze, Worn}, c \in Kinds}

\* Sizes below, at and above the limits; a bank some boards have, and none has.
Asked ==
  {q \in [rom : {"none", "CIDER", "ATBUS"}, romSize : {2, 3, 4, 5}, misc : 0..2,
          miscSize : {0, 3, 5}, erase : BOOLEAN, reboot : BOOLEAN, yes : {FALSE}] :
     /\ q.rom # "none" \/ q.misc # 0 \/ q.erase
     /\ q.rom = "none" => q.romSize = 2
     /\ q.romSize \in {2, 5} => q.miscSize = 3 /\ ~q.erase
     /\ q.misc = 0 <=> q.miscSize = 0
     /\ q.miscSize = 5 => ~q.erase
     /\ q.reboot => q.erase
     /\ q.rom = "ATBUS" => ~q.erase}

\* A device with two boards and a gap, and one that is older.
SomeDrives == <<{0, 3, 5}, {1}>>
=============================================================================
