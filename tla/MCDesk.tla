-------------------------------- MODULE MCDesk --------------------------------
(***************************************************************************)
(* Weeks of two days and months of two weeks, with two slots a day; both   *)
(* tests are due in the third slot, the weekly one again four slots later. *)
(***************************************************************************)
EXTENDS Desk, TLC

MCAt == [x \in Tests |-> 2]
MCPolicy == [x \in Tests |-> IF x = "RWT" THEN "next_day" ELSE "delay_window"]
===============================================================================
