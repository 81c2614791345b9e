--------------------------- MODULE MCGuestThreads ---------------------------
(***************************************************************************)
(* Two threads, and as code: a store; the function read, whose call a      *)
(* restart enters at rdx; a write; and a block that VEX extended past a    *)
(* conditional exit into the function exit.                                *)
(***************************************************************************)
EXTENDS GuestThreads, TLC

Plain(op) == [entry |-> "none", op |-> op, leave |-> FALSE]
MCBlock == {"work", "rd", "rdx", "wr", "quit"}
MCCode ==
  [b \in MCBlock |->
     CASE b = "work" -> <<Plain("store")>>
       [] b = "rd"   -> <<[Plain("nop") EXCEPT !.entry = "read"], Plain("read")>>
       [] b = "rdx"  -> <<Plain("read")>>
       [] b = "wr"   -> <<Plain("write")>>
       [] b = "quit" -> <<[Plain("store") EXCEPT !.leave = TRUE],
                          [Plain("nop") EXCEPT !.entry = "exit"]>>]
MCStarts == MCBlock \ {"rdx"}
MCBack == [b \in MCBlock |-> IF b = "rd" THEN "rdx" ELSE b]
Symmetry == Permutations(Thread)
=============================================================================
