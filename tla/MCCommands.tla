----------------------------- MODULE MCCommands -----------------------------
(* Both streams, or the UART alone; help takes two callbacks, info three.  *)
EXTENDS Commands

CONSTANTS uart, eth, set, help, info

UartFirst == <<uart, eth>>
UartOnly == <<uart>>
TwoResponders == [m \in Responder |-> IF m = Help THEN 1 ELSE 2]
=============================================================================
