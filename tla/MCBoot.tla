------------------------------- MODULE MCBoot -------------------------------
(***************************************************************************)
(* A small instance of Boot.tla: two slots; a file that fits, one that is  *)
(* too large, one with an error, one that throws, and a number.            *)
(***************************************************************************)
EXTENDS Boot, TLC

MCArgs == {"--no-trace", "--quantum", "--timer", "--help", "3", "a.asm", "b.asm",
           "large.asm", "bad.asm", "x.asm"}
MCStoi == "3" :> 3
MCAssembled == "a.asm" :> 0 @@ "b.asm" :> 1 @@ "large.asm" :> 2
=============================================================================
