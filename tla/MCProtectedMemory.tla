-------------------------- MODULE MCProtectedMemory --------------------------
(***************************************************************************)
(* A small instance of ProtectedMemory.tla: bytes of four values, two      *)
(* slots of eight bytes, and the least memory the memory map allows.       *)
(***************************************************************************)
EXTENDS ProtectedMemory

\* A program of each kind: empty, one that just fits, one that reaches into the
\* stack and one larger than a slot.  27 and 254 are the bytes 3,2,1,0 and
\* 2,3,3,3: a value that fits no width but the word, and minus two.
MCPrograms == {<<>>, <<27>>, <<254, 27>>, <<27, 27, 27>>}
MCValues == {27, 254}
MCAddresses == {0, 3, 4, 5, 9, 10, 11, 12, 13, 17, 18, 19, 20, 22, 23}
=============================================================================
