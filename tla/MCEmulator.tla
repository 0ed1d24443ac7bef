----------------------------- MODULE MCEmulator -----------------------------
(* Instance of Emulator for TLC: two nodes. *)
EXTENDS Emulator

MCNodeNames == <<"node-00", "node-01">>
MCSeedOf(i) == 1000 - i
\* One worker writes a second time, one is through before its first write.
MCMaxOps == <<1, 2, 1, 0>>
=============================================================================
