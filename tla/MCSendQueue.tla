---------------------------- MODULE MCSendQueue ----------------------------
(* Instances of SendQueue for TLC: the main thread and two IO threads. *)
EXTENDS SendQueue

CONSTANTS main, io1, io2, spawn, enemies, move, chat

ThreeThreads == {main, io1, io2}
FourMessages == {spawn, enemies, move, chat}

=============================================================================
