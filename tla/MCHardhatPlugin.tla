--------------------------- MODULE MCHardhatPlugin ---------------------------
(***************************************************************************)
(* The Hardhat plugin under names of its own, so that it can stand beside  *)
(* the server whose client it is.                                          *)
(***************************************************************************)
EXTENDS Integers

CONSTANTS Caller, Socket, MaxRequest, Nil

VARIABLES sock, ws, promise, timers, lastId, pending, wire, script, cached, gated, node, crossed

Plugin == INSTANCE HardhatPlugin WITH None <- Nil

ASSUME PluginAssumption ==
    /\ Nil \notin Socket
    /\ MaxRequest \in Nat

PluginSpec == Plugin!Spec
FairPluginSpec == Plugin!FairSpec

-----------------------------------------------------------------------------
\* However sockets, timers and answers of several connections interleave, a
\* script that waits can be answered, and only with what it asked for, on the
\* connection the client has.
AnswersArrive == Plugin!AnswersArrive

\* A script that was given a transaction finds it on the network.
ReturnedIsKnown == Plugin!ReturnedIsKnown

\* A script is not kept waiting.
CallsEnd == Plugin!CallsEnd
=============================================================================
