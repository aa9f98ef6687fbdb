------------------------- MODULE MCAccelsimBridge --------------------------
(***************************************************************************)
(* Instantiates AccelsimBridge for TLC. Command lists are all lists of at  *)
(* most MaxCommands commands over two streams, those that end with a      *)
(* memcpy included.                                                        *)
(***************************************************************************)
EXTENDS AccelsimBridge, TLC

CONSTANTS s0, s1

MaxCommands == 4

MCStreams == {s0, s1}

AllCommandLists == BoundedSeq(Commands, MaxCommands)

StreamSymmetry == Permutations(MCStreams)

=============================================================================
