---------------------------- MODULE ChannelEnds ----------------------------
(* What both modules about sync::channel are parameterised by.              *)
EXTENDS Naturals

CONSTANTS
    Cap,              \* Channel.cap
    Sender, Receiver  \* the handles, each used by one thread at a time

(* with_capacity(): assert!(cap > 0). *)
ASSUME CapAssumption == Cap \in Nat \ {0}
=============================================================================
