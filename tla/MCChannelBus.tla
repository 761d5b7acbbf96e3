---------------------------- MODULE MCChannelBus ----------------------------
(* Instances of ChannelBus for TLC.                                        *)
EXTENDS ChannelBus

\* Every mode under an evicting and a rejecting policy, with and without a
\* lifespan, for one reader or several, and one that copies.  Validation
\* refuses latest-style channels that reject.
ReaderConfigs ==
    {c \in [mode : Modes, overflow : {"drop_oldest", "fail_fast"}, capacity : {2},
            multi : BOOLEAN, lifespan : BOOLEAN, copy : BOOLEAN] :
        /\ c.copy => c.mode = "queue" /\ ~c.multi /\ ~c.lifespan
        /\ c.mode \in {"queue", "barrier"} \/ (c.overflow = "drop_oldest" /\ ~c.multi)}
=============================================================================
