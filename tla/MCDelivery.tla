----------------------------- MODULE MCDelivery -----------------------------
(***************************************************************************)
(* Delivery for the run DeliveryWide: two instances, of which a behaviour  *)
(* is one.  The constants of the configuration are a ring that holds the   *)
(* whole queue, and lost connections; Narrow is a ring of one PUBLISH and  *)
(* a bit, and none lost.                                                   *)
(***************************************************************************)
EXTENDS Delivery

VARIABLE narrow     \* which of the two instances this behaviour is

Narrow == INSTANCE Delivery WITH RingSize <- 3, PublishSize <- 2,
                                 QoSs <- {1}, MaxLosses <- 0

EitherInit == narrow \in BOOLEAN /\ Init
EitherNext == (IF narrow THEN Narrow!Next ELSE Next) /\ UNCHANGED narrow

Either(thin, wide) == (narrow /\ thin) \/ (~narrow /\ wide)

\* The fairness of Delivery's FairSpec.
EitherSpec ==
    /\ EitherInit
    /\ [][EitherNext]_<<vars, narrow>>
    /\ WF_vars(Either(Narrow!Step, Step))
    /\ SF_vars(Either(Narrow!Tick, Tick))
    /\ SF_vars(Either(Narrow!Acknowledge, Acknowledge))
    /\ WF_vars(ClientReceives)
    /\ WF_vars(~online /\ Reconnect)

====
