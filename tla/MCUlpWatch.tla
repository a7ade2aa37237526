------------------------------ MODULE MCUlpWatch ------------------------------
(* UlpWatch with every consumer and a TC threshold of the default or zero.     *)
EXTENDS UlpWatch

MCConsumers == {"notified", "polling", "light"}
MCGuard == {"notified"}
MCThresholds == {0, 3}
=============================================================================
