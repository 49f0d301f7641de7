------------------------------- MODULE MCConf -------------------------------
(* The texts of the runs of Conf: two .conf files that share an event, one   *)
(* that does not parse, an override without a `start on`, and a broken one.  *)
EXTENDS Conf

CONSTANTS plain, more, broken, tweak, tornTweak, boot, net

MCStartOn ==
  [t \in Texts |->
     CASE t = plain     -> {boot, net}
       [] t = more      -> {boot}
       [] t = broken    -> {}
       [] t = tweak     -> NoStanza
       [] t = tornTweak -> NoStanza]
=============================================================================
