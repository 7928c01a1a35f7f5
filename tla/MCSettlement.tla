----------------------------- MODULE MCSettlement -----------------------------
(* Two signals: the running strategy's, which has no version, beside one of a   *)
(* published version in another slot; or two of one group, one guaranteed.     *)
EXTENDS Settlement

CONSTANTS s1, s2, free, paid, v1

Of(version, slot, forced) == [version |-> version, slot |-> slot, forced |-> forced]

MCKinds ==
  {(s1 :> Of(None, free, FALSE)) @@ (s2 :> Of(v1, paid, FALSE)),
   (s1 :> Of(None, free, FALSE)) @@ (s2 :> Of(None, free, TRUE))}
===============================================================================
