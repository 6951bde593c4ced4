--------------------------- MODULE MCPluginSecrets ---------------------------
(* Two secrets, one of them written in two ways, and one text that is not  *)
(* JSON.                                                                   *)
EXTENDS PluginSecrets

CONSTANTS s1, s2, t1, t1spaced, t2, tbad

MCSecrets == {s1, s2}
MCTexts == {t1, t1spaced, t2, tbad}
MCDoc ==
  [t \in MCTexts |->
     CASE t \in {t1, t1spaced} -> s1 [] t = t2 -> s2 [] t = tbad -> Malformed]

=============================================================================
