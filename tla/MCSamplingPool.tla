--------------------------- MODULE MCSamplingPool ---------------------------
(* Two workers; every combination of post-selection, discarding and         *)
(* reporting that the properties tell apart.                                *)
EXTENDS SamplingPool

Config(pool, n, e, b, sel, dis, rep) ==
  [pool |-> pool, maxShots |-> n, maxErrors |-> e, batch |-> b,
   selects |-> sel, discards |-> dis, reports |-> rep]

MCConfigs ==
  {Config(TRUE, 5, 1, 2, FALSE, FALSE, FALSE),
   Config(TRUE, 4, 2, 2, FALSE, TRUE, FALSE),
   Config(TRUE, 4, 2, 2, TRUE, FALSE, TRUE),
   Config(TRUE, 3, 3, 1, FALSE, FALSE, TRUE)}
  \cup {Config(FALSE, n, e, 2, s, d, TRUE) :
          n \in {0, 3, 4}, e \in {0, 2}, s \in BOOLEAN, d \in BOOLEAN}
=============================================================================
