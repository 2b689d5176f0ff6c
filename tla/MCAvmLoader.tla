----------------------------- MODULE MCAvmLoader -----------------------------
(* Up to two arguments, of every kind the code tells apart.                   *)
EXTENDS AvmLoader

File(e, x, n, s, v) == [ext |-> e, exists |-> x, size |-> n, startable |-> s, valid |-> v]

MCArguments ==
  {File("avm", TRUE, 3, s, FALSE) : s \in BOOLEAN}
    \union {File("beam", TRUE, 1, s, v) : s, v \in BOOLEAN}
    \union {File("avm", FALSE, 0, FALSE, FALSE), File("beam", TRUE, 0, TRUE, TRUE),
            File("other", TRUE, 3, FALSE, FALSE)}

MCArgvs == UNION {[1 .. n -> MCArguments] : n \in 0 .. 2}
=============================================================================
