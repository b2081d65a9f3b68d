------------------------------- MODULE WireMC -------------------------------
(***************************************************************************)
(* Values for the constants of Wire in TLC's run.                          *)
(***************************************************************************)
EXTENDS Wire

\* No name, and one.
NamesUsed == {<<>>, <<"n">>}

BytesUsed == {"n"}

\* TSFT, FLAGS, RATE, CHANNEL and DBM_ANTSIGNAL: every alignment.
FieldsReported == {0, 1, 2, 3, 5}
=============================================================================
