------------------------------ MODULE MCExplain ------------------------------
(* Small instances of Explain for TLC. *)
EXTENDS Explain, MCExperiment

\* Also a service that applies a request twice, or undoes an earlier one.
UpToTwice == {[o \in Obs |-> n] : n \in -1 .. 2}
=============================================================================
