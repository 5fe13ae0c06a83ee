-------------------------- MODULE MCDownloadQueue --------------------------
(* Two episodes of one show and one of another, as model values.           *)
EXTENDS DownloadQueue, TLC

CONSTANTS e1, e2, e3, showA, showB

MCShowOf == [e \in Episodes |-> IF e = e3 THEN showB ELSE showA]

\* e3 has the number of e1: equal times leave their order open.
MCEpisodeNo == [e \in Episodes |-> IF e = e2 THEN 2 ELSE 1]

ClientSymmetry == Permutations(Clients)
==============================================================================
