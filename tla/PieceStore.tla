------------------------------ MODULE PieceStore ------------------------------
(* What the pieces of a torrent promise to the player, to other peers and to the next
   start of the program: a piece is shown only when it is right on disk and storage has
   kept that (or has refused to), and from then on no late data gets into it; what storage
   kept, no restart takes back.

   It is the abstract view of SwarmPieces. *)
EXTENDS Naturals

CONSTANT StorePieces   \* the pieces of the torrent

VARIABLES good,      \* pieces that are right on disk
          complete,  \* pieces storage calls complete
          shown,     \* pieces the running program calls complete
          faults     \* how often a call of storage failed
storeVars == <<good, complete, shown, faults>>

StoreInit == good \in SUBSET StorePieces /\ complete = {} /\ shown = {} /\ faults = 0

(* Data may come or be spoiled, but only in a piece that was not verified. *)
Fill(p) ==
  /\ p \notin complete \cup shown
  /\ good' \in {good \cup {p}, good \ {p}}
  /\ UNCHANGED <<complete, shown, faults>>

(* A piece that is right is verified, for good ... *)
Verify(p) ==
  /\ p \in good
  /\ complete' = complete \cup {p}
  /\ UNCHANGED <<good, shown, faults>>

(* ... and only then shown, ... *)
Show(p) ==
  /\ p \in complete
  /\ shown' = shown \cup {p}
  /\ UNCHANGED <<good, complete, faults>>

(* ... unless keeping it was refused: then it is right all the same. *)
ShowUnkept(p) ==
  /\ p \in good
  /\ shown' = shown \cup {p} /\ faults' = faults + 1
  /\ UNCHANGED <<good, complete>>

Fault == faults' = faults + 1 /\ UNCHANGED <<good, complete, shown>>

(* The program stops and starts again: what was verified is shown, at once. *)
Restart == shown' = complete /\ UNCHANGED <<good, complete, faults>>

StoreNext ==
  \/ \E p \in StorePieces : Fill(p) \/ Verify(p) \/ Show(p) \/ ShowUnkept(p)
  \/ Fault \/ Restart
StoreSpec == StoreInit /\ [][StoreNext]_storeVars
=============================================================================
