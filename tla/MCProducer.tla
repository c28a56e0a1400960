----------------------------- MODULE MCProducer -----------------------------
(* Instances of Producer. *)
EXTENDS Producer, TLC

CONSTANTS a, b, c     \* files

(* Three directories: one with a file that the tracker knows and a new     *)
(* one, one with a new file, and one that is empty.                        *)
ThreeFolders == <<1, 2, 3>>
ThreeFiles   == << <<a, b>>, <<c>>, <<>> >>
=============================================================================
