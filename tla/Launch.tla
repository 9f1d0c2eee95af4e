------------------------------- MODULE Launch -------------------------------
(***************************************************************************)
(* What Bridge takes for granted about the start of the process: the       *)
(* bridge comes up in one step, from the block of the file under --load    *)
(* (which must then hold a number, and 0 stands for no file) or else from  *)
(* a block that was the latest one; it writes the file only while it is    *)
(* up; and it goes down in one step.  Startup implements this              *)
(* specification from main() on, Bridge from there.                        *)
(***************************************************************************)
EXTENDS Naturals

CONSTANTS NoFile, EmptyFile, NoBlock

VARIABLES
    isLoaded, file,   \* the --load setting and the block file
    height,           \* the latest block
    up, first         \* the bridge polls, beginning with block first

launchVars == <<isLoaded, file, height, up, first>>

Init == /\ isLoaded \in BOOLEAN /\ file \in Nat \cup {NoFile, EmptyFile}
        /\ height \in Nat
        /\ up = FALSE /\ first = NoBlock

Begin(b) == up' = TRUE /\ first' = b /\ UNCHANGED <<isLoaded, file, height>>

StartLoaded == /\ ~up /\ isLoaded /\ file # EmptyFile
               /\ Begin(IF file = NoFile THEN 0 ELSE file)

StartLatest == /\ ~up /\ ~isLoaded
               /\ \E b \in 0..height : Begin(b)

Down == /\ up' = FALSE /\ first' = NoBlock
        /\ UNCHANGED <<isLoaded, file, height>>

\* The block file is written; between truncation and write it holds nothing.
Save == /\ up
        /\ file' \in Nat \cup {EmptyFile}
        /\ UNCHANGED <<isLoaded, height, up, first>>

Grow == height' = height + 1 /\ UNCHANGED <<isLoaded, file, up, first>>

Next == StartLoaded \/ StartLatest \/ Down \/ Save \/ Grow

Spec == Init /\ [][Next]_launchVars
=============================================================================
