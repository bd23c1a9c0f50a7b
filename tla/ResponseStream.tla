--------------------------- MODULE ResponseStream ---------------------------
(***************************************************************************)
(* WriteJSON with the decimal counter of its generator: gen increments the *)
(* counter in place for each element, also for an event, and copies its    *)
(* bytes for a number. WriteJSON has the number in c; here it is in d too. *)
(***************************************************************************)
EXTENDS WriteJSON

CONSTANT dEnd  \* index of the closing quote in dcounter

\* The array has 64 bytes, and a number fits left of its closing quote.
ASSUME StreamAssumption == dEnd \in MaxNumElem .. 63

VARIABLES d, start  \* dcounter

streamVars == <<vars, d, start>>

Counter == INSTANCE DecimalCounter WITH v <- c, Starts <- {1}, MaxNumber <- MaxInt

StreamInit == Init /\ Counter!Init

StreamNext ==
    /\ Next
    /\ IF c' # c THEN Counter!inc ELSE UNCHANGED <<d, start>>

\* Each write ends: with success, an error, or the deadline of the server.
FairStream ==
    StreamInit /\ [][StreamNext]_streamVars /\ WF_streamVars(StreamNext)

-----------------------------------------------------------------------------
(***************************************************************************)
(* The types of the variables of WriteJSON and DecimalCounter.             *)
(***************************************************************************)
StreamTypeOK == TypeOK /\ Counter!TypeOK

(***************************************************************************)
(* What fill copies for a number, d[start-2 : dEnd+1], is the number c     *)
(* with its comma and quotes, after any number of carries and longer       *)
(* numbers, on both paths of WriteJSON (write.go:32-46, 73). The digits    *)
(* never leave their array, so the types are a part of it.                 *)
(***************************************************************************)
ShowsTheNumber == StreamTypeOK /\ Counter!FrameShows

=============================================================================
