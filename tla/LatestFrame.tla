---------------------------- MODULE LatestFrame ----------------------------
(***************************************************************************)
(* What the video buffer promises, without threads, locks or events: a     *)
(* mailbox of one frame.  Frames are numbered in decoding order, from 1.   *)
(* keep_all is the --render-expired-frames option: no frame may replace    *)
(* one that was not taken, until the mailbox is closed.                    *)
(***************************************************************************)
EXTENDS Naturals

VARIABLES latest,   \* the number of the last frame put in the mailbox
          taken,    \* the number of the last frame taken from it
          closed,   \* the producer must never wait again
          keep_all  \* the option, which never changes

vars == <<latest, taken, closed, keep_all>>

Init == latest = 0 /\ taken = 0 /\ closed = FALSE /\ keep_all \in BOOLEAN

Publish == /\ keep_all => taken = latest \/ closed
           /\ latest' = latest + 1
           /\ UNCHANGED <<taken, closed, keep_all>>

(* The newest frame is the only one that can be taken, and only once. *)
Take == /\ taken < latest
        /\ taken' = latest
        /\ UNCHANGED <<latest, closed, keep_all>>

Close == closed' = TRUE /\ UNCHANGED <<latest, taken, keep_all>>

Next == Publish \/ Take \/ Close

Spec == Init /\ [][Next]_vars
=============================================================================
