---------------------------- MODULE LetterStream ----------------------------
(***************************************************************************)
(* What the producer/consumer servers of lab_01 promise to their clients:  *)
(* one endless stream a, b, ..., z, a, b, ... of letters.  A production    *)
(* makes the next letter of the stream available; a consumption hands the  *)
(* oldest letter not yet handed out to exactly one request, and only after *)
(* that letter has been produced.  At most Capacity letters are            *)
(* outstanding.  Starting the server process anew starts the stream anew.  *)
(***************************************************************************)
EXTENDS Integers

CONSTANTS Worker,    \* the requests that may consume a letter
          Capacity,  \* how many letters may be outstanding, at least one
          R          \* the length of the alphabet

VARIABLES made,   \* letters produced so far
          taken,  \* letters consumed so far
          got     \* the letter each consuming request was given

streamVars == <<made, taken, got>>

\* The letter with number k (counted from 0); R itself stands for "none".
Letter(k) == k % R
Nothing == R

StreamInit == made = 0 /\ taken = 0 /\ got = [w \in Worker |-> Nothing]

Make == /\ made - taken < Capacity
        /\ made' = made + 1
        /\ UNCHANGED <<taken, got>>

Take(w) == /\ taken < made
           /\ got[w] = Nothing
           /\ got' = [got EXCEPT ![w] = Letter(taken)]
           /\ taken' = taken + 1
           /\ UNCHANGED made

Renew == made' = 0 /\ taken' = 0 /\ got' = [w \in Worker |-> Nothing]

StreamNext == Make \/ (\E w \in Worker : Take(w)) \/ Renew

StreamSpec == StreamInit /\ [][StreamNext]_streamVars
=============================================================================
