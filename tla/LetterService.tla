--------------------------- MODULE LetterService ---------------------------
(***************************************************************************)
(* What the multiplexing server of lab_01 promises: every request takes    *)
(* effect at one instant on a bounded queue of letters.  A production is   *)
(* answered Ok and makes the next letter of the alphabet available, or it  *)
(* is refused, and that only while Capacity letters are outstanding.  A    *)
(* consumption is answered with the oldest outstanding letter, or refused, *)
(* and that only while there is none.                                      *)
(***************************************************************************)
EXTENDS Integers

CONSTANTS Request, Capacity, R

VARIABLES made, taken, answer

serviceVars == <<made, taken, answer>>

\* Answers: a letter 0..R-1, or one of these.
None     == -1
Ok       == -2
NoRoom   == -3
NoLetter == -4

ServiceInit == made = 0 /\ taken = 0 /\ answer = [k \in Request |-> None]

Answer(k, a) == answer[k] = None /\ answer' = [answer EXCEPT ![k] = a]

Produce(k) == /\ made - taken < Capacity /\ Answer(k, Ok)
              /\ made' = made + 1 /\ UNCHANGED taken
Consume(k) == /\ taken < made /\ Answer(k, taken % R)
              /\ taken' = taken + 1 /\ UNCHANGED made
Refuse(k)  == /\ \/ made - taken = Capacity /\ Answer(k, NoRoom)
                 \/ made = taken /\ Answer(k, NoLetter)
              /\ UNCHANGED <<made, taken>>

\* The server process is started anew.
Renew == made' = 0 /\ taken' = 0 /\ UNCHANGED answer

ServiceNext == Renew \/ \E k \in Request : Produce(k) \/ Consume(k) \/ Refuse(k)

ServiceSpec == ServiceInit /\ [][ServiceNext]_serviceVars
=============================================================================
