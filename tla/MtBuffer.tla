------------------------------ MODULE MtBuffer ------------------------------
(***************************************************************************)
(* The shared buffer of lab_01/client-server-af-inet/multithread/server.c: *)
(* the System V semaphore set, the ring, the two indices and the worker    *)
(* threads `produce' and `consume' that use them.  Who creates the workers *)
(* and where their replies go is left to MtServer, which EXTENDS this      *)
(* module: here a worker may be created, and the process may end, at any   *)
(* moment.                                                                 *)
(*                                                                         *)
(* A letter is its position in the alphabet ('a' + i is i); Nul is the     *)
(* zero byte that fills the static array before the first write.           *)
(***************************************************************************)
EXTENDS Integers

CONSTANTS Worker,  \* the threads the process may create
          SeInit,  \* initial value of the semaphore SE (4096 in the source)
          R        \* RING_BUF_SIZE

ASSUME BufferAssumption == SeInit \in Nat \ {0} /\ R \in Nat \ {0}

VARIABLES
  running,         \* the server process exists
  semset,          \* the semaphore set exists (it outlives the process)
  SE, SF, SB,      \* the three semaphores: free, full, binary
  ring_buffer, producer_index, consumer_index,
  pc,              \* where each worker thread is
  kind,            \* which function the thread runs: "p"roduce or "c"onsume
  letter,          \* the letter a consumer has copied out of the ring
  produced,        \* history: ring cells written by this process
  consumed         \* history: ring cells read by this process

semVars    == <<SE, SF, SB>>
ringVars   == <<ring_buffer, producer_index, consumer_index>>
historyVars == <<letter, produced, consumed>>
bufferVars == <<running, semset, semVars, ringVars, pc, kind, historyVars>>

Nul  == R
Cell == 0..(R - 1)
Kind == {"p", "c"}

NoThreads == [w \in Worker |-> "none"]

\* Operators called variants are faulty forms of the definition that follows:
\* they show which mistakes the properties would reveal, and nothing uses them.

\* ++index; if (index >= RING_BUF_SIZE) index = 0;
Advanced(i) == IF i + 1 >= R THEN 0 ELSE i + 1

(***************************************************************************)
(* Process start: the semaphores are created or found, and set, and the    *)
(* static data is zero.                                                    *)
(***************************************************************************)
Fresh ==
  /\ running = TRUE /\ semset = TRUE
  /\ SE = SeInit /\ SF = 0 /\ SB = 1
  /\ ring_buffer = [i \in Cell |-> Nul]
  /\ producer_index = 0 /\ consumer_index = 0
  /\ pc = NoThreads /\ kind = [w \in Worker |-> "p"]
  /\ letter = [w \in Worker |-> Nul]
  /\ produced = 0 /\ consumed = 0

BufferInit == Fresh

Start ==
  /\ ~running
  /\ running' = TRUE /\ semset' = TRUE
  /\ SE' = SeInit /\ SF' = 0 /\ SB' = 1
  /\ ring_buffer' = [i \in Cell |-> Nul]
  /\ producer_index' = 0 /\ consumer_index' = 0
  /\ pc' = NoThreads /\ kind' = [w \in Worker |-> "p"]
  /\ letter' = [w \in Worker |-> Nul]
  /\ produced' = 0 /\ consumed' = 0

\* The process ends, all its threads with it.  No semop carries SEM_UNDO, so
\* the semaphores keep the values the threads left.
Exit ==
  /\ running
  /\ running' = FALSE
  /\ pc' = NoThreads
  /\ UNCHANGED <<semset, semVars, ringVars, kind, historyVars>>

Remove ==
  /\ running /\ semset
  /\ semset' = FALSE
  /\ UNCHANGED <<running, semVars, ringVars, pc, kind, historyVars>>

-----------------------------------------------------------------------------
(* The steps of a worker thread.                                           *)

Goto(w, from, to) == pc[w] = from /\ pc' = [pc EXCEPT ![w] = to]

Spawn(w, k) ==
  /\ running
  /\ Goto(w, "none", "start")
  /\ kind' = [kind EXCEPT ![w] = k]
  /\ UNCHANGED <<running, semset, semVars, ringVars, historyVars>>

\* int connfd = *((int *)args);
ReadArg(w) ==
  /\ Goto(w, "start", "enter")
  /\ UNCHANGED <<running, semset, semVars, ringVars, kind, historyVars>>

\* A variant without the operation on SB.
MayEnterWithoutSB(w) == semset /\ IF kind[w] = "p" THEN SE >= 1 ELSE SF >= 1

\* semop(start_produce) takes SE and SB together, semop(start_consume) SF
\* and SB; the call returns only when both can be decremented.
MayEnter(w) ==
  /\ semset /\ SB >= 1
  /\ IF kind[w] = "p" THEN SE >= 1 ELSE SF >= 1

Enter(w) ==
  /\ MayEnter(w)
  /\ Goto(w, "enter", "cell")
  /\ SB' = SB - 1
  /\ IF kind[w] = "p" THEN SE' = SE - 1 /\ UNCHANGED SF
                      ELSE SF' = SF - 1 /\ UNCHANGED SE
  /\ UNCHANGED <<running, semset, ringVars, kind, historyVars>>

\* A variant that reads the cell after the consumer's.
ReadNextCell(w) ==
  /\ kind[w] = "c" /\ Goto(w, "cell", "index")
  /\ letter' = [letter EXCEPT ![w] = ring_buffer[Advanced(consumer_index)]]
  /\ consumed' = consumed + 1
  /\ UNCHANGED <<running, semset, semVars, ringVars, kind, produced>>

WriteCell(w) ==
  /\ kind[w] = "p" /\ Goto(w, "cell", "index")
  /\ ring_buffer' = [ring_buffer EXCEPT ![producer_index] = producer_index]
  /\ produced' = produced + 1
  /\ UNCHANGED <<running, semset, semVars, producer_index, consumer_index,
                 kind, letter, consumed>>

ReadCell(w) ==
  /\ kind[w] = "c" /\ Goto(w, "cell", "index")
  /\ letter' = [letter EXCEPT ![w] = ring_buffer[consumer_index]]
  /\ consumed' = consumed + 1
  /\ UNCHANGED <<running, semset, semVars, ringVars, kind, produced>>

Advance(w) ==
  /\ Goto(w, "index", "send")
  /\ IF kind[w] = "p"
     THEN producer_index' = Advanced(producer_index) /\ UNCHANGED consumer_index
     ELSE consumer_index' = Advanced(consumer_index) /\ UNCHANGED producer_index
  /\ UNCHANGED <<running, semset, semVars, ring_buffer, kind, historyVars>>

\* The reply is sent while the thread still holds SB.
Send(w) ==
  /\ Goto(w, "send", "leave")
  /\ UNCHANGED <<running, semset, semVars, ringVars, kind, historyVars>>

\* A variant that does not give SB back.
LeaveKeepingSB(w) ==
  /\ semset /\ Goto(w, "leave", "done")
  /\ IF kind[w] = "p" THEN SF' = SF + 1 /\ UNCHANGED SE ELSE SE' = SE + 1 /\ UNCHANGED SF
  /\ UNCHANGED <<running, semset, SB, ringVars, kind, historyVars>>

\* semop(stop_produce) and semop(stop_consume) never block.
Leave(w) ==
  /\ semset
  /\ Goto(w, "leave", "done")
  /\ SB' = SB + 1
  /\ IF kind[w] = "p" THEN SF' = SF + 1 /\ UNCHANGED SE
                      ELSE SE' = SE + 1 /\ UNCHANGED SF
  /\ UNCHANGED <<running, semset, ringVars, kind, historyVars>>

WorkerMove(w) == ReadArg(w) \/ Enter(w) \/ WriteCell(w) \/ ReadCell(w)
                   \/ Advance(w) \/ Send(w) \/ Leave(w)

BufferNext ==
  \/ Start \/ Exit \/ Remove
  \/ \E w \in Worker : WorkerMove(w) \/ \E k \in Kind : Spawn(w, k)

BufferSpec == BufferInit /\ [][BufferNext]_bufferVars

-----------------------------------------------------------------------------
(* Properties.                                                             *)

Inside(w) == pc[w] \in {"cell", "index", "send", "leave"}

\* Every variable stays in its range; the counters are naturals.
BufferTypeOK ==
  /\ running \in BOOLEAN /\ semset \in BOOLEAN
  /\ SE \in Nat /\ SF \in Nat /\ SB \in {0, 1}
  /\ ring_buffer \in [Cell -> Cell \cup {Nul}]
  /\ producer_index \in Cell /\ consumer_index \in Cell
  /\ pc \in [Worker -> {"none", "start", "enter", "cell", "index", "send",
                        "leave", "done"}]
  /\ kind \in [Worker -> Kind]
  /\ letter \in [Worker -> Cell \cup {Nul}]
  /\ produced \in Nat /\ consumed \in Nat

\* SB excludes: whenever a worker is between its two semop calls no other
\* worker is, also after any number of crashes and restarts.
MutualExclusion == \A v, w \in Worker : Inside(v) /\ Inside(w) => v = w

\* While a worker is inside, SB is down; while none is, SB is up, so that a
\* later request can enter.
BinaryValue == running => (SB = 0 <=> \E w \in Worker : Inside(w))

\* Every unit of SE ever taken is in SF, or with the worker that is inside:
\* no unit leaks through any interleaving of requests, crashes and restarts.
UnitsConserved == running => SE + SF + (1 - SB) = SeInit

\* A letter that is in the ring but not (or no longer) counted by SF.
LetterInHand == \E w \in Worker :
  \/ kind[w] = "p" /\ pc[w] \in {"index", "send", "leave"}
  \/ kind[w] = "c" /\ pc[w] = "cell"

\* SF counts exactly the letters that are in the ring, seen from outside the
\* critical section: a consumer that has taken SF will find a letter.
FullCountsLetters ==
  running => produced - consumed = SF + (IF LetterInHand THEN 1 ELSE 0)

\* The inductive invariant: the properties above, where the two indices are
\* in the stream, what the ring holds, and that no thread reads twice.
ProducerAt == IF \E w \in Worker : kind[w] = "p" /\ pc[w] = "index"
              THEN produced - 1 ELSE produced
ConsumerAt == IF \E w \in Worker : kind[w] = "c" /\ pc[w] = "index"
              THEN consumed - 1 ELSE consumed

IndexPositions == running => /\ producer_index = ProducerAt % R
                             /\ consumer_index = ConsumerAt % R
RingContents == \A i \in Cell : i < produced => ring_buffer[i] = i
UnreadIsNul == running => \A w \in Worker :
  pc[w] \in {"none", "start", "enter", "cell"} => letter[w] = Nul
ConsumerStarted == \A w \in Worker :
  kind[w] = "c" /\ pc[w] = "index" => consumed > 0
Quiescent == ~running => pc = NoThreads

BufferInv ==
  /\ BufferTypeOK /\ MutualExclusion /\ BinaryValue
  /\ UnitsConserved /\ FullCountsLetters
  /\ IndexPositions /\ RingContents /\ UnreadIsNul /\ ConsumerStarted /\ Quiescent

(***************************************************************************)
(* The refinement: the buffer implements the endless alphabet.             *)
(***************************************************************************)
Stream == INSTANCE LetterStream WITH
            Capacity <- SeInit, made <- produced, taken <- consumed, got <- letter

\* The k-th consumption, counted over all clients, gets the k-th letter of
\* the cyclic alphabet, never before that letter was produced, and at most
\* SeInit letters are outstanding, although the ring has fewer cells than SE
\* has units and the producers overwrite it.
ImplementsStream == Stream!StreamSpec
=============================================================================
