------------------------ MODULE ValidationProbes_proofs ------------------------
(***************************************************************************)
(* Proofs about ValidationProbes, for any probes, threads, copies and      *)
(* faults. Inv is inductive: an authorization that lies there was never    *)
(* taken, so that one thread at most is past the claim of a probe, and     *)
(* where that thread stands says what the journal and the broker have.     *)
(* Truth adds what an answer and a journal confirm.                        *)
(***************************************************************************)
EXTENDS ValidationProbes, TLAPS

PastClaim == {"JOURNAL", "CALL", "RETURNED", "NEGATIVE", "CANCEL", "CANCELLED"}

Delivered == \A c \in Probes : copies[c] > 0 => row[c] \in {"PENDING", "DELIVERED"}

Untaken ==
  /\ \A k \in Kinds : file[k] # None =>
       /\ file[k] \notin claimed /\ row[file[k]] # "NONE" /\ KindOf(file[k]) = k
  /\ \A c \in claimed : row[c] # "NONE"

Sent ==
  \A c \in Probes :
    /\ calls[c] <= 1
    /\ order[c] # "NONE" => calls[c] = 1
    /\ calls[c] = 1 => c \in claimed /\ journal[c] # "NONE"
    /\ journal[c] = "FAILED_BEFORE_SEND" => order[c] = "NONE"

Stages ==
  \A e \in Executors : LET c == thread[e].probe IN
    /\ thread[e].at \in PastClaim => c \in claimed
    /\ thread[e].at \in PastClaim \cup {"CHECK", "CLAIM"} => thread[e].says = "NONE"
    /\ thread[e].at \in {"JOURNAL", "CALL"} => calls[c] = 0
    /\ thread[e].at \in {"CALL", "RETURNED", "NEGATIVE"} => journal[c] = "PRE_SUBMIT"
    /\ thread[e].at \in {"CANCEL", "CANCELLED"} => journal[c] = "SEND_RETURNED"
    /\ thread[e].at \in {"RETURNED", "CANCEL"} => calls[c] = 1
    /\ thread[e].at = "NEGATIVE" => order[c] = "NONE"

OnePastClaim ==
  \A d, e \in Executors :
    thread[d].at \in PastClaim /\ thread[e].at \in PastClaim /\ thread[d].probe = thread[e].probe
      => d = e

Alone ==
  \A d, e \in Executors :
    thread[d].probe \in Probes \ excused /\ thread[d].probe = thread[e].probe => d = e

Inv == TypeOK /\ Delivered /\ Untaken /\ Sent /\ Stages /\ OnePastClaim /\ Alone /\ HonestLegs

USE ProbeAssumption DEF At, Go, Say, Leave, Probe

(* A refusal says something an acknowledgement can say.                    *)
LEMMA RefusalAnswers ==
  ASSUME TypeOK, NEW c \in Probes
  PROVE  Refusal(c) \in Answers
BY DEF TypeOK, Refusal, Answers, Journals

(* What a thread's record is made of.                                      *)
LEMMA ThreadTypes ==
  ASSUME TypeOK, NEW e \in Executors
  PROVE  /\ thread[e] = Free \/ thread[e] \in [at : Places, probe : Probes, says : Answers]
         /\ thread[e].at \in Places => thread[e] # Free /\ thread[e].probe \in Probes
         /\ thread[e] = Free <=> thread[e].at = "FREE"
         /\ thread[e] = Free <=> thread[e].probe = None
         /\ thread[e].says \in Answers
BY DEF TypeOK, Free, Places, Answers

Records == [at : Places, probe : Probes, says : Answers]

(* A thread goes to its next place; nothing else about the threads changes.*)
LEMMA GoEffect ==
  ASSUME TypeOK, NEW e \in Executors, thread[e].at \in Places, NEW place \in Places, Go(e, place)
  PROVE  /\ thread' \in [Executors -> {Free} \cup Records]
         /\ \A d \in Executors : d # e => thread'[d] = thread[d]
         /\ thread'[e].at = place /\ thread'[e].probe = thread[e].probe
         /\ thread'[e].says = thread[e].says
         /\ thread[e] # Free /\ thread[e].probe \in Probes
BY ThreadTypes DEF TypeOK, Records

(* The same with what it is about to answer.                               *)
LEMMA SayEffect ==
  ASSUME TypeOK, NEW e \in Executors, thread[e].at \in Places, NEW place \in Places,
         NEW status \in Answers, Say(e, place, status)
  PROVE  /\ thread' \in [Executors -> {Free} \cup Records]
         /\ \A d \in Executors : d # e => thread'[d] = thread[d]
         /\ thread'[e].at = place /\ thread'[e].probe = thread[e].probe
         /\ thread'[e].says = status
         /\ thread[e] # Free /\ thread[e].probe \in Probes
BY ThreadTypes DEF TypeOK, Records

(* The thread is done.                                                     *)
LEMMA LeaveEffect ==
  ASSUME TypeOK, NEW e \in Executors, Leave(e)
  PROVE  /\ thread' \in [Executors -> {Free} \cup Records]
         /\ \A d \in Executors : d # e => thread'[d] = thread[d]
         /\ thread'[e].at = "FREE" /\ thread'[e].probe = None /\ thread'[e].says = "NONE"
         /\ thread'[e] = Free
BY DEF TypeOK, Records, Free

LEMMA InitInv == Init => Inv
<1> SUFFICES ASSUME Init PROVE Inv
  OBVIOUS
<1>1. TypeOK
  BY DEF Init, TypeOK, Free, Journals, Answers, Kinds
<1>2. \A e \in Executors : thread[e].at = "FREE" /\ thread[e].probe = None /\ thread[e].says = "NONE"
  BY DEF Init, Free
<1>3. Untaken
  BY DEF Init, Untaken
<1>4. Delivered /\ Sent
  BY DEF Init, Delivered, Sent
<1>5. Stages /\ OnePastClaim /\ Alone /\ HonestLegs
  BY <1>2 DEF Stages, OnePastClaim, Alone, HonestLegs, PastClaim, Probes
<1> QED  BY <1>1, <1>3, <1>4, <1>5 DEF Inv

-----------------------------------------------------------------------------
(* The console and the dispatchers leave the threads and their probes.     *)

LEMMA ConsoleStep ==
  ASSUME Inv, NEW c \in Probes,
         WriteAuthorization(c) \/ InsertCommand(c) \/ Deliver(c) \/ MarkDelivered(c)
  PROVE  Inv'
<1> USE DEF Inv
<1>1. CASE WriteAuthorization(c)
  <2> USE DEF WriteAuthorization
  <2>1. KindOf(c) \in Kinds
    BY DEF KindOf, Kinds
  <2>2. TypeOK'
    BY <1>1, <2>1 DEF TypeOK
  <2>3. Untaken'
    BY <1>1, <2>1 DEF TypeOK, Untaken
  <2>4. Delivered'
    BY <1>1 DEF TypeOK, Delivered
  <2> QED  BY <1>1, <2>2, <2>3, <2>4 DEF Sent, Stages, OnePastClaim, Alone, HonestLegs
<1>2. CASE InsertCommand(c)
  <2> USE DEF InsertCommand
  <2>1. TypeOK' /\ Untaken' /\ Delivered'
    BY <1>2 DEF TypeOK, Untaken, Delivered
  <2> QED  BY <1>2, <2>1 DEF Sent, Stages, OnePastClaim, Alone, HonestLegs
<1>3. CASE Deliver(c)
  <2> USE DEF Deliver
  <2>1. TypeOK' /\ Untaken' /\ Delivered'
    BY <1>3 DEF TypeOK, Untaken, Delivered
  <2> QED  BY <1>3, <2>1 DEF Sent, Stages, OnePastClaim, Alone, HonestLegs
<1>4. CASE MarkDelivered(c)
  <2> USE DEF MarkDelivered
  <2>1. TypeOK' /\ Untaken' /\ Delivered'
    BY <1>4 DEF TypeOK, Untaken, Delivered
  <2> QED  BY <1>4, <2>1 DEF Sent, Stages, OnePastClaim, Alone, HonestLegs
<1> QED  BY <1>1, <1>2, <1>3, <1>4

-----------------------------------------------------------------------------
(* The threads of the Adapter.                                             *)

LEMMA TakeStep ==
  ASSUME Inv, NEW e \in Executors, NEW c \in Probes, Take(e, c)
  PROVE  Inv'
<1> USE DEF Inv, Take
<1>1. row[c] \in {"PENDING", "DELIVERED"}
  BY DEF Delivered
<1>2. [at |-> "CHECK", probe |-> c, says |-> "NONE"] \in [at : Places, probe : Probes, says : Answers]
  BY DEF Places, Answers
<1>3. TypeOK'
  BY <1>1, <1>2 DEF TypeOK
<1>4. \A d \in Executors : thread'[d] = IF d = e THEN [at |-> "CHECK", probe |-> c, says |-> "NONE"]
                                         ELSE thread[d]
  BY DEF TypeOK
<1>5. Delivered' /\ Untaken' /\ Sent'
  BY DEF TypeOK, Delivered, Untaken, Sent
<1>6. Stages' /\ OnePastClaim'
  BY <1>4 DEF Stages, OnePastClaim, PastClaim
<1>7. Alone'
  BY <1>4 DEF Alone
<1>8. HonestLegs'
  BY <1>4 DEF HonestLegs
<1> QED  BY <1>3, <1>5, <1>6, <1>7, <1>8

LEMMA GatesStep ==
  ASSUME Inv, NEW e \in Executors, Gates(e)
  PROVE  Inv'
<1> USE DEF Inv, Gates
<1>1. thread[e].at = "CHECK" /\ thread[e].at \in Places
  BY DEF Places
<1>2. PICK place \in {"REFUSE", "CLAIM"} : Go(e, place)
  OBVIOUS
<1>3. place \in Places
  BY DEF Places
<1>4. /\ thread' \in [Executors -> {Free} \cup Records]
      /\ \A d \in Executors : d # e => thread'[d] = thread[d]
      /\ thread'[e].at = place /\ thread'[e].probe = thread[e].probe
      /\ thread'[e].says = thread[e].says
      /\ thread[e] # Free /\ thread[e].probe \in Probes
  BY <1>1, <1>2, <1>3, GoEffect
<1>5. TypeOK'
  BY <1>4, ThreadTypes DEF TypeOK, Records
<1>6. Delivered' /\ Untaken' /\ Sent'
  BY DEF Delivered, Untaken, Sent
<1>7. Stages' /\ OnePastClaim'
  BY <1>1, <1>4 DEF Stages, OnePastClaim, PastClaim
<1>8. Alone' /\ HonestLegs'
  BY <1>1, <1>4 DEF Alone, HonestLegs
<1> QED  BY <1>5, <1>6, <1>7, <1>8

LEMMA ClaimStep ==
  ASSUME Inv, NEW e \in Executors, Claim(e)
  PROVE  Inv'
<1> USE DEF Inv
<1> DEFINE c == thread[e].probe
           k == KindOf(c)
<1>1. thread[e].at = "CLAIM" /\ thread[e].at \in Places
  BY DEF Places, Claim
<1>2. PICK place \in {"REFUSE", "JOURNAL"} :
        Go(e, place) /\ (place = "JOURNAL" => file[k] = c)
  BY DEF Claim
<1>3. place \in Places
  BY DEF Places
<1>4. /\ thread' \in [Executors -> {Free} \cup Records]
      /\ \A d \in Executors : d # e => thread'[d] = thread[d]
      /\ thread'[e].at = place /\ thread'[e].probe = c
      /\ thread'[e].says = thread[e].says
      /\ thread[e] # Free /\ c \in Probes
  BY <1>1, <1>2, <1>3, GoEffect
<1>5. /\ file' = [file EXCEPT ![k] = None]
      /\ claimed' = IF file[k] = c THEN claimed \cup {c} ELSE claimed
      /\ UNCHANGED <<row, copies, journal, calls, order, answer, excused, faults>>
  BY DEF Claim
<1>6. k \in Kinds
  BY DEF KindOf, Kinds
<1>7. TypeOK'
  BY <1>4, <1>5, <1>6, ThreadTypes DEF TypeOK, Records
<1>8. file[k] = c => c \notin claimed /\ row[c] # "NONE"
  BY <1>4, <1>6 DEF Untaken
<1> HIDE DEF c, k
<1>9. Untaken'
  <2>1. ASSUME NEW j \in Kinds, file'[j] # None
        PROVE  file'[j] \notin claimed' /\ row'[file'[j]] # "NONE" /\ KindOf(file'[j]) = j
    <3>1. j # k /\ file'[j] = file[j]
      BY <1>5, <1>6, <2>1 DEF TypeOK
    <3>2. file[j] # c
      BY <3>1, <2>1, <1>6 DEF Untaken, k
    <3> QED  BY <1>5, <2>1, <3>1, <3>2 DEF Untaken
  <2>2. \A d \in claimed' : row'[d] # "NONE"
    BY <1>5, <1>8 DEF Untaken
  <2> QED  BY <2>1, <2>2 DEF Untaken
<1>10. Delivered' /\ Sent'
  BY <1>5 DEF Delivered, Sent
<1>11. ASSUME place = "JOURNAL"
       PROVE  /\ c \in claimed' /\ calls[c] = 0
              /\ \A d \in Executors : thread[d].probe = c => thread[d].at \notin PastClaim
  BY <1>2, <1>4, <1>5, <1>8, <1>11 DEF Sent, Stages, TypeOK
<1>12. thread[e].says = "NONE"
  BY <1>1 DEF Stages
<1>13. Stages'
  BY <1>1, <1>4, <1>5, <1>11, <1>12 DEF Stages, PastClaim
<1>14. OnePastClaim'
  <2>1. \A d \in Executors : d # e /\ thread'[d].at \in PastClaim /\ place = "JOURNAL"
           => thread'[d].probe # c
    BY <1>4, <1>11
  <2>2. place = "REFUSE" => thread'[e].at \notin PastClaim
    BY <1>4 DEF PastClaim
  <2> QED  BY <1>4, <2>1, <2>2 DEF OnePastClaim
<1>15. Alone' /\ HonestLegs'
  BY <1>4, <1>5 DEF Alone, HonestLegs, c
<1> QED  BY <1>7, <1>9, <1>10, <1>13, <1>14, <1>15

(* The steps of a thread past the claim: the others do not work past it on *)
(* the same probe, so that journal, calls and order are this thread's.     *)

LEMMA WriteJournalStep ==
  ASSUME Inv, NEW e \in Executors, WriteJournal(e)
  PROVE  Inv'
<1> USE DEF Inv
<1> DEFINE c == thread[e].probe
<1>1. thread[e].at = "JOURNAL" /\ thread[e].at \in Places /\ "CALL" \in Places
  BY DEF Places, WriteJournal
<1>2. /\ thread' \in [Executors -> {Free} \cup Records]
      /\ \A d \in Executors : d # e => thread'[d] = thread[d]
      /\ thread'[e].at = "CALL" /\ thread'[e].probe = c /\ thread'[e].says = thread[e].says
      /\ thread[e] # Free /\ c \in Probes
  BY <1>1, GoEffect DEF WriteJournal
<1>3. /\ journal' = [journal EXCEPT ![c] = "PRE_SUBMIT"]
      /\ UNCHANGED <<row, file, copies, calls, order, answer, claimed, excused, faults>>
  BY DEF WriteJournal
<1>4. c \in claimed /\ calls[c] = 0 /\ thread[e].says = "NONE"
  BY <1>1 DEF Stages, PastClaim
<1>5. \A d \in Executors : d # e /\ thread[d].probe = c => thread[d].at \notin PastClaim
  BY <1>1 DEF OnePastClaim, PastClaim
<1>6. TypeOK'
  BY <1>2, <1>3, ThreadTypes DEF TypeOK, Records, Journals
<1> HIDE DEF c
<1>7. Delivered' /\ Untaken' /\ Sent'
  BY <1>2, <1>3, <1>4 DEF Delivered, Untaken, Sent, TypeOK
<1>8. Stages'
  BY <1>1, <1>2, <1>3, <1>4, <1>5 DEF Stages, PastClaim, TypeOK
<1>9. OnePastClaim'
  BY <1>1, <1>2 DEF OnePastClaim, PastClaim, c
<1>10. Alone' /\ HonestLegs'
  BY <1>1, <1>2, <1>3, <1>4 DEF Alone, HonestLegs, c
<1> QED  BY <1>6, <1>7, <1>8, <1>9, <1>10

LEMMA CallOrderStep ==
  ASSUME Inv, NEW e \in Executors, CallOrder(e)
  PROVE  Inv'
<1> USE DEF Inv
<1> DEFINE c == thread[e].probe
<1>1. thread[e].at = "CALL" /\ thread[e].at \in Places
  BY DEF Places, CallOrder
<1>2. PICK place \in {"RETURNED", "NEGATIVE", "ANSWER"}, status \in Answers, o \in {"NONE", "WORKING"} :
        /\ \/ place \in {"RETURNED", "NEGATIVE"} /\ Go(e, place) /\ status = thread[e].says
           \/ place = "ANSWER" /\ Say(e, place, status) /\ status = "SUBMIT_UNKNOWN"
        /\ place = "NEGATIVE" => o = "NONE"
        /\ order' = [order EXCEPT ![c] = o]
  <2>1. c \in Probes /\ thread[e].says \in Answers
    BY <1>1, ThreadTypes
  <2>2. order[c] = "NONE"
    BY <1>1, <2>1 DEF Stages, Sent
  <2>3. UNCHANGED order => order' = [order EXCEPT ![c] = "NONE"]
    BY <2>1, <2>2 DEF TypeOK
  <2>4. "SUBMIT_UNKNOWN" \in Answers
    BY DEF Answers
  <2> QED  BY <2>1, <2>3, <2>4 DEF CallOrder
<1>3. place \in Places
  BY DEF Places
<1>4. /\ thread' \in [Executors -> {Free} \cup Records]
      /\ \A d \in Executors : d # e => thread'[d] = thread[d]
      /\ thread'[e].at = place /\ thread'[e].probe = c /\ thread'[e].says = status
      /\ thread[e] # Free /\ c \in Probes
  BY <1>1, <1>2, <1>3, GoEffect, SayEffect
<1>5. /\ calls' = [calls EXCEPT ![c] = @ + 1]
      /\ UNCHANGED <<row, file, copies, journal, answer, claimed, excused, faults>>
  BY DEF CallOrder
<1>6. /\ c \in claimed /\ calls[c] = 0 /\ journal[c] = "PRE_SUBMIT" /\ order[c] = "NONE"
      /\ thread[e].says = "NONE"
  BY <1>1, <1>4 DEF Stages, PastClaim, Sent
<1>7. \A d \in Executors : d # e /\ thread[d].probe = c => thread[d].at \notin PastClaim
  BY <1>1 DEF OnePastClaim, PastClaim
<1>8. TypeOK'
  BY <1>2, <1>4, <1>5, ThreadTypes DEF TypeOK, Records
<1>9. status \notin {"ADAPTER_REJECTED", "FAILED_BEFORE_SEND"}
      /\ (place \in {"RETURNED", "NEGATIVE"} => status = "NONE")
  BY <1>2, <1>6
<1> HIDE DEF c
<1>10. Delivered' /\ Untaken' /\ Sent'
  BY <1>2, <1>4, <1>5, <1>6 DEF Delivered, Untaken, Sent, TypeOK
<1>11. Stages'
  BY <1>1, <1>2, <1>4, <1>5, <1>6, <1>7, <1>9 DEF Stages, PastClaim, TypeOK
<1>12. OnePastClaim'
  BY <1>1, <1>4 DEF OnePastClaim, PastClaim, c
<1>13. Alone'
  BY <1>1, <1>4, <1>5 DEF Alone, c
<1>14. HonestLegs'
  BY <1>1, <1>2, <1>4, <1>5, <1>9, <1>13 DEF HonestLegs, Alone, TypeOK, Probes
<1> QED  BY <1>8, <1>10, <1>11, <1>12, <1>13, <1>14

LEMMA ReturnedStep ==
  ASSUME Inv, NEW e \in Executors, Returned(e)
  PROVE  Inv'
<1> USE DEF Inv
<1> DEFINE c == thread[e].probe
<1>1. thread[e].at = "RETURNED" /\ thread[e].at \in Places
  BY DEF Places, Returned
<1>2. PICK place \in {"CANCEL", "ANSWER"}, status \in Answers :
        \/ place = "CANCEL" /\ Go(e, place) /\ status = thread[e].says
        \/ place = "ANSWER" /\ Say(e, place, status) /\ status = "SEND_RETURNED"
  BY ThreadTypes DEF Returned, Answers
<1>3. place \in Places
  BY DEF Places
<1>4. /\ thread' \in [Executors -> {Free} \cup Records]
      /\ \A d \in Executors : d # e => thread'[d] = thread[d]
      /\ thread'[e].at = place /\ thread'[e].probe = c /\ thread'[e].says = status
      /\ thread[e] # Free /\ c \in Probes
  BY <1>1, <1>2, <1>3, GoEffect, SayEffect
<1>5. /\ journal' = [journal EXCEPT ![c] = "SEND_RETURNED"]
      /\ UNCHANGED <<row, file, copies, calls, order, answer, claimed, excused, faults>>
  BY DEF Returned
<1>6. c \in claimed /\ calls[c] = 1 /\ thread[e].says = "NONE"
  BY <1>1 DEF Stages, PastClaim
<1>7. \A d \in Executors : d # e /\ thread[d].probe = c => thread[d].at \notin PastClaim
  BY <1>1 DEF OnePastClaim, PastClaim
<1>8. TypeOK'
  BY <1>4, <1>5, ThreadTypes DEF TypeOK, Records, Journals
<1>9. status \notin {"ADAPTER_REJECTED", "FAILED_BEFORE_SEND"} /\ (place = "CANCEL" => status = "NONE")
  BY <1>2, <1>6
<1> HIDE DEF c
<1>10. Delivered' /\ Untaken' /\ Sent'
  BY <1>4, <1>5, <1>6 DEF Delivered, Untaken, Sent, TypeOK
<1>11. Stages'
  BY <1>1, <1>4, <1>5, <1>6, <1>7, <1>9 DEF Stages, PastClaim, TypeOK
<1>12. OnePastClaim'
  BY <1>1, <1>4 DEF OnePastClaim, PastClaim, c
<1>13. Alone' /\ HonestLegs'
  BY <1>1, <1>4, <1>5, <1>9 DEF Alone, HonestLegs, c
<1> QED  BY <1>8, <1>10, <1>11, <1>12, <1>13

LEMMA NegativeStep ==
  ASSUME Inv, NEW e \in Executors, Negative(e)
  PROVE  Inv'
<1> USE DEF Inv
<1> DEFINE c == thread[e].probe
<1>1. /\ thread[e].at = "NEGATIVE" /\ thread[e].at \in Places /\ "ANSWER" \in Places
      /\ "FAILED_BEFORE_SEND" \in Answers
  BY DEF Places, Answers, Negative
<1>2. /\ thread' \in [Executors -> {Free} \cup Records]
      /\ \A d \in Executors : d # e => thread'[d] = thread[d]
      /\ thread'[e].at = "ANSWER" /\ thread'[e].probe = c
      /\ thread'[e].says = "FAILED_BEFORE_SEND"
      /\ thread[e] # Free /\ c \in Probes
  BY <1>1, SayEffect DEF Negative
<1>3. /\ journal' = [journal EXCEPT ![c] = "FAILED_BEFORE_SEND"]
      /\ UNCHANGED <<row, file, copies, calls, order, answer, claimed, excused, faults>>
  BY DEF Negative
<1>4. c \in claimed /\ order[c] = "NONE"
  BY <1>1 DEF Stages, PastClaim
<1>5. \A d \in Executors : d # e /\ thread[d].probe = c => thread[d].at \notin PastClaim
  BY <1>1 DEF OnePastClaim, PastClaim
<1>6. TypeOK'
  BY <1>2, <1>3, ThreadTypes DEF TypeOK, Records, Journals
<1> HIDE DEF c
<1>7. Delivered' /\ Untaken' /\ Sent'
  BY <1>2, <1>3, <1>4 DEF Delivered, Untaken, Sent, TypeOK
<1>8. Stages'
  BY <1>1, <1>2, <1>3, <1>4, <1>5 DEF Stages, PastClaim, TypeOK
<1>9. OnePastClaim'
  BY <1>1, <1>2 DEF OnePastClaim, PastClaim, c
<1>10. Alone' /\ HonestLegs'
  BY <1>1, <1>2, <1>3, <1>4 DEF Alone, HonestLegs, c
<1> QED  BY <1>6, <1>7, <1>8, <1>9, <1>10

LEMMA CallCancelStep ==
  ASSUME Inv, NEW e \in Executors, CallCancel(e)
  PROVE  Inv'
<1> USE DEF Inv
<1> DEFINE c == thread[e].probe
<1>1. thread[e].at = "CANCEL" /\ thread[e].at \in Places
  BY DEF Places, CallCancel
<1>2. PICK place \in {"CANCELLED", "ANSWER"}, status \in Answers :
        \/ place = "CANCELLED" /\ Go(e, place) /\ status = thread[e].says
        \/ place = "ANSWER" /\ Say(e, place, status) /\ status = "CANCEL_UNKNOWN"
  BY ThreadTypes DEF CallCancel, Answers
<1>3. place \in Places
  BY DEF Places
<1>4. /\ thread' \in [Executors -> {Free} \cup Records]
      /\ \A d \in Executors : d # e => thread'[d] = thread[d]
      /\ thread'[e].at = place /\ thread'[e].probe = c /\ thread'[e].says = status
      /\ thread[e] # Free /\ c \in Probes
  BY <1>1, <1>2, <1>3, GoEffect, SayEffect
<1>5. PICK o \in {"WORKING", "CANCELLED"} :
        /\ order' = [order EXCEPT ![c] = o]
        /\ UNCHANGED <<row, file, copies, journal, calls, answer, claimed, excused, faults>>
  BY DEF CallCancel
<1>6. /\ c \in claimed /\ calls[c] = 1 /\ journal[c] = "SEND_RETURNED" /\ thread[e].says = "NONE"
  BY <1>1 DEF Stages, PastClaim
<1>7. \A d \in Executors : d # e /\ thread[d].probe = c => thread[d].at \notin PastClaim
  BY <1>1 DEF OnePastClaim, PastClaim
<1>8. TypeOK'
  BY <1>4, <1>5, ThreadTypes DEF TypeOK, Records
<1>9. status \notin {"ADAPTER_REJECTED", "FAILED_BEFORE_SEND"} /\ (place = "CANCELLED" => status = "NONE")
  BY <1>2, <1>6
<1> HIDE DEF c
<1>10. Delivered' /\ Untaken' /\ Sent'
  BY <1>4, <1>5, <1>6 DEF Delivered, Untaken, Sent, TypeOK
<1>11. Stages'
  BY <1>1, <1>4, <1>5, <1>6, <1>7, <1>9 DEF Stages, PastClaim, TypeOK
<1>12. OnePastClaim'
  BY <1>1, <1>4 DEF OnePastClaim, PastClaim, c
<1>13. Alone'
  BY <1>1, <1>4, <1>5 DEF Alone, c
<1>14. HonestLegs'
  BY <1>1, <1>4, <1>5, <1>9, <1>13 DEF HonestLegs, Alone, TypeOK, Probes
<1> QED  BY <1>8, <1>10, <1>11, <1>12, <1>13, <1>14

LEMMA CancelledStep ==
  ASSUME Inv, NEW e \in Executors, Cancelled(e)
  PROVE  Inv'
<1> USE DEF Inv
<1> DEFINE c == thread[e].probe
<1>1. /\ thread[e].at = "CANCELLED" /\ thread[e].at \in Places /\ "ANSWER" \in Places
      /\ "CANCEL_REQUESTED" \in Answers
  BY DEF Places, Answers, Cancelled
<1>2. /\ thread' \in [Executors -> {Free} \cup Records]
      /\ \A d \in Executors : d # e => thread'[d] = thread[d]
      /\ thread'[e].at = "ANSWER" /\ thread'[e].probe = c
      /\ thread'[e].says = "CANCEL_REQUESTED"
      /\ thread[e] # Free /\ c \in Probes
  BY <1>1, SayEffect DEF Cancelled
<1>3. /\ journal' = [journal EXCEPT ![c] = "CANCEL_REQUESTED"]
      /\ UNCHANGED <<row, file, copies, calls, order, answer, claimed, excused, faults>>
  BY DEF Cancelled
<1>4. c \in claimed
  BY <1>1 DEF Stages, PastClaim
<1>5. \A d \in Executors : d # e /\ thread[d].probe = c => thread[d].at \notin PastClaim
  BY <1>1 DEF OnePastClaim, PastClaim
<1>6. TypeOK'
  BY <1>2, <1>3, ThreadTypes DEF TypeOK, Records, Journals
<1> HIDE DEF c
<1>7. Delivered' /\ Untaken' /\ Sent'
  BY <1>2, <1>3, <1>4 DEF Delivered, Untaken, Sent, TypeOK
<1>8. Stages'
  BY <1>1, <1>2, <1>3, <1>4, <1>5 DEF Stages, PastClaim, TypeOK
<1>9. OnePastClaim'
  BY <1>1, <1>2 DEF OnePastClaim, PastClaim, c
<1>10. Alone' /\ HonestLegs'
  BY <1>1, <1>2, <1>3 DEF Alone, HonestLegs, c
<1> QED  BY <1>6, <1>7, <1>8, <1>9, <1>10

-----------------------------------------------------------------------------
(* Answers, refusals, failures and kills.                                  *)

LEMMA RefuseStep ==
  ASSUME Inv, NEW e \in Executors, Refuse(e)
  PROVE  Inv'
<1> USE DEF Inv
<1> DEFINE c == thread[e].probe
<1>1. /\ thread[e].at = "REFUSE" /\ thread[e].at \in Places /\ "REFUSED" \in Places
      /\ "ADAPTER_REJECTED" \in Answers
  BY DEF Places, Answers, Refuse
<1>2. c \in Probes
  BY <1>1, ThreadTypes
<1>3. PICK status \in Answers :
        /\ Say(e, "REFUSED", status)
        /\ \/ status = Refusal(c) /\ UNCHANGED <<excused, faults>>
           \/ faults < MaxFaults /\ faults' = faults + 1 /\ excused' = excused \cup {c}
  BY <1>1, <1>2, RefusalAnswers DEF Refuse
<1>4. /\ thread' \in [Executors -> {Free} \cup Records]
      /\ \A d \in Executors : d # e => thread'[d] = thread[d]
      /\ thread'[e].at = "REFUSED" /\ thread'[e].probe = c /\ thread'[e].says = status
      /\ thread[e] # Free
  BY <1>1, <1>3, SayEffect
<1>5. UNCHANGED <<row, file, copies, journal, calls, order, answer, claimed>>
  BY DEF Refuse
<1>6. TypeOK'
  BY <1>2, <1>3, <1>4, <1>5, ThreadTypes DEF TypeOK, Records
<1>7. c \in Legs \ excused' /\ status \in {"ADAPTER_REJECTED", "FAILED_BEFORE_SEND"}
        => order[c] = "NONE"
  <2> SUFFICES ASSUME c \in Legs \ excused', status \in {"ADAPTER_REJECTED", "FAILED_BEFORE_SEND"}
               PROVE  order[c] = "NONE"
    OBVIOUS
  <2>1. status = Refusal(c)
    BY <1>3
  <2>2. journal[c] \in {"NONE", "FAILED_BEFORE_SEND"}
    BY <1>2, <2>1 DEF Refusal, TypeOK, Journals
  <2> QED  BY <1>2, <2>2 DEF Sent, TypeOK
<1> HIDE DEF c
<1>8. Delivered' /\ Untaken' /\ Sent'
  BY <1>5 DEF Delivered, Untaken, Sent
<1>9. Stages' /\ OnePastClaim'
  BY <1>1, <1>4, <1>5 DEF Stages, OnePastClaim, PastClaim
<1>10. Alone' /\ HonestLegs'
  BY <1>1, <1>3, <1>4, <1>5, <1>7 DEF Alone, HonestLegs, c
<1> QED  BY <1>6, <1>8, <1>9, <1>10

LEMMA AnswerStep ==
  ASSUME Inv, NEW e \in Executors, Answer(e)
  PROVE  Inv'
<1> USE DEF Inv
<1>1. /\ thread' \in [Executors -> {Free} \cup Records]
      /\ \A d \in Executors : d # e => thread'[d] = thread[d]
      /\ thread'[e].at = "FREE" /\ thread'[e].probe = None /\ thread'[e].says = "NONE"
      /\ thread'[e] = Free
  BY LeaveEffect DEF Answer
<1>2. /\ answer' = [answer EXCEPT ![thread[e].probe] = thread[e].says]
      /\ UNCHANGED <<row, file, copies, journal, calls, order, claimed, excused, faults>>
  BY DEF Answer
<1>3. TypeOK'
  BY <1>1, <1>2, ThreadTypes DEF TypeOK, Records
<1>4. Delivered' /\ Untaken' /\ Sent'
  BY <1>2 DEF Delivered, Untaken, Sent
<1>5. Stages' /\ OnePastClaim'
  BY <1>1, <1>2 DEF Stages, OnePastClaim, PastClaim
<1>6. Alone' /\ HonestLegs'
  BY <1>1, <1>2 DEF Alone, HonestLegs, Probes
<1> QED  BY <1>3, <1>4, <1>5, <1>6

LEMMA WriteFailsStep ==
  ASSUME Inv, NEW e \in Executors, WriteFails(e)
  PROVE  Inv'
<1> USE DEF Inv
<1>1. /\ faults < MaxFaults /\ faults' = faults + 1
      /\ UNCHANGED <<row, file, copies, journal, calls, order, answer, claimed, excused>>
  BY DEF WriteFails
<1>2. Delivered' /\ Untaken' /\ Sent'
  BY <1>1 DEF Delivered, Untaken, Sent
<1>3. CASE Leave(e)
  <2>1. /\ thread' \in [Executors -> {Free} \cup Records]
        /\ \A d \in Executors : d # e => thread'[d] = thread[d]
        /\ thread'[e].at = "FREE" /\ thread'[e].probe = None /\ thread'[e].says = "NONE"
        /\ thread'[e] = Free
    BY <1>3, LeaveEffect
  <2>2. TypeOK'
    BY <1>1, <2>1, ThreadTypes DEF TypeOK, Records
  <2>3. Stages' /\ OnePastClaim'
    BY <1>1, <2>1 DEF Stages, OnePastClaim, PastClaim
  <2>4. Alone' /\ HonestLegs'
    BY <1>1, <2>1 DEF Alone, HonestLegs, Probes
  <2> QED  BY <1>2, <2>2, <2>3, <2>4
<1>4. CASE Go(e, "REFUSE")
  <2>1. thread[e].at \in Places /\ "REFUSE" \in Places
    BY DEF WriteFails, Places
  <2>2. /\ thread' \in [Executors -> {Free} \cup Records]
        /\ \A d \in Executors : d # e => thread'[d] = thread[d]
        /\ thread'[e].at = "REFUSE" /\ thread'[e].probe = thread[e].probe
        /\ thread'[e].says = thread[e].says
        /\ thread[e] # Free /\ thread[e].probe \in Probes
    BY <1>4, <2>1, GoEffect
  <2>3. TypeOK'
    BY <1>1, <2>2, ThreadTypes DEF TypeOK, Records
  <2>4. Stages' /\ OnePastClaim'
    BY <1>1, <2>2 DEF Stages, OnePastClaim, PastClaim
  <2>5. Alone' /\ HonestLegs'
    BY <1>1, <2>2 DEF Alone, HonestLegs
  <2> QED  BY <1>2, <2>3, <2>4, <2>5
<1> QED  BY <1>3, <1>4 DEF WriteFails

LEMMA KilledStep ==
  ASSUME Inv, AdapterKilled
  PROVE  Inv'
<1> USE DEF Inv
<1>1. /\ faults < MaxFaults /\ faults' = faults + 1
      /\ UNCHANGED <<row, file, journal, calls, order, answer, claimed, excused>>
      /\ thread' = [e \in Executors |-> Free]
      /\ copies' = [c \in Probes |->
           IF \E e \in Executors : thread[e].probe = c /\ copies[c] < MaxCopies
             THEN copies[c] + 1 ELSE copies[c]]
  BY DEF AdapterKilled
<1>2. \A e \in Executors :
        thread'[e] = Free /\ thread'[e].at = "FREE" /\ thread'[e].probe = None
          /\ thread'[e].says = "NONE"
  BY <1>1 DEF Free
<1>3. copies' \in [Probes -> 0..MaxCopies]
  BY <1>1 DEF TypeOK
<1>4. TypeOK'
  BY <1>1, <1>2, <1>3 DEF TypeOK
<1>5. Delivered'
  <2>1. ASSUME NEW e \in Executors, thread[e].probe \in Probes
        PROVE  row[thread[e].probe] \in {"PENDING", "DELIVERED"}
    BY <2>1, ThreadTypes DEF TypeOK
  <2> QED  BY <1>1, <2>1 DEF Delivered, TypeOK
<1>6. Untaken' /\ Sent'
  BY <1>1 DEF Untaken, Sent
<1>7. Stages' /\ OnePastClaim' /\ Alone' /\ HonestLegs'
  BY <1>2 DEF Stages, OnePastClaim, Alone, HonestLegs, PastClaim, Probes
<1> QED  BY <1>4, <1>5, <1>6, <1>7

LEMMA InvInductive == Inv /\ [Next]_vars => Inv'
<1> SUFFICES ASSUME Inv, [Next]_vars PROVE Inv'
  OBVIOUS
<1>1. ASSUME NEW c \in Probes,
             \/ QueueP0TestOrder(c) \/ QueueP0ValidationLeg(c)
             \/ InsertCommand(c) \/ Deliver(c) \/ MarkDelivered(c)
      PROVE  Inv'
  BY <1>1, ConsoleStep DEF QueueP0TestOrder, QueueP0ValidationLeg
<1>2. ASSUME NEW e \in Executors, NEW c \in Probes, Take(e, c) PROVE Inv'
  BY <1>2, TakeStep
<1>3. ASSUME NEW e \in Executors, CheckTestOrder(e) \/ CheckValidationLeg(e) PROVE Inv'
  BY <1>3, GatesStep DEF CheckTestOrder, CheckValidationLeg
<1>4. ASSUME NEW e \in Executors,
             \/ Claim(e) \/ WriteJournal(e) \/ CallOrder(e) \/ Returned(e) \/ Negative(e)
             \/ CallCancel(e) \/ Cancelled(e) \/ Refuse(e) \/ Answer(e) \/ WriteFails(e)
      PROVE  Inv'
  BY <1>4, ClaimStep, WriteJournalStep, CallOrderStep, ReturnedStep, NegativeStep, CallCancelStep,
     CancelledStep, RefuseStep, AnswerStep, WriteFailsStep
<1>5. CASE AdapterKilled
  BY <1>5, KilledStep
<1>6. CASE UNCHANGED vars
  BY <1>6 DEF vars, Inv, TypeOK, Delivered, Untaken, Sent, Stages, OnePastClaim, Alone, HonestLegs
<1> QED  BY <1>1, <1>2, <1>3, <1>4, <1>5, <1>6 DEF Next

LEMMA AlwaysInv == Spec => []Inv
<1>1. Init => Inv
  BY InitInv
<1>2. Inv /\ [Next]_vars => Inv'
  BY InvInductive
<1> QED  BY <1>1, <1>2, PTL DEF Spec

-----------------------------------------------------------------------------

(* The types hold throughout, and no thread has a probe that was not       *)
(* delivered.                                                              *)
THEOREM TypeCorrect == Spec => []TypeOK
<1>1. Inv => TypeOK
  BY DEF Inv
<1> QED  BY <1>1, AlwaysInv, PTL

(* A probe sends at most one order, and only after its own authorization   *)
(* was taken and its journal written, for any number of copies, threads,   *)
(* kills and failed writes.                                                *)
THEOREM OrdersAreAuthorizedHolds == Spec => []OrdersAreAuthorized
<1>1. Inv => OrdersAreAuthorized
  BY DEF Inv, Sent, OrdersAreAuthorized
<1> QED  BY <1>1, AlwaysInv, PTL

(* A leg of which there is an order is not answered as refused, unless two *)
(* threads worked on it at once or its journal could not be read.          *)
THEOREM HonestLegsHold == Spec => []HonestLegs
<1>1. Inv => HonestLegs
  BY DEF Inv
<1> QED  BY <1>1, AlwaysInv, PTL

-----------------------------------------------------------------------------
(* What the journal and the acknowledgements say of the order.             *)

(* What can only be said once the order entry has returned an order.       *)
Confirmations == {"SEND_RETURNED", "CANCEL_REQUESTED", "CANCEL_UNKNOWN"}

(* An acknowledgement that speaks of a sent order is true for good.        *)
ConfirmationsAreTrue == \A c \in Probes : answer[c] \in Confirmations => order[c] # "NONE"

ThreadTruth ==
  \A e \in Executors : LET c == thread[e].probe IN
    /\ thread[e].says \in Confirmations => order[c] # "NONE"
    /\ thread[e].at = "RETURNED" => order[c] # "NONE"
    /\ thread[e].at = "JOURNAL" => journal[c] = "NONE"
    /\ thread[e].at \in {"CANCEL", "CANCELLED"} => c \in TestProbes

Truth ==
  /\ ConfirmationsAreTrue /\ ThreadTruth
  /\ \A c \in Probes : /\ journal[c] # "NONE" => c \in claimed
                       /\ journal[c] \in Confirmations => order[c] # "NONE"

(* The moves of a journal.                                                 *)
Forward(c) ==
  \/ journal'[c] = journal[c]
  \/ journal[c] = "NONE" /\ journal'[c] = "PRE_SUBMIT"
  \/ journal[c] = "PRE_SUBMIT" /\ journal'[c] \in {"FAILED_BEFORE_SEND", "SEND_RETURNED"}
  \/ c \in TestProbes /\ journal[c] = "SEND_RETURNED" /\ journal'[c] = "CANCEL_REQUESTED"

(* A step that leaves the broker and the journal alone, and after which    *)
(* one thread stands at a harmless place, or none anywhere.                *)
LEMMA QuietStep ==
  ASSUME Inv, Truth, UNCHANGED <<order, journal>>, claimed \subseteq claimed',
         \A c \in Probes : answer'[c] = answer[c] \/ answer'[c] \notin Confirmations \/ order[c] # "NONE",
         \A e \in Executors :
           \/ thread'[e] = thread[e]
           \/ /\ thread'[e].probe \in Probes \cup {None}
              /\ thread'[e].at \notin {"RETURNED", "JOURNAL", "CANCEL", "CANCELLED"}
              /\ thread'[e].says \in Confirmations => order[thread'[e].probe] # "NONE"
  PROVE  Truth' /\ \A c \in Probes : Forward(c)
<1>1. ThreadTruth' BY DEF Truth, ThreadTruth
<1>2. ConfirmationsAreTrue' BY DEF Truth, ConfirmationsAreTrue
<1>3. \A c \in Probes : Forward(c) BY DEF Forward
<1> QED BY <1>1, <1>2, <1>3 DEF Truth

(* A step of thread e past its claim, with the probe's journal and order.  *)
LEMMA ProbeStep ==
  ASSUME Inv, Truth, NEW e \in Executors, NEW c \in Probes, c = thread[e].probe,
         \A d \in Executors : d # e => thread'[d] = thread[d],
         thread'[e].probe = c,
         UNCHANGED <<answer, claimed>>,
         \A b \in Probes : b # c => journal'[b] = journal[b] /\ order'[b] = order[b],
         order[c] # "NONE" => order'[c] # "NONE",
         Forward(c), c \in claimed,
         journal'[c] \in Confirmations => order'[c] # "NONE",
         thread'[e].says \in Confirmations => order'[c] # "NONE",
         thread'[e].at = "RETURNED" => order'[c] # "NONE",
         thread'[e].at # "JOURNAL",
         thread'[e].at \in {"CANCEL", "CANCELLED"} => c \in TestProbes,
         thread[e].at \in PastClaim
  PROVE  Truth' /\ \A b \in Probes : Forward(b)
<1>1. ASSUME NEW b \in Probes PROVE Forward(b)
  BY DEF Forward
<1>2. ASSUME NEW d \in Executors, d # e, thread[d].at \in Places
      PROVE  thread[d].probe \in Probes
  BY <1>2, ThreadTypes DEF Inv
<1>3. ASSUME NEW d \in Executors, d # e, thread[d].at \in PastClaim
      PROVE  thread[d].probe # c
  BY <1>3 DEF Inv, OnePastClaim
<1>4. ASSUME NEW d \in Executors, d # e, thread[d].says \in Confirmations
      PROVE  thread[d].probe \in Probes
  BY <1>4, ThreadTypes DEF Inv, TypeOK, Free, Confirmations
<1>5. ThreadTruth'
  <2> SUFFICES ASSUME NEW d \in Executors
               PROVE  /\ thread'[d].says \in Confirmations => order'[thread'[d].probe] # "NONE"
                      /\ thread'[d].at = "RETURNED" => order'[thread'[d].probe] # "NONE"
                      /\ thread'[d].at = "JOURNAL" => journal'[thread'[d].probe] = "NONE"
                      /\ thread'[d].at \in {"CANCEL", "CANCELLED"} => thread'[d].probe \in TestProbes
    BY DEF ThreadTruth
  <2>1. CASE d = e BY <2>1
  <2>2. CASE d # e
    <3>1. thread'[d] = thread[d] BY <2>2
    <3>2. /\ thread[d].says \in Confirmations => order[thread[d].probe] # "NONE"
          /\ thread[d].at = "RETURNED" => order[thread[d].probe] # "NONE"
          /\ thread[d].at = "JOURNAL" => journal[thread[d].probe] = "NONE"
          /\ thread[d].at \in {"CANCEL", "CANCELLED"} => thread[d].probe \in TestProbes
      BY DEF Truth, ThreadTruth
    <3>3. \A b \in Probes : order[b] # "NONE" => order'[b] # "NONE" OBVIOUS
    <3>4. thread[d].at \in {"RETURNED", "JOURNAL"} => thread[d].probe \in Probes
      BY <1>2, <2>2 DEF Places
    <3>5. thread[d].at \in PastClaim => thread[d].probe # c BY <1>3, <2>2
    <3>6. thread[d].at = "JOURNAL" => thread[d].at \in PastClaim BY DEF PastClaim
    <3>7. thread[d].says \in Confirmations => thread[d].probe \in Probes BY <1>4, <2>2
    <3> QED BY <3>1, <3>2, <3>3, <3>4, <3>5, <3>6, <3>7
  <2> QED BY <2>1, <2>2
<1>6. ConfirmationsAreTrue' BY DEF Truth, ConfirmationsAreTrue
<1>7. ASSUME NEW b \in Probes
      PROVE  /\ journal'[b] # "NONE" => b \in claimed'
             /\ journal'[b] \in Confirmations => order'[b] # "NONE"
  BY DEF Truth
<1> QED BY <1>1, <1>5, <1>6, <1>7 DEF Truth

LEMMA TruthStep == Inv /\ Truth /\ [Next]_vars => Truth' /\ \A c \in Probes : Forward(c)
<1> SUFFICES ASSUME Inv, Truth, [Next]_vars PROVE Truth' /\ \A c \in Probes : Forward(c)
  OBVIOUS
<1>0. Inv' BY InvInductive
<1>1. ASSUME NEW c \in Probes,
             \/ QueueP0TestOrder(c) \/ QueueP0ValidationLeg(c)
             \/ InsertCommand(c) \/ Deliver(c) \/ MarkDelivered(c)
      PROVE  Truth' /\ \A b \in Probes : Forward(b)
  BY <1>1, QuietStep DEF QueueP0TestOrder, QueueP0ValidationLeg, WriteAuthorization,
                         InsertCommand, Deliver, MarkDelivered
<1>2. ASSUME NEW e \in Executors, NEW c \in Probes, Take(e, c)
      PROVE  Truth' /\ \A b \in Probes : Forward(b)
  <2>1. \A d \in Executors : thread'[d] = thread[d] \/ thread'[d] = [at |-> "CHECK", probe |-> c, says |-> "NONE"]
    BY <1>2 DEF Take, Inv, TypeOK
  <2>2. UNCHANGED <<order, journal, answer, claimed>> BY <1>2 DEF Take
  <2> QED BY <2>1, <2>2, QuietStep DEF Confirmations
<1>3. ASSUME NEW e \in Executors, CheckTestOrder(e) \/ CheckValidationLeg(e) \/ Refuse(e) \/ WriteFails(e)
      PROVE  Truth' /\ \A b \in Probes : Forward(b)
  <2>1. UNCHANGED <<order, journal, answer, claimed>> /\ thread[e].at \in Places
    BY <1>3 DEF CheckTestOrder, CheckValidationLeg, Gates, Refuse, WriteFails, Places
  <2>2. thread[e] # Free /\ thread[e].probe \in Probes BY <2>1, ThreadTypes DEF Inv
  <2>3. Refusal(thread[e].probe) \in Answers BY <2>2, RefusalAnswers DEF Inv
  <2>4. \A d \in Executors : d # e => thread'[d] = thread[d]
    BY <1>3 DEF CheckTestOrder, CheckValidationLeg, Gates, Refuse, WriteFails, Inv, TypeOK
  <2>5. \/ /\ thread'[e].probe = thread[e].probe
           /\ thread'[e].at \in {"REFUSE", "CLAIM", "REFUSED"}
           /\ thread'[e].says \in {thread[e].says, Refusal(thread[e].probe), "ADAPTER_REJECTED"}
        \/ thread'[e] = Free
    BY <1>3, <2>1, <2>2 DEF CheckTestOrder, CheckValidationLeg, Gates, Refuse, WriteFails, Inv, TypeOK
  <2>6. thread[e].says \in Confirmations => order[thread[e].probe] # "NONE"
    BY DEF Truth, ThreadTruth
  <2>7. Refusal(thread[e].probe) \in Confirmations => order[thread[e].probe] # "NONE"
    BY <2>2 DEF Refusal, Confirmations, Truth
  <2>8. thread'[e].says \in Confirmations => order[thread'[e].probe] # "NONE"
    BY <2>5, <2>6, <2>7 DEF Free, Confirmations
  <2>9. /\ thread'[e].probe \in Probes \cup {None}
        /\ thread'[e].at \notin {"RETURNED", "JOURNAL", "CANCEL", "CANCELLED"}
    BY <2>2, <2>5 DEF Free
  <2> QED BY <2>1, <2>4, <2>8, <2>9, QuietStep
<1>4. ASSUME NEW e \in Executors, Answer(e)
      PROVE  Truth' /\ \A b \in Probes : Forward(b)
  <2>1. thread[e].at \in Places BY <1>4 DEF Answer, Places
  <2>2. thread[e].probe \in Probes BY <2>1, ThreadTypes DEF Inv
  <2>3. \A c \in Probes : answer'[c] = answer[c] \/ (c = thread[e].probe /\ answer'[c] = thread[e].says)
    BY <1>4, <2>2 DEF Answer, Inv, TypeOK
  <2>4. thread[e].says \in Confirmations => order[thread[e].probe] # "NONE"
    BY DEF Truth, ThreadTruth
  <2>5. \A c \in Probes : answer'[c] = answer[c] \/ answer'[c] \notin Confirmations \/ order[c] # "NONE"
    BY <2>3, <2>4
  <2>6. UNCHANGED <<order, journal, claimed>> BY <1>4 DEF Answer
  <2>7. \A d \in Executors : thread'[d] = thread[d] \/ thread'[d] = Free
    BY <1>4 DEF Answer, Inv, TypeOK
  <2> QED BY <2>5, <2>6, <2>7, QuietStep DEF Free, Confirmations
<1>5. CASE AdapterKilled
  <2>1. UNCHANGED <<order, journal, claimed, answer>> BY <1>5 DEF AdapterKilled
  <2>2. \A d \in Executors : thread'[d] = Free BY <1>5 DEF AdapterKilled
  <2> QED BY <2>1, <2>2, QuietStep DEF Free, Confirmations
<1>6. CASE UNCHANGED vars BY <1>6, QuietStep DEF vars
<1>7. ASSUME NEW e \in Executors, Claim(e)
      PROVE  Truth' /\ \A b \in Probes : Forward(b)
  <2> DEFINE c == thread[e].probe
  <2>1. thread[e].at = "CLAIM" /\ thread[e].at \in Places BY <1>7 DEF Claim, Places
  <2>2. PICK place \in {"REFUSE", "JOURNAL"} : Go(e, place) /\ (place = "JOURNAL" => file[KindOf(c)] = c)
    BY <1>7 DEF Claim
  <2>3. place \in Places BY DEF Places
  <2>4. /\ \A d \in Executors : d # e => thread'[d] = thread[d]
        /\ thread'[e].at = place /\ thread'[e].probe = c /\ thread'[e].says = thread[e].says
        /\ c \in Probes
    BY <2>1, <2>2, <2>3, GoEffect DEF Inv
  <2>5. UNCHANGED <<order, journal, answer>> /\ claimed \subseteq claimed' BY <1>7 DEF Claim
  <2>6. thread[e].says = "NONE" BY <2>1 DEF Inv, Stages
  <2>7. place = "JOURNAL" => c \notin claimed
    BY <2>2, <2>4 DEF Inv, Untaken, KindOf, Kinds
  <2>8. place = "JOURNAL" => journal[c] = "NONE" BY <2>4, <2>7 DEF Truth
  <2> HIDE DEF c
  <2>9. ThreadTruth'
    BY <2>4, <2>5, <2>6, <2>8 DEF Truth, ThreadTruth, Confirmations
  <2>10. ConfirmationsAreTrue' BY <2>5 DEF Truth, ConfirmationsAreTrue
  <2> QED BY <2>5, <2>9, <2>10 DEF Truth, Forward
<1>8. ASSUME NEW e \in Executors,
             WriteJournal(e) \/ CallOrder(e) \/ Returned(e) \/ Negative(e) \/ CallCancel(e) \/ Cancelled(e)
      PROVE  Truth' /\ \A b \in Probes : Forward(b)
  <2> DEFINE c == thread[e].probe
  <2>1. thread[e].at \in PastClaim
    BY <1>8 DEF WriteJournal, CallOrder, Returned, Negative, CallCancel, Cancelled, PastClaim
  <2>2. c \in Probes /\ c \in claimed /\ thread[e].says = "NONE"
    BY <2>1, ThreadTypes DEF PastClaim, Places, Inv, Stages
  <2>3. /\ \A d \in Executors : d # e => thread'[d] = thread[d]
        /\ UNCHANGED <<answer, claimed>>
        /\ \A b \in Probes : b # c => journal'[b] = journal[b] /\ order'[b] = order[b]
    BY <1>8, <2>2 DEF WriteJournal, CallOrder, Returned, Negative, CallCancel, Cancelled, Inv, TypeOK
  <2>4. thread[e] \in Records
    BY <2>1, ThreadTypes DEF PastClaim, Places, Inv, Records
  <2>5. /\ thread[e].at \in {"CALL", "RETURNED", "NEGATIVE"} => journal[c] = "PRE_SUBMIT"
        /\ thread[e].at \in {"CANCEL", "CANCELLED"} => journal[c] = "SEND_RETURNED" /\ c \in TestProbes
        /\ thread[e].at = "JOURNAL" => journal[c] = "NONE"
        /\ thread[e].at = "RETURNED" => order[c] # "NONE"
        /\ thread[e].at = "CALL" => order[c] = "NONE"
        /\ journal[c] \in Confirmations => order[c] # "NONE"
    BY <2>1, <2>2 DEF Inv, Stages, Sent, Truth, ThreadTruth
  <2>6. CASE WriteJournal(e)
    <3>1. journal'[c] = "PRE_SUBMIT" /\ order' = order BY <2>2, <2>6 DEF WriteJournal, Inv, TypeOK
    <3>2. thread'[e].at = "CALL" /\ thread'[e].probe = c /\ thread'[e].says = "NONE"
      BY <2>2, <2>4, <2>6 DEF WriteJournal, Inv, TypeOK, Records
    <3>3. Forward(c) BY <2>5, <2>6, <3>1 DEF WriteJournal, Forward
    <3> HIDE DEF c
    <3> QED BY <2>1, <2>2, <2>3, <3>1, <3>2, <3>3, ProbeStep DEF Confirmations, c
  <2>7. CASE CallOrder(e)
    <3>1. journal' = journal BY <2>7 DEF CallOrder
    <3>2. thread'[e].probe = c BY <2>4, <2>7 DEF CallOrder, Inv, TypeOK, Records
    <3>3. \/ thread'[e].at = "RETURNED" /\ thread'[e].says = "NONE" /\ order'[c] = "WORKING"
          \/ thread'[e].at \in {"NEGATIVE", "ANSWER"} /\ thread'[e].says \in {"NONE", "SUBMIT_UNKNOWN"}
      BY <2>2, <2>4, <2>7 DEF CallOrder, Inv, TypeOK, Records
    <3>4. journal[c] = "PRE_SUBMIT" /\ order[c] = "NONE" BY <2>5, <2>7 DEF CallOrder
    <3>5. Forward(c) BY <3>1 DEF Forward
    <3> HIDE DEF c
    <3> QED BY <2>1, <2>2, <2>3, <3>1, <3>2, <3>3, <3>4, <3>5, ProbeStep DEF Confirmations, c
  <2>8. CASE Returned(e)
    <3>1. journal'[c] = "SEND_RETURNED" /\ order' = order BY <2>2, <2>8 DEF Returned, Inv, TypeOK
    <3>2. thread'[e].probe = c BY <2>4, <2>8 DEF Returned, Inv, TypeOK, Records
    <3>3. \/ thread'[e].at = "ANSWER"
          \/ thread'[e].at = "CANCEL" /\ c \notin Legs
      BY <2>4, <2>8 DEF Returned, Inv, TypeOK, Records
    <3>4. journal[c] = "PRE_SUBMIT" /\ order[c] # "NONE" BY <2>5, <2>8 DEF Returned
    <3>5. Forward(c) BY <3>1, <3>4 DEF Forward
    <3>6. c \notin Legs => c \in TestProbes BY <2>2 DEF Probes
    <3> HIDE DEF c
    <3> QED BY <2>1, <2>2, <2>3, <3>1, <3>2, <3>3, <3>4, <3>5, <3>6, ProbeStep DEF c
  <2>9. CASE Negative(e)
    <3>1. journal'[c] = "FAILED_BEFORE_SEND" /\ order' = order BY <2>2, <2>9 DEF Negative, Inv, TypeOK
    <3>2. thread'[e].at = "ANSWER" /\ thread'[e].probe = c /\ thread'[e].says = "FAILED_BEFORE_SEND"
      BY <2>4, <2>9 DEF Negative, Inv, TypeOK, Records
    <3>3. Forward(c) BY <2>5, <2>9, <3>1 DEF Negative, Forward
    <3> HIDE DEF c
    <3> QED BY <2>1, <2>2, <2>3, <3>1, <3>2, <3>3, ProbeStep DEF Confirmations, c
  <2>10. CASE CallCancel(e)
    <3>1. journal' = journal /\ order'[c] # "NONE" BY <2>2, <2>10 DEF CallCancel, Inv, TypeOK
    <3>2. thread'[e].at \in {"CANCELLED", "ANSWER"} /\ thread'[e].probe = c
      BY <2>4, <2>10 DEF CallCancel, Inv, TypeOK, Records
    <3>3. Forward(c) BY <3>1 DEF Forward
    <3>4. c \in TestProbes BY <2>5, <2>10 DEF CallCancel
    <3> HIDE DEF c
    <3> QED BY <2>1, <2>2, <2>3, <3>1, <3>2, <3>3, <3>4, ProbeStep DEF c
  <2>11. CASE Cancelled(e)
    <3>1. journal'[c] = "CANCEL_REQUESTED" /\ order' = order BY <2>2, <2>11 DEF Cancelled, Inv, TypeOK
    <3>2. thread'[e].at = "ANSWER" /\ thread'[e].probe = c
      BY <2>4, <2>11 DEF Cancelled, Inv, TypeOK, Records
    <3>3. journal[c] = "SEND_RETURNED" /\ c \in TestProbes BY <2>5, <2>11 DEF Cancelled
    <3>4. order[c] # "NONE" BY <2>5, <3>3 DEF Confirmations
    <3>5. Forward(c) BY <3>1, <3>3 DEF Forward
    <3> HIDE DEF c
    <3> QED BY <2>1, <2>2, <2>3, <3>1, <3>2, <3>3, <3>4, <3>5, ProbeStep DEF c
  <2> QED BY <1>8, <2>6, <2>7, <2>8, <2>9, <2>10, <2>11
<1> QED BY <1>1, <1>2, <1>3, <1>4, <1>5, <1>6, <1>7, <1>8 DEF Next

LEMMA AlwaysTruth == Spec => []Truth
<1>1. Init => Truth
  BY DEF Init, Truth, ConfirmationsAreTrue, ThreadTruth, Confirmations, Free
<1> QED BY <1>1, TruthStep, AlwaysInv, PTL DEF Spec

(* What is acknowledged as sent, or as asked to be cancelled, is an order  *)
(* the broker has, also when it is answered from the journal after a kill  *)
(* or an error (_execute_p0_test_order, _execute_p0_validation_leg).       *)
THEOREM ConfirmationsHold == Spec => []ConfirmationsAreTrue
<1>1. Truth => ConfirmationsAreTrue BY DEF Truth
<1> QED BY <1>1, AlwaysTruth, PTL

(* A probe's journal is opened once, before its order, and goes forward    *)
(* only: neither a second copy nor a second thread nor a kill reopens it.  *)
THEOREM JournalForward == Spec => [][\A c \in Probes : Forward(c)]_vars
<1>1. Inv /\ Truth /\ [Next]_vars => [\A c \in Probes : Forward(c)]_vars
  BY TruthStep
<1> QED BY <1>1, AlwaysInv, AlwaysTruth, PTL DEF Spec

=============================================================================
