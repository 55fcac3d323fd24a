---------------------------- MODULE ReaderProofs ----------------------------
(***************************************************************************)
(* Proofs about Reader for any package, pages, number of repeats and       *)
(* faults.                                                                 *)
(*                                                                         *)
(* While a run goes on, every file it knows of is in exactly one place:    *)
(* waiting, at hand, read, opened or refused (Partition).  Opening an      *)
(* archive adds files that were nowhere before, since nothing in the run   *)
(* can be a member of an archive that was still waiting (IdAssumption).    *)
(* What the children do moves no file.                                     *)
(*                                                                         *)
(* What a file is read as depends on the children in between: Reading says *)
(* that the pages at hand, with what the child has filled in so far, are   *)
(* on the way to those the file has when it is read alone.  What is on     *)
(* the pages is not looked at for that.                                    *)
(*                                                                         *)
(* It is for the types: the words of a page are put in order, and every    *)
(* field of a passport is taken from a word that is there (PassportTyped). *)
(***************************************************************************)
EXTENDS Reader, SequenceTheorems, FiniteSetTheorems, TLAPS

AtHand == IF reader.file = NoFile THEN {} ELSE {reader.file}
Thread(job) == [pc : {"next", "poll", "alive", "bands", "ended", "failed"}, job : job,
               file : File \cup {NoFile}, attempt : 0..ParseAttempts, expired : BOOLEAN]

\* The thread has a file exactly while it reads one, and counts its repeats.
ThreadOK ==
  /\ reader \in Thread({"none", "parse", "ocr"})
  /\ reader.file \in File <=> reader.pc \in {"poll", "alive", "bands"}
  /\ reader.pc \in {"poll", "alive"} => reader.attempt >= 1 /\ reader.job \in {"parse", "ocr"}
  /\ reader.pc = "ended" => pending = <<>>

QueueOK ==
  /\ given \in Packages /\ pending \in Seq(File) /\ opened \subseteq File
  /\ \A i, j \in DOMAIN pending : pending[i] = pending[j] => i = j

\* No file is in two places.
Apart ==
  /\ In(pending) \cap AtHand = {}
  /\ (In(pending) \cup AtHand) \cap DOMAIN passports = {}
  /\ (In(pending) \cup AtHand \cup DOMAIN passports) \cap opened = {}
  /\ (In(pending) \cup AtHand \cup DOMAIN passports \cup opened) \cap errors = {}

Partition ==
  reader.pc # "failed" =>
    /\ Apart
    /\ Known = In(pending) \cup AtHand \cup DOMAIN passports \cup opened \cup errors

IInv == ThreadOK /\ QueueOK /\ Partition

-----------------------------------------------------------------------------
(* Sequences of files.                                                     *)

\* What a queue without repetitions loses at its head.
LEMMA TailOfDistinct ==
  ASSUME NEW s \in Seq(File), s # <<>>, \A i, j \in DOMAIN s : s[i] = s[j] => i = j
  PROVE  /\ Head(s) \in File /\ Head(s) \in In(s)
         /\ Tail(s) \in Seq(File)
         /\ In(Tail(s)) = In(s) \ {Head(s)}
         /\ \A i, j \in DOMAIN Tail(s) : Tail(s)[i] = Tail(s)[j] => i = j
<1> DEFINE t == Tail(s)
<1>1. /\ Head(s) \in File /\ t \in Seq(File) /\ Len(t) = Len(s) - 1
      /\ \A i \in 1..Len(t) : t[i] = s[i + 1]
  BY HeadTailProperties
<1>2. Head(s) = s[1] /\ DOMAIN s = 1..Len(s) /\ DOMAIN t = 1..Len(t) /\ Len(s) \in Nat \ {0}
  BY <1>1, EmptySeq
<1> HIDE DEF t
<1>3. Head(s) \in In(s)
  BY <1>2 DEF In
<1>4. In(t) \subseteq In(s) \ {Head(s)}
  <2> SUFFICES ASSUME NEW i \in 1..Len(t) PROVE t[i] \in In(s) \ {Head(s)}
    BY <1>2 DEF In
  <2> QED BY <1>1, <1>2 DEF In
<1>5. In(s) \ {Head(s)} \subseteq In(t)
  <2> SUFFICES ASSUME NEW i \in 1..Len(s), s[i] # Head(s) PROVE s[i] \in In(t)
    BY <1>2 DEF In
  <2>1. i - 1 \in 1..Len(t) /\ (i - 1) + 1 = i
    BY <1>1, <1>2
  <2>2. t[i - 1] = s[i]
    BY <1>1, <2>1
  <2> QED BY <1>2, <2>1, <2>2 DEF In
<1>6. \A i, j \in DOMAIN t : t[i] = t[j] => i = j
  <2> SUFFICES ASSUME NEW i \in 1..Len(t), NEW j \in 1..Len(t), t[i] = t[j] PROVE i = j
    BY <1>2
  <2>1. i + 1 \in DOMAIN s /\ j + 1 \in DOMAIN s
    BY <1>1, <1>2
  <2>2. t[i] = s[i + 1] /\ t[j] = s[j + 1]
    BY <1>1
  <2>3. i + 1 = j + 1
    BY <2>1, <2>2
  <2> QED BY <2>3, <1>1, <1>2
<1> QED BY <1>1, <1>3, <1>4, <1>5, <1>6 DEF t

\* What two queues without repetitions and without a common file are together.
LEMMA ConcatOfDistinct ==
  ASSUME NEW s \in Seq(File), NEW t \in Seq(File), In(s) \cap In(t) = {},
         \A i, j \in DOMAIN s : s[i] = s[j] => i = j,
         \A i, j \in DOMAIN t : t[i] = t[j] => i = j
  PROVE  /\ s \o t \in Seq(File)
         /\ In(s \o t) = In(s) \cup In(t)
         /\ \A i, j \in DOMAIN (s \o t) : (s \o t)[i] = (s \o t)[j] => i = j
<1> DEFINE u == s \o t
<1>1. /\ u \in Seq(File) /\ Len(u) = Len(s) + Len(t)
      /\ \A i \in 1..Len(s) + Len(t) : u[i] = IF i <= Len(s) THEN s[i] ELSE t[i - Len(s)]
  BY ConcatProperties
<1>2. /\ DOMAIN s = 1..Len(s) /\ DOMAIN t = 1..Len(t) /\ DOMAIN u = 1..Len(u)
      /\ Len(s) \in Nat /\ Len(t) \in Nat
  BY <1>1
<1> HIDE DEF u
<1>3. In(u) \subseteq In(s) \cup In(t)
  <2> SUFFICES ASSUME NEW i \in 1..Len(u) PROVE u[i] \in In(s) \cup In(t)
    BY <1>2 DEF In
  <2>1. CASE i <= Len(s)
    BY <1>1, <1>2, <2>1 DEF In
  <2>2. CASE ~(i <= Len(s))
    <3>1. i - Len(s) \in DOMAIN t /\ u[i] = t[i - Len(s)]
      BY <1>1, <1>2, <2>2
    <3> QED BY <3>1 DEF In
  <2> QED BY <2>1, <2>2
<1>4. In(s) \subseteq In(u)
  <2> SUFFICES ASSUME NEW i \in 1..Len(s) PROVE s[i] \in In(u)
    BY <1>2 DEF In
  <2>1. i \in DOMAIN u /\ u[i] = s[i]
    BY <1>1, <1>2
  <2> QED BY <2>1 DEF In
<1>5. In(t) \subseteq In(u)
  <2> SUFFICES ASSUME NEW i \in 1..Len(t) PROVE t[i] \in In(u)
    BY <1>2 DEF In
  <2>1. i + Len(s) \in DOMAIN u /\ ~(i + Len(s) <= Len(s)) /\ (i + Len(s)) - Len(s) = i
    BY <1>1, <1>2
  <2>2. u[i + Len(s)] = t[i]
    BY <1>1, <1>2, <2>1
  <2> QED BY <2>1, <2>2 DEF In
<1>6. \A i, j \in DOMAIN u : u[i] = u[j] => i = j
  <2> SUFFICES ASSUME NEW i \in 1..Len(u), NEW j \in 1..Len(u), u[i] = u[j] PROVE i = j
    BY <1>2
  <2>1. CASE i <= Len(s) /\ j <= Len(s)
    BY <1>1, <1>2, <2>1
  <2>2. CASE ~(i <= Len(s)) /\ ~(j <= Len(s))
    <3>1. i - Len(s) \in DOMAIN t /\ j - Len(s) \in DOMAIN t /\ t[i - Len(s)] = t[j - Len(s)]
      BY <1>1, <1>2, <2>2
    <3>2. i - Len(s) = j - Len(s)
      BY <3>1
    <3> QED BY <3>2, <1>2
  <2>3. CASE i <= Len(s) /\ ~(j <= Len(s))
    <3>1. u[i] = s[i] /\ i \in DOMAIN s /\ u[j] = t[j - Len(s)] /\ j - Len(s) \in DOMAIN t
      BY <1>1, <1>2, <2>3
    <3> QED BY <3>1 DEF In
  <2>4. CASE ~(i <= Len(s)) /\ j <= Len(s)
    <3>1. u[j] = s[j] /\ j \in DOMAIN s /\ u[i] = t[i - Len(s)] /\ i - Len(s) \in DOMAIN t
      BY <1>1, <1>2, <2>4
    <3> QED BY <3>1 DEF In
  <2> QED BY <2>1, <2>2, <2>3, <2>4
<1> QED BY <1>1, <1>3, <1>4, <1>5, <1>6 DEF u

-----------------------------------------------------------------------------
(* The steps.                                                              *)

\* At the start every file waits.
LEMMA InitInv == Init => IInv
<1> SUFFICES ASSUME Init PROVE IInv
  OBVIOUS
<1>1. given \in Packages /\ pending = given /\ given \in Seq(File)
  BY ReaderAssumption DEF Init
<1>2. reader = Between /\ errors = {} /\ opened = {} /\ DOMAIN passports = {}
  BY DEF Init
<1>3. ThreadOK
  BY <1>2, ReaderAssumption DEF ThreadOK, Between, Thread
<1>4. QueueOK
  BY <1>1, <1>2, IdAssumption DEF QueueOK
<1>5. AtHand = {}
  BY <1>2 DEF AtHand, Between
<1>6. Partition
  BY <1>1, <1>2, <1>5 DEF Partition, Apart, Known
<1> QED BY <1>3, <1>4, <1>6 DEF IInv

\* A step of the thread that moves no file.
LEMMA Stays ==
  ASSUME IInv, UNCHANGED <<given, pending, errors, passports, opened>>, ThreadOK',
         reader.pc # "failed", reader'.file = reader.file
  PROVE  IInv'
<1>1. QueueOK'
  BY DEF IInv, QueueOK
<1>2. Known' = Known /\ AtHand' = AtHand
  BY DEF Known, AtHand
<1>3. Partition'
  BY <1>2 DEF IInv, Partition, Apart
<1> QED BY <1>1, <1>3 DEF IInv

\* Leaving a file makes the thread what it is between two files.
LEMMA Leaves ==
  ASSUME NEW end \in {"next", "failed", "ended"}, Leave(end), end = "ended" => pending' = <<>>
  PROVE  ThreadOK' /\ reader'.file = NoFile /\ reader'.pc = end
<1>1. reader' = [pc |-> end, job |-> "none", file |-> NoFile, attempt |-> 0, expired |-> FALSE]
  BY DEF Leave, Between
<1>2. 0 \in 0..ParseAttempts /\ NoFile \notin File
  BY ReaderAssumption
<1>3. /\ reader'.pc = end /\ reader'.file = NoFile
      /\ reader' \in Thread({"none", "parse", "ocr"})
  BY <1>1, <1>2 DEF Thread
<1> QED BY <1>2, <1>3 DEF ThreadOK

\* A step that ends the run with an error.
LEMMA Fails ==
  ASSUME IInv, UNCHANGED <<given, pending, opened>>, Leave("failed")
  PROVE  IInv'
<1>1. reader'.pc = "failed" /\ ThreadOK'
  BY Leaves
<1>2. QueueOK'
  BY DEF IInv, QueueOK
<1> QED BY <1>1, <1>2 DEF IInv, Partition

\* The file at hand gets its answer, a passport or an error.
LEMMA Answers ==
  ASSUME IInv, UNCHANGED <<given, pending, opened>>, Leave("next"),
         reader.pc \in {"poll", "alive", "bands"},
         \/ errors' = errors \cup {Current} /\ UNCHANGED passports
         \/ DOMAIN passports' = DOMAIN passports \cup {Current} /\ UNCHANGED errors
  PROVE  IInv'
<1>1. ThreadOK' /\ reader'.file = NoFile
  BY Leaves
<1>2. Current \in File /\ AtHand = {Current} /\ AtHand' = {}
  BY <1>1, ReaderAssumption DEF IInv, ThreadOK, AtHand, Current
<1>3. QueueOK'
  BY DEF IInv, QueueOK
<1>4. Known' = Known /\ In(pending)' = In(pending)
  BY DEF Known
<1>5. Apart /\ Known = In(pending) \cup AtHand \cup DOMAIN passports \cup opened \cup errors
  BY DEF IInv, Partition
<1>6. Partition'
  BY <1>2, <1>4, <1>5 DEF Partition, Apart
<1> QED BY <1>1, <1>3, <1>6 DEF IInv

\* The run takes the head of its queue.
LEMMA TakeKeeps ==
  ASSUME IInv, NEW file \in File, Take(file)
  PROVE  IInv'
<1>1. /\ reader.pc = "next" /\ pending # <<>> /\ file = Head(pending)
      /\ UNCHANGED given
  BY DEF Take, TakeUnreadable, TakeText, TakeArchive, TakePdf, Taken, Refuse
<1>2. /\ given \in Packages /\ pending \in Seq(File) /\ opened \subseteq File
      /\ \A i, j \in DOMAIN pending : pending[i] = pending[j] => i = j
  BY DEF IInv, QueueOK
<1>3. /\ file \in In(pending) /\ Tail(pending) \in Seq(File)
      /\ In(Tail(pending)) = In(pending) \ {file}
      /\ \A i, j \in DOMAIN Tail(pending) : Tail(pending)[i] = Tail(pending)[j] => i = j
  BY <1>1, <1>2, TailOfDistinct
<1>4. Apart /\ Known = In(pending) \cup AtHand \cup DOMAIN passports \cup opened \cup errors
  BY <1>1 DEF IInv, Partition
<1>5. reader.file = NoFile /\ AtHand = {} /\ ThreadOK
  BY <1>1, ReaderAssumption DEF IInv, ThreadOK, AtHand, Thread
<1>6. CASE TakeUnreadable(file)
  <2>1. /\ pending' = Tail(pending) /\ errors' = errors \cup {file}
        /\ UNCHANGED <<passports, opened, reader>>
    BY <1>6 DEF TakeUnreadable, Refuse
  <2>2. ThreadOK' /\ AtHand' = {}
    BY <1>1, <1>5, <2>1 DEF ThreadOK, AtHand
  <2>3. QueueOK'
    BY <1>1, <1>2, <1>3, <2>1 DEF QueueOK
  <2>4. Known' = Known
    BY <1>1, <2>1 DEF Known
  <2>5. In(pending)' = In(pending) \ {file}
    BY <1>3, <2>1
  <2>6. Partition'
    BY <1>3, <1>4, <1>5, <2>1, <2>2, <2>4, <2>5 DEF Partition, Apart
  <2> QED BY <2>2, <2>3, <2>6 DEF IInv
<1>7. CASE TakeText(file)
  <2>1. /\ pending' = Tail(pending) /\ DOMAIN passports' = DOMAIN passports \cup {file}
        /\ UNCHANGED <<errors, opened, reader>>
    BY <1>7 DEF TakeText
  <2>2. ThreadOK' /\ AtHand' = {}
    BY <1>1, <1>5, <2>1 DEF ThreadOK, AtHand
  <2>3. QueueOK'
    BY <1>1, <1>2, <1>3, <2>1 DEF QueueOK
  <2>4. Known' = Known
    BY <1>1, <2>1 DEF Known
  <2>5. In(pending)' = In(pending) \ {file}
    BY <1>3, <2>1
  <2>6. Partition'
    BY <1>3, <1>4, <1>5, <2>1, <2>2, <2>4, <2>5 DEF Partition, Apart
  <2> QED BY <2>2, <2>3, <2>6 DEF IInv
<1>8. CASE TakePdf(file)
  <2>1. /\ pending' = Tail(pending) /\ StartJob("parse", file)
        /\ UNCHANGED <<errors, passports, opened>>
    BY <1>8 DEF TakePdf
  <2>2. reader' = [pc |-> "poll", job |-> "parse", file |-> file, attempt |-> 1, expired |-> FALSE]
    BY <2>1 DEF StartJob
  <2>3. ThreadOK' /\ AtHand' = {file}
    BY <2>2, ReaderAssumption DEF ThreadOK, AtHand, Thread
  <2>4. QueueOK'
    BY <1>1, <1>2, <1>3, <2>1 DEF QueueOK
  <2>5. Known' = Known
    BY <1>1, <2>1 DEF Known
  <2>6. In(pending)' = In(pending) \ {file}
    BY <1>3, <2>1
  <2>7. Partition'
    BY <1>3, <1>4, <1>5, <2>1, <2>3, <2>5, <2>6 DEF Partition, Apart
  <2> QED BY <2>3, <2>4, <2>7 DEF IInv
<1>9. CASE TakeArchive(file)
  <2>1. /\ pending' = Tail(pending) \o Members[file] /\ opened' = opened \cup {file}
        /\ UNCHANGED <<errors, passports, reader>>
    BY <1>9 DEF TakeArchive
  <2>2. AtHand' = {}
    BY <1>5, <2>1 DEF AtHand
  <2>3. ThreadOK'
    BY <1>1, <1>5, <2>1 DEF ThreadOK
  <2>4. /\ Members[file] \in Seq(File)
        /\ \A i, j \in DOMAIN Members[file] : Members[file][i] = Members[file][j] => i = j
    BY ReaderAssumption, IdAssumption
  <2>5. In(Members[file]) \cap Known = {}
    <3> SUFFICES ASSUME NEW j \in DOMAIN Members[file], Members[file][j] \in Known PROVE FALSE
      BY DEF In
    <3>1. CASE Members[file][j] \in In(given)
      BY <1>2, <3>1, IdAssumption DEF In
    <3>2. CASE Members[file][j] \in UNION {In(Members[a]) : a \in opened}
      <4>1. PICK a \in opened : Members[file][j] \in In(Members[a])
        BY <3>2
      <4>2. a = file
        BY <1>2, <4>1, IdAssumption DEF In
      <4> QED BY <1>3, <1>4, <4>2 DEF Apart
    <3> QED BY <3>1, <3>2 DEF Known
  <2>6. In(Tail(pending)) \cap In(Members[file]) = {}
    BY <1>3, <1>4, <2>5
  <2>7. /\ pending' \in Seq(File)
        /\ In(pending)' = (In(pending) \ {file}) \cup In(Members[file])
        /\ \A i, j \in DOMAIN pending' : pending'[i] = pending'[j] => i = j
    BY <1>3, <2>1, <2>4, <2>6, ConcatOfDistinct
  <2>8. QueueOK'
    BY <1>1, <1>2, <2>1, <2>7 DEF QueueOK
  <2>9. Known' = Known \cup In(Members[file])
    BY <1>1, <2>1 DEF Known
  <2>10. Partition'
    BY <1>3, <1>4, <1>5, <2>1, <2>2, <2>5, <2>7, <2>9 DEF Partition, Apart
  <2> QED BY <2>3, <2>8, <2>10 DEF IInv
<1> QED BY <1>6, <1>7, <1>8, <1>9 DEF Take

\* What parse and OCR do to a file that gave no answer.
LEMMA DropKeeps ==
  ASSUME IInv, reader.pc \in {"poll", "alive"}, Drop, UNCHANGED <<given, pending, passports, opened>>
  PROVE  IInv'
<1>1. CASE reader.job = "parse"
  BY <1>1, Answers DEF Drop
<1>2. CASE reader.job # "parse"
  BY <1>2, Fails DEF Drop
<1> QED BY <1>1, <1>2

\* A poll, its answers and its deadline.
LEMMA GuardKeeps ==
  ASSUME IInv, Guard \/ Expire
  PROVE  IInv'
<1>1. /\ UNCHANGED <<given, pending, passports, opened>>
      /\ reader.pc \in {"poll", "alive"}
  BY DEF Guard, Receive, ReceiveEnd, PollNothing, CheckAlive, Repeat, GiveUp, Expire, TimedOut
<1>2. /\ reader \in Thread({"parse", "ocr"}) /\ reader.file \in File /\ reader.attempt \in 1..ParseAttempts
      /\ ThreadOK
  BY <1>1 DEF IInv, ThreadOK, Thread
<1>3. ASSUME NEW r \in Thread({"parse", "ocr"}), reader' = r, r.pc \in {"poll", "alive", "bands"},
             r.file = reader.file, r.attempt >= 1, UNCHANGED errors
      PROVE  IInv'
  <2>1. ThreadOK'
    BY <1>1, <1>2, <1>3 DEF ThreadOK, Thread
  <2> QED BY <1>1, <1>3, <2>1, Stays
<1>4. CASE Receive
  <2>1. CASE StartJob("ocr", Current) /\ UNCHANGED errors
    <3> DEFINE r == [pc |-> "poll", job |-> "ocr", file |-> Current, attempt |-> 1, expired |-> FALSE]
    <3>1. r \in Thread({"parse", "ocr"}) /\ r.file = reader.file /\ r.attempt >= 1 /\ reader' = r
          /\ r.pc = "poll"
      BY <1>2, <2>1, ReaderAssumption DEF Thread, Current, StartJob
    <3> QED BY <1>3, <2>1, <3>1
  <2>2. CASE reader' = [reader EXCEPT !.pc = "bands"] /\ UNCHANGED errors
    BY <1>2, <1>3, <2>2 DEF Thread
  <2>3. CASE Drop
    BY <1>1, <2>3, DropKeeps
  <2>4. CASE Leave("failed")
    BY <1>1, <2>4, Fails
  <2> QED BY <1>4, <2>1, <2>2, <2>3, <2>4 DEF Receive
<1>5. CASE ReceiveEnd
  BY <1>1, <1>5, Fails DEF ReceiveEnd
<1>6. CASE PollNothing
  BY <1>2, <1>3, <1>6 DEF PollNothing, Thread
<1>7. CASE CheckAlive
  <2>1. CASE Dead
    BY <1>1, <1>7, <2>1, DropKeeps DEF CheckAlive
  <2>2. CASE ~Dead
    BY <1>2, <1>3, <1>7, <2>2 DEF CheckAlive, Thread
  <2> QED BY <2>1, <2>2
<1>8. CASE Repeat
  <2>1. reader' = Restarted /\ MayRepeat /\ UNCHANGED errors
    BY <1>8 DEF Repeat
  <2>2. reader.attempt + 1 \in 1..ParseAttempts /\ ParseAttempts \in Nat
    BY <1>2, <2>1, ReaderAssumption DEF MayRepeat
  <2> DEFINE counted == [reader EXCEPT !.attempt = reader.attempt + 1]
  <2>3. Restarted = [counted EXCEPT !.expired = FALSE]
    BY <1>2 DEF Restarted, Thread
  <2>4. /\ counted \in Thread({"parse", "ocr"}) /\ counted.attempt >= 1
        /\ counted.file = reader.file /\ counted.pc = reader.pc
    BY <1>2, <2>2 DEF Thread
  <2> HIDE DEF counted
  <2>5. /\ Restarted \in Thread({"parse", "ocr"}) /\ Restarted.attempt = counted.attempt
        /\ Restarted.file = counted.file /\ Restarted.pc = counted.pc
    BY <2>3, <2>4 DEF Thread
  <2> QED BY <1>1, <1>3, <2>1, <2>4, <2>5
<1>9. CASE GiveUp
  <2>1. CASE Drop
    BY <1>1, <2>1, DropKeeps
  <2>2. CASE reader' = [reader EXCEPT !.pc = "bands"] /\ UNCHANGED errors
    BY <1>2, <1>3, <2>2 DEF Thread
  <2> QED BY <1>9, <2>1, <2>2 DEF GiveUp
<1>10. CASE Expire
  <2>1. reader' = [reader EXCEPT !.expired = TRUE] /\ UNCHANGED errors
    BY <1>10 DEF Expire
  <2>2. [reader EXCEPT !.expired = TRUE] \in Thread({"parse", "ocr"})
    BY <1>2 DEF Thread
  <2>3. /\ [reader EXCEPT !.expired = TRUE].pc = reader.pc
        /\ [reader EXCEPT !.expired = TRUE].file = reader.file
        /\ [reader EXCEPT !.expired = TRUE].attempt >= 1
    BY <1>2 DEF Thread
  <2> QED BY <1>1, <1>3, <2>1, <2>2, <2>3
<1> QED BY <1>4, <1>5, <1>6, <1>7, <1>8, <1>9, <1>10 DEF Guard

\* No child moves a file.
LEMMA ChildKeeps ==
  ASSUME IInv, Child \/ UNCHANGED vars
  PROVE  IInv'
<1>1. UNCHANGED <<given, pending, errors, passports, opened, reader>>
  BY DEF Child, ChildParses, ChildOpens, PoolBreaks, SendPages, ChildExits, ChildDies,
         WorkerReads, Collect, CollectLost, ReadHere, OnlyChild, vars
<1>2. Known' = Known /\ AtHand' = AtHand
  BY <1>1 DEF Known, AtHand
<1> QED BY <1>1, <1>2 DEF IInv, ThreadOK, QueueOK, Partition, Apart

\* Every step keeps the invariant.
LEMMA NextKeeps == IInv /\ [Next]_vars => IInv'
<1> SUFFICES ASSUME IInv, [Next]_vars PROVE IInv'
  OBVIOUS
<1>1. ASSUME NEW file \in File, Take(file) PROVE IInv'
  BY <1>1, TakeKeeps
<1>2. CASE MakePassport
  <2>1. DOMAIN passports' = DOMAIN passports \cup {Current}
    BY <1>2 DEF MakePassport
  <2> QED BY <1>2, <2>1, Answers DEF MakePassport
<1>3. CASE End
  <2>1. /\ reader.pc = "next" /\ pending = <<>> /\ Leave("ended")
        /\ UNCHANGED <<given, pending, errors, passports, opened>>
    BY <1>3 DEF End
  <2>2. ThreadOK' /\ reader'.file = NoFile
    BY <2>1, Leaves
  <2>3. reader.file = NoFile
    BY <2>1 DEF IInv, ThreadOK, Thread
  <2> QED BY <2>1, <2>2, <2>3, Stays
<1>4. CASE Guard \/ Expire
  BY <1>4, GuardKeeps
<1>5. CASE Child \/ UNCHANGED vars
  BY <1>5, ChildKeeps
<1> QED BY <1>1, <1>2, <1>3, <1>4, <1>5 DEF Next

-----------------------------------------------------------------------------
(* What the files are read as.                                             *)

\* The child has its shape. An OCR child reads the pages the layer leaves empty:
\* what it has filled it read alone and without faults, unless it is marred, and
\* what it sends is filled everywhere.
ChildOK ==
  /\ child = [st |-> child.st, answer |-> child.answer, tasks |-> child.tasks,
              filled |-> child.filled, marred |-> child.marred]
  /\ reader.pc \in {"poll", "alive"} /\ reader.job = "ocr" =>
       /\ document = Layer[Current] /\ WantsOcr(Layer[Current])
       /\ child.st = "works" => child = NewChild
       /\ child.st \in {"pool", "here", "sent", "gone"} =>
            /\ DOMAIN child.tasks = Targets(document)
            /\ child.filled = [p \in DOMAIN child.filled |-> child.filled[p]]
            /\ DOMAIN child.filled \subseteq Targets(document)
            /\ ~child.marred => \A p \in DOMAIN child.filled : child.filled[p] = OcrOf[Current][p]
       /\ child.st \in {"sent", "gone"} => DOMAIN child.filled = Targets(document)

\* The thread reads a PDF, and has its pages before it makes the passport.
PagesOK ==
  /\ reader.pc \in {"poll", "alive", "bands"} => Form[Current] = "pdf"
  /\ reader.pc = "bands" /\ Current \notin blind \cup marred => document = Full[Current]

Reading == ChildOK /\ PagesOK /\ DOMAIN passports \subseteq File /\ ReadAsAlone

\* Child and thread that the steps of this section make.
LEMMA FreshChild == /\ NewChild.st = "works" /\ NoChild.st = "none"
                    /\ NewChild = [st |-> "works", answer |-> "none", tasks |-> <<>>,
                                   filled |-> <<>>, marred |-> FALSE]
<1>1. NoChild = [st |-> "none", answer |-> "none", tasks |-> <<>>, filled |-> <<>>,
                 marred |-> FALSE]
  BY DEF NoChild
<1>2. NewChild = [[st |-> "none", answer |-> "none", tasks |-> <<>>, filled |-> <<>>,
                   marred |-> FALSE] EXCEPT !.st = "works"]
  BY <1>1 DEF NewChild
<1> QED BY <1>1, <1>2

LEMMA InitReading == Init => Reading
BY DEF Init, Reading, ChildOK, PagesOK, ReadAsAlone, NoChild, Between

\* What a child filled makes of the layer what the document is read as alone.
LEMMA FilledIsFull ==
  ASSUME NEW f \in File, WantsOcr(Layer[f]), NEW filled,
         filled = [p \in Targets(Layer[f]) |-> OcrOf[f][p]]
  PROVE  Fill(Layer[f], filled) = Full[f]
BY DEF Full

\* A file is left: nothing is at hand.
LEMMA LeaveReads ==
  ASSUME Reading, NEW end \in {"next", "failed", "ended"}, Leave(end), UNCHANGED passports,
         blind \subseteq blind', marred \subseteq marred'
  PROVE  Reading'
<1>1. reader'.pc = end /\ child' = NoChild
  BY DEF Leave, Between
<1> QED BY <1>1 DEF Reading, ChildOK, PagesOK, ReadAsAlone, NoChild

LEMMA TakeReads ==
  ASSUME IInv, Reading, NEW file \in File, Take(file)
  PROVE  Reading'
<1>1. reader.pc = "next" /\ UNCHANGED <<blind, marred>>
  BY DEF Take, TakeUnreadable, TakeText, TakeArchive, TakePdf, Taken, Refuse
<1>2. CASE TakeUnreadable(file) \/ TakeArchive(file)
  <2>1. UNCHANGED <<passports, reader, child, document>>
    BY <1>2 DEF TakeUnreadable, TakeArchive, Refuse
  <2> QED BY <1>1, <2>1 DEF Reading, ChildOK, PagesOK, ReadAsAlone, Current
<1>3. CASE TakeText(file)
  <2>1. /\ UNCHANGED <<reader, child, document>> /\ Form[file] = "text"
        /\ passports' = [g \in DOMAIN passports \cup {file} |->
                           IF g = file THEN OfText[file] ELSE passports[g]]
    BY <1>3 DEF TakeText
  <2>2. Alone[file] = OfText[file]
    BY <2>1 DEF Alone
  <2>3. ReadAsAlone' /\ DOMAIN passports' \subseteq File
    BY <1>1, <2>1, <2>2 DEF Reading, ReadAsAlone
  <2> QED BY <1>1, <2>1, <2>3 DEF Reading, ChildOK, PagesOK, Current
<1>4. CASE TakePdf(file)
  <2>1. /\ UNCHANGED passports /\ child' = NewChild /\ Form[file] = "pdf"
        /\ reader' = [pc |-> "poll", job |-> "parse", file |-> file, attempt |-> 1, expired |-> FALSE]
    BY <1>4 DEF TakePdf, StartJob
  <2>2. reader'.pc = "poll" /\ reader'.job = "parse" /\ reader'.file = file
    BY <2>1
  <2>3. ChildOK' /\ PagesOK'
    BY <2>1, <2>2, FreshChild DEF ChildOK, PagesOK, Current
  <2> QED BY <1>1, <2>1, <2>3 DEF Reading, ReadAsAlone
<1> QED BY <1>2, <1>3, <1>4 DEF Take

LEMMA MakePassportReads ==
  ASSUME IInv, Reading, MakePassport
  PROVE  Reading'
<1>1. /\ reader.pc = "bands" /\ Leave("next") /\ UNCHANGED <<blind, marred>>
      /\ passports' = [g \in DOMAIN passports \cup {Current} |->
                         IF g = Current THEN OfPdf(Current, document) ELSE passports[g]]
  BY DEF MakePassport
<1>2. Current \in File /\ Form[Current] = "pdf"
  BY <1>1 DEF IInv, ThreadOK, Reading, PagesOK, Current
<1>3. Current \notin blind \cup marred => OfPdf(Current, document) = Alone[Current]
  BY <1>1, <1>2 DEF Reading, PagesOK, Alone
<1>4. ReadAsAlone' /\ DOMAIN passports' \subseteq File
  BY <1>1, <1>2, <1>3 DEF Reading, ReadAsAlone
<1>5. reader'.pc = "next" /\ child' = NoChild
  BY <1>1 DEF Leave, Between
<1> QED BY <1>4, <1>5 DEF Reading, ChildOK, PagesOK, NoChild

\* The thread goes on with the file at hand.
LEMMA GuardReads ==
  ASSUME IInv, Reading, Guard \/ Expire
  PROVE  Reading'
<1>1. /\ UNCHANGED passports
      /\ reader.pc \in {"poll", "alive"}
      /\ blind \subseteq blind' /\ marred \subseteq marred'
  BY DEF Guard, Receive, ReceiveEnd, PollNothing, CheckAlive, Repeat, GiveUp, Expire, TimedOut
<1>2. /\ reader \in Thread({"parse", "ocr"}) /\ Current \in File /\ Form[Current] = "pdf"
  BY <1>1 DEF IInv, ThreadOK, Thread, Reading, PagesOK, Current
<1>3. ReadAsAlone' /\ DOMAIN passports' \subseteq File
  BY <1>1 DEF Reading, ReadAsAlone
<1>4. ASSUME Drop \/ Leave("failed") PROVE Reading'
  BY <1>1, <1>4, LeaveReads DEF Drop
<1>5. ASSUME reader' = [reader EXCEPT !.pc = "bands"], child' = NoChild,
             Current \notin blind' \cup marred' => document' = Full[Current]
      PROVE  Reading'
  <2>1. reader'.pc = "bands" /\ reader'.file = reader.file
    BY <1>2, <1>5 DEF Thread
  <2> QED BY <1>2, <1>3, <1>5, <2>1 DEF Reading, ChildOK, PagesOK, Current, NoChild
<1>6. CASE Receive
  <2>1. CASE /\ child.answer = "ok" /\ reader.job = "parse" /\ WantsOcr(Layer[Current])
             /\ document' = Layer[Current] /\ StartJob("ocr", Current)
    <3>1. /\ reader'.pc = "poll" /\ reader'.job = "ocr" /\ reader'.file = Current
          /\ child' = NewChild
      BY <2>1 DEF StartJob
    <3>2. ChildOK' /\ PagesOK'
      BY <1>2, <2>1, <3>1, FreshChild DEF ChildOK, PagesOK, Current
    <3> QED BY <1>3, <3>2 DEF Reading
  <2>2. CASE /\ child.answer = "ok" /\ reader.job = "parse" /\ ~WantsOcr(Layer[Current])
             /\ document' = Layer[Current] /\ reader' = [reader EXCEPT !.pc = "bands"]
             /\ child' = NoChild
    <3>1. Full[Current] = Layer[Current]
      BY <1>2, <2>2 DEF Full
    <3> QED BY <1>5, <2>2, <3>1
  <2>3. CASE /\ child.answer = "ok" /\ reader.job = "ocr"
             /\ document' = Fill(document, child.filled)
             /\ reader' = [reader EXCEPT !.pc = "bands"] /\ child' = NoChild
             /\ marred' = IF child.marred THEN marred \cup {Current} ELSE marred
    <3>1. child.st \in {"sent", "gone"}
      BY <1>6 DEF Receive, Sent
    <3>2. /\ document = Layer[Current] /\ WantsOcr(Layer[Current])
          /\ child.filled = [p \in DOMAIN child.filled |-> child.filled[p]]
          /\ DOMAIN child.filled = Targets(document)
          /\ ~child.marred => \A p \in DOMAIN child.filled : child.filled[p] = OcrOf[Current][p]
      BY <1>1, <2>3, <3>1 DEF Reading, ChildOK
    <3>3. ASSUME Current \notin marred' PROVE document' = Full[Current]
      <4>1. ~child.marred
        BY <2>3, <3>3
      <4>2. child.filled = [p \in Targets(Layer[Current]) |-> OcrOf[Current][p]]
        BY <3>2, <4>1
      <4> QED BY <1>2, <2>3, <3>2, <4>2, FilledIsFull
    <3> QED BY <1>5, <2>3, <3>3
  <2> QED BY <1>4, <1>6, <2>1, <2>2, <2>3 DEF Receive
<1>7. CASE ReceiveEnd
  BY <1>4, <1>7 DEF ReceiveEnd
<1>8. CASE PollNothing \/ Expire \/ (CheckAlive /\ ~Dead)
  <2>1. /\ UNCHANGED <<child, document, blind, marred>>
        /\ reader'.pc \in {"poll", "alive"} /\ reader'.job = reader.job
        /\ reader'.file = reader.file
    BY <1>1, <1>2, <1>8 DEF PollNothing, Expire, CheckAlive, Thread
  <2> QED BY <1>1, <1>2, <1>3, <2>1 DEF Reading, ChildOK, PagesOK, Current
<1>9. CASE CheckAlive /\ Dead
  BY <1>4, <1>9 DEF CheckAlive
<1>10. CASE Repeat
  <2>1. /\ UNCHANGED <<document, blind, marred>> /\ child' = NewChild
        /\ reader'.pc = reader.pc /\ reader'.job = reader.job /\ reader'.file = reader.file
    BY <1>2, <1>10 DEF Repeat, Restarted, Thread
  <2>2. ChildOK' /\ PagesOK'
    BY <1>1, <1>2, <2>1, FreshChild DEF Reading, ChildOK, PagesOK, Current
  <2> QED BY <1>3, <2>2 DEF Reading
<1>11. CASE GiveUp
  <2>1. CASE Drop
    BY <1>4, <2>1
  <2>2. CASE /\ reader' = [reader EXCEPT !.pc = "bands"] /\ child' = NoChild
             /\ blind' = blind \cup {Current}
    BY <1>5, <2>2
  <2> QED BY <1>11, <2>1, <2>2 DEF GiveUp
<1> QED BY <1>6, <1>7, <1>8, <1>9, <1>10, <1>11 DEF Guard

\* A child that reads pages.
LEMMA ChildReads ==
  ASSUME IInv, Reading, Child
  PROVE  Reading'
<1>1. UNCHANGED <<passports, reader, document, blind, marred>>
  BY DEF Child, ChildParses, ChildOpens, PoolBreaks, SendPages, ChildExits, ChildDies,
         WorkerReads, Collect, CollectLost, ReadHere, OnlyChild
<1>2. SUFFICES ChildOK'
  BY <1>1 DEF Reading, PagesOK, ReadAsAlone, Current
<1>3. /\ child = [st |-> child.st, answer |-> child.answer, tasks |-> child.tasks,
                  filled |-> child.filled, marred |-> child.marred]
  BY DEF Reading, ChildOK
<1> DEFINE Busy == reader.pc \in {"poll", "alive"} /\ reader.job = "ocr"
           Shape(c) == c = [st |-> c.st, answer |-> c.answer, tasks |-> c.tasks,
                            filled |-> c.filled, marred |-> c.marred]
           Right(c) == /\ c.filled = [p \in DOMAIN c.filled |-> c.filled[p]]
                       /\ DOMAIN c.tasks = Targets(document)
                       /\ DOMAIN c.filled \subseteq Targets(document)
                       /\ ~c.marred => \A p \in DOMAIN c.filled : c.filled[p] = OcrOf[Current][p]
<1>4. ASSUME Shape(child'), child'.st # "works",
             Busy /\ child'.st \in {"pool", "here", "sent", "gone"} => Right(child'),
             Busy /\ child'.st \in {"sent", "gone"} => DOMAIN child'.filled = Targets(document)
      PROVE  ChildOK'
  <2>1. Busy => document = Layer[Current] /\ WantsOcr(Layer[Current])
    BY DEF Reading, ChildOK
  <2>2. Busy /\ child'.st \in {"pool", "here", "sent", "gone"} =>
          /\ DOMAIN child'.tasks = Targets(document)
          /\ child'.filled = [p \in DOMAIN child'.filled |-> child'.filled[p]]
          /\ DOMAIN child'.filled \subseteq Targets(document)
          /\ ~child'.marred => \A p \in DOMAIN child'.filled : child'.filled[p] = OcrOf[Current][p]
    BY <1>4
  <2> QED BY <1>1, <1>4, <2>1, <2>2 DEF ChildOK, Current
<1>5. Busy /\ child.st \in {"pool", "here", "sent", "gone"} => Right(child)
  BY DEF Reading, ChildOK
<1>6. CASE ChildParses
  <2> DEFINE answer == IF Damage[Current] = "none" THEN "ok" ELSE Damage[Current]
  <2>1. child' = [child EXCEPT !.st = "sent", !.answer = answer] /\ ~Busy
    BY <1>6 DEF ChildParses
  <2> HIDE DEF answer
  <2>2. Shape(child') /\ child'.st = "sent"
    BY <1>3, <2>1
  <2> QED BY <1>4, <2>1, <2>2
<1>7. CASE ChildDies
  <2>1. Shape(child') /\ child'.st = "dead"
    BY <1>3, <1>7 DEF ChildDies
  <2> QED BY <1>4, <2>1
<1>8. CASE ChildOpens
  <2> DEFINE st == IF Cardinality(Targets(document)) < 2 THEN "here" ELSE "pool"
             tasks == [p \in Targets(document) |-> "waits"]
  <2>1. child' = [child EXCEPT !.st = st, !.tasks = tasks]
    BY <1>8 DEF ChildOpens
  <2>2. DOMAIN tasks = Targets(document) /\ st \in {"here", "pool"}
    OBVIOUS
  <2> HIDE DEF st, tasks
  <2>3. Shape(child') /\ child'.st = st /\ child'.tasks = tasks /\ child'.filled = child.filled
    BY <1>3, <2>1
  <2>4. Busy => child.filled = <<>>
    BY <1>8, FreshChild DEF Reading, ChildOK, ChildOpens
  <2>5. <<>> \in [{} -> {}]
    OBVIOUS
  <2>6. DOMAIN <<>> = {} /\ <<>> = [p \in DOMAIN <<>> |-> <<>>[p]]
    BY <2>5
  <2>7. Busy => Right(child')
    BY <2>2, <2>3, <2>4, <2>6
  <2> QED BY <1>4, <2>2, <2>3, <2>7
<1>9. CASE PoolBreaks \/ (\E p \in DOMAIN document : WorkerReads(p))
  <2>1. child.st = "pool" /\ \E t : child' = [child EXCEPT !.tasks = t] /\ DOMAIN t = DOMAIN child.tasks
    <3>1. CASE PoolBreaks
      <4> DEFINE t == [p \in DOMAIN child.tasks |->
                         IF child.tasks[p] = "waits" THEN "lost" ELSE child.tasks[p]]
      <4>1. child.st = "pool" /\ child' = [child EXCEPT !.tasks = t]
        BY <3>1 DEF PoolBreaks
      <4>2. DOMAIN t = DOMAIN child.tasks
        OBVIOUS
      <4> HIDE DEF t
      <4> QED BY <4>1, <4>2
    <3>2. ASSUME NEW p \in DOMAIN document, WorkerReads(p)
          PROVE  child.st = "pool" /\ \E t : child' = [child EXCEPT !.tasks = t] /\ DOMAIN t = DOMAIN child.tasks
      <4>1. PICK u \in {"read", "raised"} : child' = [child EXCEPT !.tasks[p] = u]
        BY <3>2 DEF WorkerReads
      <4>2. child' = [child EXCEPT !.tasks = [child.tasks EXCEPT ![p] = u]]
        BY <1>3, <4>1
      <4>3. DOMAIN [child.tasks EXCEPT ![p] = u] = DOMAIN child.tasks
        OBVIOUS
      <4> QED BY <3>2, <4>2, <4>3 DEF WorkerReads
    <3> QED BY <1>9, <3>1, <3>2
  <2>2. PICK t : child' = [child EXCEPT !.tasks = t] /\ DOMAIN t = DOMAIN child.tasks
    BY <2>1
  <2>3. /\ Shape(child') /\ child'.st = child.st /\ child'.filled = child.filled
        /\ child'.marred = child.marred /\ child'.tasks = t
    BY <1>3, <2>2
  <2> QED BY <1>4, <1>5, <2>1, <2>2, <2>3
<1>10. ASSUME NEW p, Collect(p) \/ ReadHere(p)
       PROVE  ChildOK'
  <2>1. PICK w : /\ child.st \in {"pool", "here"} /\ p \in Unfilled
                 /\ \/ child' = [child EXCEPT !.filled = Filled(p, w)] /\ w = OcrOf[Current][p]
                    \/ child' = [child EXCEPT !.filled = Filled(p, w), !.marred = TRUE]
    BY <1>10 DEF Collect, ReadHere, NextPage
  <2> DEFINE filled == Filled(p, w)
  <2>2. /\ DOMAIN filled = DOMAIN child.filled \cup {p}
        /\ \A q \in DOMAIN child.filled \cup {p} :
             filled[q] = IF q = p THEN w ELSE child.filled[q]
        /\ filled = [q \in DOMAIN filled |-> filled[q]]
    BY DEF Filled
  <2> HIDE DEF filled
  <2>3. /\ Shape(child') /\ child'.st = child.st /\ child'.tasks = child.tasks
        /\ child'.filled = filled
        /\ ~child'.marred => ~child.marred /\ w = OcrOf[Current][p]
    <3>1. CASE child' = [child EXCEPT !.filled = filled] /\ w = OcrOf[Current][p]
      BY <1>3, <3>1
    <3>2. CASE child' = [child EXCEPT !.filled = filled, !.marred = TRUE]
      BY <1>3, <3>2
    <3> QED BY <2>1, <3>1, <3>2 DEF filled
  <2>4. Busy => Right(child')
    BY <1>5, <2>1, <2>2, <2>3 DEF Unfilled
  <2> QED BY <1>4, <2>1, <2>3, <2>4
<1>11. CASE (\E p \in DOMAIN document : CollectLost(p)) \/ SendPages \/ ChildExits
  <2>1. \/ /\ child' = [child EXCEPT !.st = "here"] /\ child.st = "pool"
        \/ /\ child' = [child EXCEPT !.st = "sent", !.answer = "ok"]
           /\ child.st \in {"pool", "here"} /\ Unfilled = {}
        \/ /\ child' = [child EXCEPT !.st = "gone"] /\ child.st = "sent"
    BY <1>11 DEF CollectLost, Reread, SendPages, ChildExits
  <2>2. /\ Shape(child') /\ child'.st \in {"here", "sent", "gone"}
        /\ child'.tasks = child.tasks /\ child'.filled = child.filled
        /\ child'.marred = child.marred
    BY <1>3, <2>1
  <2>3. child'.st = "sent" => Unfilled = {}
    BY <1>3, <2>1
  <2>4. child'.st = "gone" => child.st = "sent"
    BY <1>3, <2>1
  <2>5. Busy /\ child.st = "sent" => DOMAIN child.filled = Targets(document)
    BY DEF Reading, ChildOK
  <2>6. Busy => Right(child')
    BY <1>5, <2>1, <2>2
  <2>7. Busy /\ child'.st \in {"sent", "gone"} => DOMAIN child'.filled = Targets(document)
    BY <2>2, <2>3, <2>4, <2>5, <2>6 DEF Unfilled
  <2> QED BY <1>4, <2>2, <2>6, <2>7
<1> QED BY <1>6, <1>7, <1>8, <1>9, <1>10, <1>11 DEF Child

LEMMA NextReads == IInv /\ Reading /\ [Next]_vars => Reading'
<1> SUFFICES ASSUME IInv, Reading, [Next]_vars PROVE Reading'
  OBVIOUS
<1>1. CASE End
  BY <1>1, LeaveReads DEF End
<1>2. CASE UNCHANGED vars
  BY <1>2 DEF vars, Reading, ChildOK, PagesOK, ReadAsAlone, Current
<1> QED BY <1>1, <1>2, TakeReads, MakePassportReads, GuardReads, ChildReads DEF Next

-----------------------------------------------------------------------------
(* Numbers and places.                                                     *)

\* Of some numbers one is the least.
LEMMA LeastNumber ==
  ASSUME NEW S, S \subseteq Nat, S # {}
  PROVE  \E m \in S : \A k \in S : m <= k
<1>1. PICK n \in S : TRUE
  OBVIOUS
<1> DEFINE upTo == {0..k : k \in {j \in S : j <= n}}
<1>2. upTo \subseteq FiniteSubsetsOf(0..n) /\ upTo # {}
  <2>1. ASSUME NEW k \in S, k <= n
        PROVE  IsFiniteSet(0..k) /\ 0..k \subseteq 0..n
    BY <1>1, <2>1, FS_Interval
  <2> QED BY <1>1, <2>1 DEF FiniteSubsetsOf
<1>3. PICK U \in upTo : \A V \in upTo : ~(<<V, U>> \in StrictSubsetOrdering(0..n))
  <2>1. IsFiniteSet(0..n)
    BY <1>1, FS_Interval
  <2> HIDE DEF upTo
  <2> QED BY <1>2, <2>1, FS_StrictSubsetOrderingWellFounded, WFMin
<1>4. PICK m \in S : m <= n /\ U = 0..m
  BY <1>3
<1>5. ASSUME NEW k \in S, k < m
      PROVE  FALSE
  <2>1. k <= n /\ k \in Nat /\ m \in Nat /\ n \in Nat
    BY <1>1, <1>4, <1>5
  <2>2. 0..k \in upTo
    BY <2>1
  <2>3. /\ 0..k \subseteq 0..m /\ 0..m \subseteq 0..n
        /\ m \in 0..m /\ m \notin 0..k
    BY <1>4, <1>5, <2>1
  <2>4. <<0..k, U>> \in StrictSubsetOrdering(0..n)
    BY <1>4, <2>3 DEF StrictSubsetOrdering
  <2> QED BY <1>3, <2>2, <2>4
<1> QED BY <1>4, <1>5

\* A set of numbers has an n-th.
LEMMA NthIn ==
  ASSUME NEW I, I \subseteq Nat, IsFiniteSet(I), NEW n \in 1..Cardinality(I)
  PROVE  Nth(I, n) \in I
<1> DEFINE below(k) == {i \in I : i < k}
           before == [k \in I |-> Cardinality(below(k))]
           c == Cardinality(I)
<1>1. c \in Nat
  BY FS_CardinalityType
<1>2. ASSUME NEW k \in I
      PROVE  IsFiniteSet(below(k)) /\ Cardinality(below(k)) \in 0..(c - 1)
  <2>1. below(k) \subseteq I /\ k \notin below(k)
    OBVIOUS
  <2> HIDE DEF below
  <2>2. /\ IsFiniteSet(below(k)) /\ Cardinality(below(k)) <= c
        /\ Cardinality(below(k)) # c
    BY <2>1, FS_Subset
  <2>3. Cardinality(below(k)) \in Nat
    BY <2>2, FS_CardinalityType
  <2> QED BY <1>1, <2>2, <2>3
<1>3. ASSUME NEW j \in I, NEW k \in I, j < k
      PROVE  Cardinality(below(j)) # Cardinality(below(k))
  <2>1. j \in below(k) /\ j \notin below(j)
    BY <1>3
  <2>2. below(j) \subseteq below(k)
    <3> SUFFICES ASSUME NEW i \in below(j) PROVE i \in below(k)
      OBVIOUS
    <3>1. i \in I /\ i < j
      OBVIOUS
    <3> HIDE DEF below
    <3>2. i < k
      BY <1>3, <3>1
    <3> USE DEF below
    <3> QED BY <3>1, <3>2
  <2> HIDE DEF below
  <2> QED BY <1>2, <2>1, <2>2, FS_Subset
<1> HIDE DEF below
<1>4. before \in Injection(I, 0..(c - 1))
  <2>1. \A j, k \in I : before[j] = before[k] => j = k
    <3> SUFFICES ASSUME NEW j \in I, NEW k \in I, before[j] = before[k], j # k PROVE FALSE
      OBVIOUS
    <3>1. j < k \/ k < j
      OBVIOUS
    <3> QED BY <1>3, <3>1
  <2>2. before \in [I -> 0..(c - 1)]
    BY <1>2
  <2> HIDE DEF before
  <2> QED BY <2>1, <2>2 DEF Injection, IsInjective
<1>5. IsFiniteSet(0..(c - 1)) /\ Cardinality(0..(c - 1)) = c
  <2>1. 0 \in Int /\ c - 1 \in Int /\ (0 > c - 1 => c = 0) /\ (c - 1) - 0 + 1 = c
    BY <1>1
  <2> HIDE DEF c
  <2> QED BY <2>1, FS_Interval
<1>6. before \in Surjection(I, 0..(c - 1))
  BY <1>4, <1>5, FS_Injection
<1>7. n - 1 \in 0..(c - 1)
  BY <1>1
<1>8. \E k \in I : before[k] = n - 1
  BY <1>6, <1>7 DEF Surjection
<1>9. \E k \in I : Cardinality({i \in I : i < k}) = n - 1
  BY <1>8 DEF below
<1> QED BY <1>9 DEF Nth

\* The words at some places of a list are words in a row.
LEMMA WordsAtTyped ==
  ASSUME NEW n \in Nat, NEW list, DOMAIN list = 1..n, \A i \in 1..n : list[i].word \in Word,
         NEW places \in SUBSET (1..n)
  PROVE  WordsAt(list, places) \in Seq(Word)
<1> DEFINE words == [i \in 1..n |-> list[i].word]
           row == Picked(words, places)
           c == Cardinality(places)
<1>1. IsFiniteSet(places) /\ c \in Nat /\ places \subseteq Nat
  <2>1. IsFiniteSet(1..n)
    BY FS_Interval
  <2>2. IsFiniteSet(places)
    BY <2>1, FS_Subset
  <2> QED BY <2>2, FS_CardinalityType
<1>2. \A k \in 1..c : Nth(places, k) \in places
  BY <1>1, NthIn
<1>3. row = [k \in 1..c |-> words[Nth(places, k)]]
  BY DEF Picked
<1>4. \A k \in 1..c : words[Nth(places, k)] \in Word
  BY <1>2
<1> HIDE DEF row, words, c
<1>5. row \in [1..c -> Word]
  BY <1>3, <1>4
<1>6. row \in Seq(Word)
  BY <1>1, <1>5
<1>7. WordsAt(list, places) = row
  BY DEF WordsAt, row, words
<1> QED BY <1>6, <1>7

-----------------------------------------------------------------------------
(* Words in the order they are read.                                       *)

\* The tokens of T whose key has the least j-th part.
Foremost(T, j) == {s \in T : \A t \in T : s.key[j] <= t.key[j]}

LEMMA ForemostIs ==
  ASSUME NEW T, T # {}, NEW j, \A t \in T : t.key[j] \in Nat
  PROVE  Foremost(T, j) # {}
<1> DEFINE parts == {t.key[j] : t \in T}
<1>1. PICK m \in parts : \A k \in parts : m <= k
  <2>1. parts \subseteq Nat /\ parts # {}
    OBVIOUS
  <2> HIDE DEF parts
  <2> QED BY <2>1, LeastNumber
<1>2. PICK s \in T : s.key[j] = m
  BY <1>1
<1>3. \A t \in T : s.key[j] <= t.key[j]
  BY <1>1, <1>2
<1> QED BY <1>2, <1>3 DEF Foremost

\* A token that agrees with a foremost one is foremost too.
LEMMA ForemostStays ==
  ASSUME NEW T, NEW j, NEW s \in Foremost(T, j), NEW u \in T, u.key[j] = s.key[j]
  PROVE  u \in Foremost(T, j)
BY DEF Foremost

\* Keys are those of reading_key.
Keyed(T) == \A t \in T : DOMAIN t.key = 1..5 /\ \A j \in 1..5 : t.key[j] \in Nat

\* Of some tokens one is read first.
LEMMA FirstIs ==
  ASSUME NEW T, T # {}, Keyed(T)
  PROVE  FirstOf(T) \in T
<1> DEFINE A == Foremost(T, 1)
           B == Foremost(A, 2)
           C == Foremost(B, 3)
           D == Foremost(C, 4)
           E == Foremost(D, 5)
<1>1. /\ 1 \in 1..5 /\ 2 \in 1..5 /\ 3 \in 1..5 /\ 4 \in 1..5 /\ 5 \in 1..5
      /\ \A t \in T : \A j \in 1..5 : t.key[j] \in Nat
  BY DEF Keyed
<1>2. E \subseteq D /\ D \subseteq C /\ C \subseteq B /\ B \subseteq A /\ A \subseteq T
  BY DEF Foremost
<1>3. A # {}
  BY <1>1, ForemostIs
<1> HIDE DEF A
<1>4. B # {}
  BY <1>1, <1>2, <1>3, ForemostIs
<1> HIDE DEF B
<1>5. C # {}
  BY <1>1, <1>2, <1>4, ForemostIs
<1> HIDE DEF C
<1>6. D # {}
  BY <1>1, <1>2, <1>5, ForemostIs
<1> HIDE DEF D
<1>7. E # {}
  BY <1>1, <1>2, <1>6, ForemostIs
<1>8. PICK s \in E : TRUE
  BY <1>7
<1>9. s \in T /\ s \in A /\ s \in B /\ s \in C /\ s \in D
  BY <1>2, <1>8
<1> HIDE DEF E
<1>10. ASSUME NEW u \in T, Precedes(u.key, s.key)
       PROVE  FALSE
  <2>1. PICK n \in 1..5 : u.key[n] < s.key[n] /\ \A m \in 1..(n - 1) : u.key[m] = s.key[m]
    BY <1>10 DEF Precedes, Keyed
  <2>2. \A j \in 1..5 : u.key[j] \in Nat /\ s.key[j] \in Nat
    BY <1>1, <1>9
  <2>3. n # 1
    <3>1. s.key[1] <= u.key[1]
      BY <1>9 DEF A, Foremost
    <3> QED BY <2>1, <2>2, <3>1
  <2>4. u \in A
    BY <1>9, <2>1, <2>3, ForemostStays DEF A
  <2>5. n # 2
    <3>1. s.key[2] <= u.key[2]
      BY <1>9, <2>4 DEF B, Foremost
    <3> QED BY <2>1, <2>2, <3>1
  <2>6. u \in B
    BY <1>9, <2>1, <2>3, <2>4, <2>5, ForemostStays DEF B
  <2>7. n # 3
    <3>1. s.key[3] <= u.key[3]
      BY <1>9, <2>6 DEF C, Foremost
    <3> QED BY <2>1, <2>2, <3>1
  <2>8. u \in C
    BY <1>9, <2>1, <2>3, <2>5, <2>6, <2>7, ForemostStays DEF C
  <2>9. n # 4
    <3>1. s.key[4] <= u.key[4]
      BY <1>9, <2>8 DEF D, Foremost
    <3> QED BY <2>1, <2>2, <3>1
  <2>10. u \in D /\ n = 5
    BY <1>9, <2>1, <2>3, <2>5, <2>7, <2>8, <2>9, ForemostStays DEF D
  <2>11. s.key[5] <= u.key[5]
    BY <1>8, <2>10 DEF E, Foremost
  <2> QED BY <2>1, <2>2, <2>10, <2>11
<1>11. \E t \in T : \A u \in T : ~Precedes(u.key, t.key)
  BY <1>9, <1>10
<1> QED BY <1>11 DEF FirstOf

-----------------------------------------------------------------------------
(* What a passport is.                                                     *)

\* Pages of words, and tokens of them.
PagesOfWords(pages) == DOMAIN pages \subseteq Nat /\ \A p \in DOMAIN pages : pages[p] \in Seq(Word)
ReadTokens(T) == Keyed(T) /\ \A t \in T : t.word \in Word

LEMMA FlattenRead ==
  ASSUME NEW pages, PagesOfWords(pages)
  PROVE  ReadTokens(Flatten(pages))
<1> SUFFICES ASSUME NEW p \in DOMAIN pages, NEW i \in DOMAIN pages[p], NEW t,
                    t = [page |-> p, word |-> pages[p][i], key |-> ReadingKey(p, i, pages[p][i])]
             PROVE  t.word \in Word /\ DOMAIN t.key = 1..5 /\ \A j \in 1..5 : t.key[j] \in Nat
  BY DEF Flatten, ReadTokens, Keyed
<1> DEFINE w == pages[p][i]
<1>1. w \in Word /\ p \in Nat /\ i \in Nat
  <2>1. pages[p] \in Seq(Word) /\ p \in Nat
    BY DEF PagesOfWords
  <2> QED BY <2>1
<1>2. w.edge \in Edge /\ w.row \in Nat /\ w.column \in Nat
  BY <1>1 DEF Word
<1> HIDE DEF w
<1>3. Height[w.edge] \in Nat
  BY <1>2 DEF Height, Edge
<1>4. t.word = w /\ t.key = <<p, Height[w.edge], w.row, w.column, i>>
  BY DEF w, ReadingKey
<1> QED BY <1>1, <1>2, <1>3, <1>4

\* The tokens of a part of a page.
LEMMA PartRead ==
  ASSUME NEW T, ReadTokens(T), NEW S \in SUBSET T
  PROVE  /\ ReadTokens(S)
         /\ S # {} => FirstOf(S) \in S /\ FirstOf(S).word \in Word
<1>1. ReadTokens(S)
  BY DEF ReadTokens, Keyed
<1> QED BY <1>1, FirstIs DEF ReadTokens

Text1 == Value \cup {Blank}

LEMMA FirstValueTyped ==
  ASSUME NEW T, ReadTokens(T), NEW kinds
  PROVE  FirstValue(T, kinds) \in Text1
<1>1. Says(T, kinds) \in SUBSET T
  BY DEF Says
<1>2. CASE Says(T, kinds) = {}
  BY <1>2 DEF FirstValue, Text1
<1>3. CASE Says(T, kinds) # {}
  <2>1. FirstOf(Says(T, kinds)).word \in Word
    BY <1>1, <1>3, PartRead
  <2> QED BY <1>3, <2>1 DEF FirstValue, Text1, Word
<1> QED BY <1>2, <1>3

LEMMA OnlyOneTyped ==
  ASSUME NEW values
  PROVE  OnlyOne(values) \in values \cup {Blank}
<1>1. Cardinality(values) = 1 => values # {}
  BY FS_EmptySet
<1> QED BY <1>1 DEF OnlyOne

LEMMA CipherTyped ==
  ASSUME NEW T, ReadTokens(T)
  PROVE  CipherFromText(T) \in Text1
<1> DEFINE said == Says(T, {"designation"})
           values == {t.word.value : t \in said}
           best == {v \in values : \A u \in values : Count(said, v) >= Count(said, u)}
<1>1. values \subseteq Text1
  BY DEF Says, ReadTokens, Word, Text1
<1>2. Designation(T) = OnlyOne(best) /\ best \subseteq values
  BY DEF Designation
<1> HIDE DEF best
<1>3. Designation(T) \in Text1
  BY <1>1, <1>2, OnlyOneTyped DEF Text1
<1> QED BY <1>3, FirstValueTyped DEF CipherFromText

LEMMA RevisionTyped ==
  ASSUME NEW T, ReadTokens(T)
  PROVE  /\ RevisionMark(T).number \in Text1
         /\ RevisionMark(T).kind \in {"", "change", "correction"}
<1> DEFINE said == Says(T, {"change", "correction"})
<1>1. said \in SUBSET T
  BY DEF Says
<1>2. CASE said = {}
  BY <1>2 DEF RevisionMark, Text1
<1>3. CASE said # {}
  <2>1. FirstOf(said) \in said /\ FirstOf(said).word \in Word
    BY <1>1, <1>3, PartRead
  <2>2. FirstOf(said).word.kind \in {"change", "correction"}
    BY <2>1 DEF Says
  <2>3. RevisionMark(T) = [number |-> FirstOf(said).word.value, kind |-> FirstOf(said).word.kind]
    BY <1>3 DEF RevisionMark
  <2> DEFINE word == FirstOf(said).word
  <2>4. word.value \in Text1
    BY <2>1 DEF Text1, Word
  <2> HIDE DEF said
  <2>5. RevisionMark(T).number = word.value /\ RevisionMark(T).kind = word.kind
    BY <2>3
  <2> QED BY <2>2, <2>4, <2>5
<1> QED BY <1>2, <1>3

TypedName(name) ==
  name \in [stem : Value, ciphers : SUBSET Value, sections : SUBSET Value, stage : Text1]

LEMMA IdentityTyped ==
  ASSUME NEW code \in Text1, NEW name, TypedName(name)
  PROVE  /\ IdentityOf(code, name).key \in Text1
         /\ IdentityOf(code, name).basis \in {"STAMP", "FILENAME", "NONE"}
         /\ SectionMarkFromFilename(name) \in Text1
<1> DEFINE cipher == CipherFromFilename(name)
           section == SectionMarkFromFilename(name)
<1>1. cipher \in Text1 /\ section \in Text1 /\ name.stem \in Text1
  BY OnlyOneTyped DEF CipherFromFilename, SectionMarkFromFilename, TypedName, Text1
<1>2. Blank \in Text1
  BY DEF Text1
<1> HIDE DEF cipher, section
<1>3. CASE code # Blank
  BY <1>1, <1>2, <1>3 DEF IdentityOf, cipher, section
<1>4. CASE code = Blank /\ cipher # Blank
  BY <1>1, <1>2, <1>4 DEF IdentityOf, cipher, section
<1>5. CASE code = Blank /\ cipher = Blank /\ section # Blank
  BY <1>1, <1>2, <1>5 DEF IdentityOf, cipher, section
<1>6. CASE code = Blank /\ cipher = Blank /\ section = Blank
  BY <1>1, <1>2, <1>6 DEF IdentityOf, cipher, section
<1> QED BY <1>3, <1>4, <1>5, <1>6

LEMMA ApprovalTyped ==
  ASSUME NEW T, NEW stamp
  PROVE  Approval(T, stamp) \in {"APPROVED", "NOT_APPROVED", "UNKNOWN"}
<1>1. \A S : PageApproval(S) \in {"APPROVED", "NOT_APPROVED", "UNKNOWN"}
  BY DEF PageApproval
<1>2. TitleBlockApproval(T) \in {"APPROVED", "NOT_APPROVED", "UNKNOWN"}
  BY <1>1 DEF TitleBlockApproval
<1> QED BY <1>2 DEF Approval

LEMMA PassportTyped ==
  ASSUME NEW T, ReadTokens(T), NEW name, TypedName(name), NEW alternates
  PROVE  ReadPassport(T, name, alternates) \in Passport
<1> DEFINE stamp == StampTokens(T)
           read == CipherFromText(stamp)
           code == IF CipherReadsAgree(read, alternates) THEN read ELSE Blank
           mark == RevisionMark(stamp)
           stage == StageFromText(stamp)
           identity == IdentityOf(code, name)
           approval == Approval(T, stamp)
           sheet == FirstValue(stamp, {"sheet"})
           section == SectionMarkFromFilename(name)
           needs == \/ ~CipherReadsAgree(read, alternates)
                    \/ Conflict(stage, name.stage)
                    \/ T # {} /\ code = Blank
                    \/ Conflict(code, CipherFromFilename(name))
<1>1. ReadTokens(stamp)
  <2>1. stamp \in SUBSET T
    BY DEF StampTokens
  <2> HIDE DEF stamp
  <2> QED BY <2>1, PartRead
<1> HIDE DEF stamp
<1>2. read \in Text1 /\ code \in Text1 /\ Blank \in Text1
  BY <1>1, CipherTyped DEF Text1
<1>3. mark.number \in Text1 /\ mark.kind \in {"", "change", "correction"}
  BY <1>1, RevisionTyped
<1>4. stage \in Text1 /\ sheet \in Text1
  BY <1>1, FirstValueTyped DEF StageFromText
<1> HIDE DEF code, stage, sheet, mark, section
<1>5. /\ identity.key \in Text1 /\ identity.basis \in {"STAMP", "FILENAME", "NONE"}
      /\ section \in Text1
  BY <1>2, IdentityTyped DEF section
<1>6. approval \in {"APPROVED", "NOT_APPROVED", "UNKNOWN"}
  BY ApprovalTyped
<1>7. name.stage \in Text1
  BY DEF TypedName
<1> HIDE DEF read, identity, approval
<1>8. needs \in BOOLEAN
  BY DEF CipherReadsAgree, Conflict
<1> HIDE DEF needs
<1> DEFINE finalStage == IF Conflict(stage, name.stage) THEN Blank
                         ELSE IF stage = Blank THEN name.stage ELSE stage
           basis == IF approval = "UNKNOWN" THEN "UNPROVEN" ELSE "TITLE_BLOCK"
           discipline == IF code = Blank THEN section ELSE Blank
<1>9. /\ finalStage \in Text1 /\ basis \in {"TITLE_BLOCK", "UNPROVEN"}
      /\ discipline \in Text1
  BY <1>2, <1>4, <1>5, <1>7
<1> HIDE DEF finalStage, basis, discipline
<1>10. ReadPassport(T, name, alternates) =
         [code |-> code, key |-> identity.key, basis |-> identity.basis,
          revision |-> mark.number, revisionKind |-> mark.kind, sheet |-> sheet,
          stage |-> finalStage, approval |-> approval, approvalBasis |-> basis,
          discipline |-> discipline, needs |-> needs]
  BY DEF ReadPassport, stamp, read, code, mark, stage, identity, approval, sheet, section, needs,
         finalStage, basis, discipline
<1> DEFINE keys == Value \cup File \cup {Blank}
           bases == {"STAMP", "FILENAME", "MANIFEST_PATH", "NONE"}
           kinds == {"", "change", "correction"}
           approvals == {"APPROVED", "NOT_APPROVED", "UNKNOWN"}
           proofs == {"TITLE_BLOCK", "UNPROVEN"}
           bools == BOOLEAN
<1>11. Passport =
         [code : Text1, key : keys, basis : bases, revision : Text1, revisionKind : kinds,
          sheet : Text1, stage : Text1, approval : approvals, approvalBasis : proofs,
          discipline : Text1, needs : bools]
  BY DEF Passport, Text1
<1>12. /\ identity.key \in keys /\ identity.basis \in bases /\ mark.kind \in kinds
       /\ approval \in approvals /\ basis \in proofs /\ needs \in bools
  BY <1>3, <1>5, <1>6, <1>8, <1>9 DEF Text1
<1> HIDE DEF keys, bases, kinds, approvals, proofs, bools
<1> DEFINE passport == ReadPassport(T, name, alternates)
<1>13. /\ passport.code = code /\ passport.key = identity.key /\ passport.basis = identity.basis
       /\ passport.revision = mark.number /\ passport.revisionKind = mark.kind
       /\ passport.sheet = sheet /\ passport.stage = finalStage /\ passport.approval = approval
       /\ passport.approvalBasis = basis /\ passport.discipline = discipline
       /\ passport.needs = needs
  BY <1>10
<1>14. passport =
         [code |-> passport.code, key |-> passport.key, basis |-> passport.basis,
          revision |-> passport.revision, revisionKind |-> passport.revisionKind,
          sheet |-> passport.sheet, stage |-> passport.stage, approval |-> passport.approval,
          approvalBasis |-> passport.approvalBasis, discipline |-> passport.discipline,
          needs |-> passport.needs]
  BY <1>10, <1>13
<1> HIDE DEF passport
<1>15. /\ passport.code \in Text1 /\ passport.key \in keys /\ passport.basis \in bases
       /\ passport.revision \in Text1 /\ passport.revisionKind \in kinds
       /\ passport.sheet \in Text1 /\ passport.stage \in Text1 /\ passport.approval \in approvals
       /\ passport.approvalBasis \in proofs /\ passport.discipline \in Text1
       /\ passport.needs \in bools
  BY <1>2, <1>3, <1>4, <1>9, <1>12, <1>13
<1>16. passport \in Passport
  BY <1>11, <1>14, <1>15
<1> QED BY <1>16 DEF passport

LEMMA ManifestTyped ==
  ASSUME NEW passport \in Passport, NEW f \in File, NEW entry,
         entry \in [section : Text1, path : SUBSET Value]
  PROVE  ApplyManifestSection(passport, entry, f) \in Passport
<1> DEFINE section == OnlyOne(Marks(entry))
           key == IF passport.key = Blank THEN f ELSE passport.key
           basis == IF passport.key = Blank THEN "MANIFEST_PATH" ELSE passport.basis
           named == [passport EXCEPT !.discipline = section, !.key = key, !.basis = basis]
<1>1. Marks(entry) \subseteq Text1
  BY DEF Marks, Text1
<1>2. section \in Text1
  <2>1. section \in Marks(entry) \cup {Blank}
    BY OnlyOneTyped
  <2> QED BY <1>1, <2>1 DEF Text1
<1>3. key \in Value \cup File \cup {Blank}
      /\ basis \in {"STAMP", "FILENAME", "MANIFEST_PATH", "NONE"}
  BY DEF Passport
<1>4. \/ ApplyManifestSection(passport, entry, f) = passport
      \/ ApplyManifestSection(passport, entry, f) = [passport EXCEPT !.needs = TRUE]
      \/ ApplyManifestSection(passport, entry, f) = named
  BY DEF ApplyManifestSection
<1> HIDE DEF section, key, basis
<1>5. named \in Passport
  BY <1>2, <1>3 DEF Passport, Text1
<1>6. [passport EXCEPT !.needs = TRUE] \in Passport
  BY DEF Passport
<1> QED BY <1>4, <1>5, <1>6

-----------------------------------------------------------------------------
(* What is on a page.                                                      *)

\* A list of what an engine or the layer has, each with a word.
Worded(list) == \E n \in Nat : DOMAIN list = 1..n /\ \A i \in 1..n : list[i].word \in Word

LEMMA WordedWords ==
  ASSUME NEW list, Worded(list), NEW places \in SUBSET DOMAIN list
  PROVE  WordsAt(list, places) \in Seq(Word)
BY WordsAtTyped DEF Worded

LEMMA SeenWorded ==
  ASSUME NEW seen \in Seq(Seen)
  PROVE  Worded(seen)
<1>1. Len(seen) \in Nat /\ DOMAIN seen = 1..Len(seen) /\ \A i \in 1..Len(seen) : seen[i] \in Seen
  OBVIOUS
<1>2. \A i \in 1..Len(seen) : seen[i].word \in Word
  BY <1>1 DEF Seen
<1> QED BY <1>1, <1>2 DEF Worded

LEMMA VectorTyped ==
  ASSUME NEW page \in Page
  PROVE  VectorWords(page) \in Seq(Word)
<1> DEFINE rects == page.layer
           cleared == TextWithoutHidden(rects)
           layer == IF page.hidden THEN cleared ELSE rects
           n == Len(rects)
           shown == {i \in DOMAIN layer : layer[i].shown /\ layer[i].inside}
<1>1. rects \in Seq(Rectangle)
  BY DEF Page
<1> HIDE DEF rects
<1>2. n \in Nat /\ DOMAIN rects = 1..n /\ \A i \in 1..n : rects[i] \in Rectangle
  BY <1>1
<1> HIDE DEF n
<1>3. /\ DOMAIN cleared = 1..n
      /\ \A i \in 1..n : cleared[i].word \in Word
  <2>1. DOMAIN cleared = 1..n
    BY <1>2 DEF TextWithoutHidden
  <2>2. ASSUME NEW i \in 1..n PROVE cleared[i].word \in Word
    <3> DEFINE r == rects[i]
               word == IF Kept(rects, i) = r.chars THEN r.word ELSE r.rest
               left == Kept(rects, i) # {}
    <3>1. r.word \in Word /\ word \in Word /\ r \in Rectangle
      BY <1>2 DEF Rectangle
    <3>2. cleared[i] = [r EXCEPT !.word = word, !.shown = left]
      BY <1>2 DEF TextWithoutHidden
    <3> HIDE DEF r, word, left
    <3>3. [r EXCEPT !.word = word, !.shown = left].word = word
      BY <3>1 DEF Rectangle
    <3> QED BY <3>1, <3>2, <3>3
  <2> QED BY <2>1, <2>2
<1> HIDE DEF cleared
<1>4. \A i \in 1..n : rects[i].word \in Word
  BY <1>2 DEF Rectangle
<1>5. Worded(layer)
  BY <1>2, <1>3, <1>4 DEF Worded
<1>6. VectorWords(page) = WordsAt(layer, shown) /\ shown \in SUBSET DOMAIN layer
  BY DEF VectorWords, rects, cleared
<1> HIDE DEF layer, shown
<1> QED BY <1>5, <1>6, WordedWords

LEMMA FoldTyped ==
  ASSUME NEW words \in Seq(Word)
  PROVE  FoldTokenTexts(words) \in Seq(Word)
<1>1. Len(words) \in Nat /\ DOMAIN words = 1..Len(words) /\ \A i \in 1..Len(words) : words[i] \in Word
  OBVIOUS
<1>2. ASSUME NEW i \in 1..Len(words)
      PROVE  [words[i] EXCEPT !.value = Twin[words[i].value]] \in Word
  <2>1. Twin[words[i].value] \in Value \cup {Blank}
    BY <1>1, OcrAssumption DEF Word
  <2> QED BY <1>1, <2>1 DEF Word
<1>3. FoldLatinLookalikes(words) \in [1..Len(words) -> Word]
  BY <1>1, <1>2 DEF FoldLatinLookalikes
<1>4. FoldLatinLookalikes(words) \in Seq(Word)
  BY <1>1, <1>3
<1> QED BY <1>4 DEF FoldTokenTexts

LEMMA GroundedTyped ==
  ASSUME NEW seen \in Seq(Seen)
  PROVE  Grounded(seen) \in Seq(Word)
<1>1. Sound(seen) \in SUBSET DOMAIN seen
  BY DEF Sound
<1> QED BY <1>1, SeenWorded, WordedWords DEF Grounded

LEMMA OcrImageTyped ==
  ASSUME NEW look \in Look
  PROVE  OcrImage(look) \in Seq(Word)
<1>1. <<>> \in Seq(Word) /\ <<>> \in Seq(Seen)
  OBVIOUS
<1>2. RapidPageTokens(look.rapid) \in Seq(Word)
  <2>1. CASE look.rapid = NoAnswer
    BY <1>1, <2>1 DEF RapidPageTokens
  <2>2. CASE look.rapid # NoAnswer
    <3>1. look.rapid.words \in Seq(Seen) /\ look.rapid.lines \in Seq(Seen)
      BY <2>2 DEF Look
    <3>2. RapidWords(look.rapid) \in Seq(Word)
      BY <3>1, GroundedTyped DEF RapidWords
    <3> QED BY <1>1, <3>2, FoldTyped DEF RapidPageTokens
  <2> QED BY <2>1, <2>2
<1>3. ImageToData(look) \in Seq(Seen)
  BY <1>1 DEF ImageToData, Answered, Look
<1>4. TesseractTokens(look) \in Seq(Word)
  BY <1>1, <1>3, GroundedTyped, FoldTyped DEF TesseractTokens
<1> QED BY <1>2, <1>4 DEF OcrImage

LEMMA TurnedTyped ==
  ASSUME NEW page \in Page, NEW quarter \in 1..3
  PROVE  OcrTurned(page, quarter) \in Seq(Word)
<1> DEFINE words == OcrImage(page.looks[quarter])
<1>1. words \in Seq(Word)
  <2>1. page.looks[quarter] \in Look
    BY DEF Page
  <2> QED BY <2>1, OcrImageTyped
<1>2. ASSUME NEW edge \in Edge PROVE Unrotate(edge, quarter) \in Edge
  <2>1. \E n \in 1..4 : Around[n] = edge
    <3>1. Around[1] = "bottom" /\ Around[2] = "left" /\ Around[3] = "top" /\ Around[4] = "right"
      BY DEF Around
    <3> QED BY <3>1 DEF Edge
  <2>2. \A n \in 1..4 : Around[n] \in Edge
    BY DEF Around, Edge
  <2>3. \A n \in 1..4 : ((n - 1 + quarter) % 4) + 1 \in 1..4
    OBVIOUS
  <2> QED BY <2>1, <2>2, <2>3 DEF Unrotate
<1>3. OcrTurned(page, quarter) =
        [i \in DOMAIN words |-> [words[i] EXCEPT !.edge = Unrotate(words[i].edge, quarter)]]
  BY DEF OcrTurned
<1> HIDE DEF words
<1>4. Len(words) \in Nat /\ DOMAIN words = 1..Len(words) /\ \A i \in 1..Len(words) : words[i] \in Word
  BY <1>1
<1>5. ASSUME NEW i \in 1..Len(words)
      PROVE  [words[i] EXCEPT !.edge = Unrotate(words[i].edge, quarter)] \in Word
  <2>1. Unrotate(words[i].edge, quarter) \in Edge
    BY <1>2, <1>4 DEF Word
  <2> QED BY <1>4, <2>1 DEF Word
<1>6. OcrTurned(page, quarter) \in [1..Len(words) -> Word]
  BY <1>3, <1>4, <1>5
<1> QED BY <1>4, <1>6

LEMMA OcrTyped ==
  ASSUME NEW page \in Page
  PROVE  OcrPdfPage(page) \in Seq(Word)
<1> DEFINE amount == [q \in 1..3 |-> Len(OcrTurned(page, q))]
           best == {q \in 1..3 : \A r \in 1..3 : amount[q] >= amount[r]}
<1>1. \A q \in 1..3 : OcrTurned(page, q) \in Seq(Word)
  BY TurnedTyped
<1>2. amount[1] \in Nat /\ amount[2] \in Nat /\ amount[3] \in Nat
  BY <1>1
<1> HIDE DEF amount
<1>3. best # {}
  <2>1. \/ amount[1] >= amount[2] /\ amount[1] >= amount[3]
        \/ amount[2] >= amount[1] /\ amount[2] >= amount[3]
        \/ amount[3] >= amount[1] /\ amount[3] >= amount[2]
    BY <1>2
  <2>2. \A r \in 1..3 : r = 1 \/ r = 2 \/ r = 3
    OBVIOUS
  <2> QED BY <1>2, <2>1, <2>2
<1>4. best \subseteq 1..3 /\ best \subseteq Nat
  OBVIOUS
<1>5. BestTurn(page) = OcrTurned(page, CHOOSE q \in best : \A r \in best : q <= r)
  BY DEF BestTurn, amount
<1> HIDE DEF best
<1>6. PICK q \in best : \A r \in best : q <= r
  BY <1>3, <1>4, LeastNumber
<1>7. BestTurn(page) \in Seq(Word)
  BY <1>1, <1>4, <1>5, <1>6
<1>8. OcrImage(page.looks[0]) \in Seq(Word)
  <2>1. page.looks[0] \in Look
    BY DEF Page
  <2> QED BY <2>1, OcrImageTyped
<1> QED BY <1>7, <1>8 DEF OcrPdfPage

-----------------------------------------------------------------------------
(* The shape of a state.                                                   *)

ChildShape ==
  /\ child.st \in {"none", "works", "pool", "here", "sent", "gone", "dead"}
  /\ child.st = "none" <=> reader.pc \notin {"poll", "alive"}
  /\ child.st \in {"pool", "here"} => reader.job = "ocr"
  /\ DOMAIN child.tasks \subseteq DOMAIN document
  /\ DOMAIN child.filled \subseteq DOMAIN document
  /\ \A p \in DOMAIN child.filled : child.filled[p] \in Seq(Word)

\* Whatever is on its pages, a document has pages of words and a passport.
Shape ==
  /\ errors \subseteq File /\ blind \cup marred \subseteq File /\ faults \in 0..MaxFault
  /\ \A g \in DOMAIN passports : passports[g] \in Passport
  /\ PagesOfWords(document)
  /\ ChildShape

LEMMA EmptyFunction == DOMAIN <<>> = {} /\ <<>> \in Seq(Word)
<1>1. <<>> \in [{} -> {}]
  OBVIOUS
<1>2. DOMAIN <<>> = {}
  BY <1>1
<1>3. <<>> \in Seq(Word)
  OBVIOUS
<1> QED BY <1>2, <1>3

LEMMA PagesTyped ==
  ASSUME NEW f \in File
  PROVE  /\ PagesOfWords(Layer[f])
         /\ DOMAIN Layer[f] = DOMAIN Pages[f]
         /\ \A p \in DOMAIN Pages[f] : OcrOf[f][p] \in Seq(Word)
<1> DEFINE pages == Pages[f]
<1>1. pages \in Seq(Page)
  BY ReaderAssumption
<1>2. Layer[f] = [p \in DOMAIN pages |-> VectorWords(pages[p])]
  BY DEF Layer
<1>3. \A p \in DOMAIN pages : OcrOf[f][p] = OcrPdfPage(pages[p])
  BY DEF OcrOf
<1>4. DOMAIN Layer[f] = DOMAIN Pages[f]
  BY <1>2
<1> HIDE DEF pages
<1>5. DOMAIN pages \subseteq Nat /\ \A p \in DOMAIN pages : pages[p] \in Page
  BY <1>1
<1>6. PagesOfWords(Layer[f])
  BY <1>2, <1>5, VectorTyped DEF PagesOfWords
<1>7. \A p \in DOMAIN pages : OcrOf[f][p] \in Seq(Word)
  BY <1>3, <1>5, OcrTyped
<1> QED BY <1>4, <1>6, <1>7 DEF pages

LEMMA PassportOfTyped ==
  ASSUME NEW f \in File, NEW pages, PagesOfWords(pages), NEW alternates
  PROVE  PassportOf(f, pages, alternates) \in Passport
<1>1. /\ Name \in [File -> [stem : Value, ciphers : SUBSET Value, sections : SUBSET Value,
                            stage : Text1]]
      /\ Entry \in [File -> [section : Text1, path : SUBSET Value]]
  BY ReaderAssumption DEF Text1
<1>2. TypedName(Name[f]) /\ Entry[f] \in [section : Text1, path : SUBSET Value]
  BY <1>1 DEF TypedName
<1>3. ReadPassport(Flatten(pages), Name[f], alternates) \in Passport
  BY <1>2, FlattenRead, PassportTyped
<1> QED BY <1>2, <1>3, ManifestTyped DEF PassportOf

\* A child that has just been started, or none.
LEMMA FreshShape ==
  ASSUME \/ child' = NewChild /\ reader'.pc \in {"poll", "alive"}
         \/ child' = NoChild /\ reader'.pc \notin {"poll", "alive"}
  PROVE  ChildShape'
<1>1. NoChild.tasks = <<>> /\ NoChild.filled = <<>> /\ NewChild.tasks = <<>> /\ NewChild.filled = <<>>
  BY FreshChild DEF NoChild
<1>2. DOMAIN child'.tasks = {} /\ DOMAIN child'.filled = {}
  BY <1>1, EmptyFunction
<1> QED BY <1>2, FreshChild DEF ChildShape

\* A file is left.
LEMMA LeaveShape ==
  ASSUME Shape, NEW end \in {"next", "failed", "ended"}, Leave(end)
  PROVE  ChildShape' /\ PagesOfWords(document')
<1>1. reader'.pc = end /\ child' = NoChild /\ document' = <<>>
  BY DEF Leave, Between
<1>2. ChildShape'
  BY <1>1, FreshShape
<1>3. PagesOfWords(document')
  BY <1>1, EmptyFunction DEF PagesOfWords
<1> QED BY <1>2, <1>3

LEMMA InitShape == Init => Shape
<1> SUFFICES ASSUME Init PROVE Shape
  OBVIOUS
<1>1. /\ child = NoChild /\ reader.pc = "next" /\ document = <<>> /\ passports = <<>>
      /\ errors = {} /\ blind = {} /\ marred = {} /\ faults = 0
  BY DEF Init, Between
<1>2. NoChild.st = "none" /\ NoChild.tasks = <<>> /\ NoChild.filled = <<>>
  BY DEF NoChild
<1>3. ChildShape
  BY <1>1, <1>2, EmptyFunction DEF ChildShape
<1>4. PagesOfWords(document)
  BY <1>1, EmptyFunction DEF PagesOfWords
<1>5. 0 \in 0..MaxFault
  BY ReaderAssumption
<1> QED BY <1>1, <1>3, <1>4, <1>5, EmptyFunction DEF Shape

LEMMA TakeShape ==
  ASSUME IInv, Shape, NEW file \in File, Take(file)
  PROVE  Shape'
<1>1. reader.pc = "next" /\ UNCHANGED <<document, blind, marred, faults>>
  BY DEF Take, TakeUnreadable, TakeText, TakeArchive, TakePdf, Taken, Refuse
<1>2. CASE TakeUnreadable(file) \/ TakeArchive(file)
  <2>1. UNCHANGED <<passports, reader, child>> /\ (errors' = errors \/ errors' = errors \cup {file})
    BY <1>2 DEF TakeUnreadable, TakeArchive, Refuse
  <2> QED BY <1>1, <2>1 DEF Shape, ChildShape
<1>3. CASE TakeText(file)
  <2>1. /\ UNCHANGED <<reader, child, errors>>
        /\ passports' = [g \in DOMAIN passports \cup {file} |->
                           IF g = file THEN OfText[file] ELSE passports[g]]
    BY <1>3 DEF TakeText
  <2>2. PagesOfWords(<<Text[file]>>)
    <3>1. Text[file] \in Seq(Word)
      BY ReaderAssumption
    <3> QED BY <3>1 DEF PagesOfWords
  <2>3. OfText[file] \in Passport
    BY <2>2, PassportOfTyped DEF OfText
  <2>4. \A g \in DOMAIN passports' : passports'[g] \in Passport
    BY <2>1, <2>3 DEF Shape
  <2> QED BY <1>1, <2>1, <2>4 DEF Shape, ChildShape
<1>4. CASE TakePdf(file)
  <2>1. UNCHANGED <<passports, errors>> /\ child' = NewChild /\ reader'.pc = "poll"
    BY <1>4 DEF TakePdf, StartJob
  <2>2. ChildShape'
    BY <2>1, FreshShape
  <2> QED BY <1>1, <2>1, <2>2 DEF Shape
<1> QED BY <1>2, <1>3, <1>4 DEF Take

LEMMA MakePassportShape ==
  ASSUME IInv, Shape, MakePassport
  PROVE  Shape'
<1>1. /\ reader.pc = "bands" /\ Leave("next") /\ UNCHANGED <<errors, blind, marred, faults>>
      /\ passports' = [g \in DOMAIN passports \cup {Current} |->
                         IF g = Current THEN OfPdf(Current, document) ELSE passports[g]]
  BY DEF MakePassport
<1>2. Current \in File
  BY <1>1 DEF IInv, ThreadOK, Current
<1>3. OfPdf(Current, document) \in Passport
  BY <1>2, PassportOfTyped DEF OfPdf, Shape
<1>4. \A g \in DOMAIN passports' : passports'[g] \in Passport
  BY <1>1, <1>3 DEF Shape
<1> QED BY <1>1, <1>4, LeaveShape DEF Shape

LEMMA GuardShape ==
  ASSUME IInv, Reading, Shape, Guard \/ Expire
  PROVE  Shape'
<1>1. UNCHANGED <<passports, faults>> /\ reader.pc \in {"poll", "alive"}
  BY DEF Guard, Receive, ReceiveEnd, PollNothing, CheckAlive, Repeat, GiveUp, Expire, TimedOut
<1>2. reader \in Thread({"parse", "ocr"}) /\ Current \in File
  BY <1>1 DEF IInv, ThreadOK, Thread, Current
<1>3. /\ errors' = errors \/ errors' = errors \cup {Current}
      /\ blind' = blind \/ blind' = blind \cup {Current}
      /\ marred' = marred \/ marred' = marred \cup {Current}
  BY DEF Guard, Receive, ReceiveEnd, PollNothing, CheckAlive, Repeat, GiveUp, Expire, Drop
<1>4. SUFFICES ChildShape' /\ PagesOfWords(document')
  BY <1>1, <1>2, <1>3 DEF Shape
<1>5. ASSUME Drop \/ Leave("failed") PROVE ChildShape' /\ PagesOfWords(document')
  BY <1>5, LeaveShape DEF Drop
<1>6. ASSUME \/ child' = NewChild /\ reader'.pc \in {"poll", "alive"}
             \/ child' = NoChild /\ reader'.pc = "bands",
             \/ document' = document
             \/ document' = Layer[Current]
             \/ document' = Fill(document, child.filled)
      PROVE  ChildShape' /\ PagesOfWords(document')
  <2>1. ChildShape'
    BY <1>6, FreshShape
  <2>2. PagesOfWords(document) /\ PagesOfWords(Layer[Current])
    BY <1>2, PagesTyped DEF Shape
  <2>3. PagesOfWords(Fill(document, child.filled))
    BY <2>2 DEF Shape, ChildShape, Fill, PagesOfWords
  <2> QED BY <1>6, <2>1, <2>2, <2>3
<1>7. ASSUME UNCHANGED <<child, document>>, reader'.pc \in {"poll", "alive"}, reader'.job = reader.job
      PROVE  ChildShape' /\ PagesOfWords(document')
  BY <1>1, <1>7 DEF Shape, ChildShape
<1>8. ASSUME reader' = [reader EXCEPT !.pc = "bands"] PROVE reader'.pc = "bands"
  BY <1>2, <1>8 DEF Thread
<1>9. CASE Receive
  <2>1. \/ document' = Layer[Current] /\ StartJob("ocr", Current)
        \/ /\ document' = Layer[Current] /\ reader' = [reader EXCEPT !.pc = "bands"]
           /\ child' = NoChild
        \/ /\ document' = Fill(document, child.filled)
           /\ reader' = [reader EXCEPT !.pc = "bands"] /\ child' = NoChild
        \/ Drop \/ Leave("failed")
    BY <1>9 DEF Receive
  <2>2. ASSUME StartJob("ocr", Current) PROVE reader'.pc = "poll" /\ child' = NewChild
    BY <2>2 DEF StartJob
  <2> QED BY <1>5, <1>6, <1>8, <2>1, <2>2
<1>10. CASE ReceiveEnd
  BY <1>5, <1>10 DEF ReceiveEnd
<1>11. CASE PollNothing \/ Expire \/ (CheckAlive /\ ~Dead)
  <2>1. /\ UNCHANGED <<child, document>>
        /\ reader'.pc \in {"poll", "alive"} /\ reader'.job = reader.job
    BY <1>1, <1>2, <1>11 DEF PollNothing, Expire, CheckAlive, Thread
  <2> QED BY <1>7, <2>1
<1>12. CASE CheckAlive /\ Dead
  BY <1>5, <1>12 DEF CheckAlive
<1>13. CASE Repeat
  <2>1. UNCHANGED document /\ child' = NewChild /\ reader'.pc = reader.pc
    BY <1>2, <1>13 DEF Repeat, Restarted, Thread
  <2> QED BY <1>1, <1>6, <2>1
<1>14. CASE GiveUp
  <2>1. \/ Drop
        \/ reader' = [reader EXCEPT !.pc = "bands"] /\ child' = NoChild /\ UNCHANGED document
    BY <1>14 DEF GiveUp
  <2> QED BY <1>5, <1>6, <1>8, <2>1
<1> QED BY <1>9, <1>10, <1>11, <1>12, <1>13, <1>14 DEF Guard

\* What a child fills in are words of a page it has.
LEMMA ChildKeepsShape ==
  ASSUME IInv, Reading, Shape, Child
  PROVE  Shape'
<1>1. UNCHANGED <<errors, passports, reader, document, blind, marred>>
  BY DEF Child, ChildParses, ChildOpens, PoolBreaks, SendPages, ChildExits, ChildDies,
         WorkerReads, Collect, CollectLost, ReadHere, OnlyChild
<1>2. faults' \in 0..MaxFault
  <2>1. faults' = faults \/ (faults < MaxFault /\ faults' = faults + 1)
    BY DEF Child, ChildParses, ChildOpens, PoolBreaks, SendPages, ChildExits, ChildDies,
           WorkerReads, Collect, CollectLost, ReadHere, Fault
  <2> QED BY <2>1, ReaderAssumption DEF Shape
<1>3. /\ child = [st |-> child.st, answer |-> child.answer, tasks |-> child.tasks,
                  filled |-> child.filled, marred |-> child.marred]
  BY DEF Reading, ChildOK
<1>4. SUFFICES ChildShape'
  BY <1>1, <1>2 DEF Shape
<1>5. /\ child.st \in {"none", "works", "pool", "here", "sent", "gone", "dead"}
      /\ child.st # "none" => reader.pc \in {"poll", "alive"}
      /\ child.st \in {"pool", "here"} => reader.job = "ocr"
      /\ DOMAIN child.tasks \subseteq DOMAIN document
      /\ DOMAIN child.filled \subseteq DOMAIN document
      /\ \A p \in DOMAIN child.filled : child.filled[p] \in Seq(Word)
  BY DEF Shape, ChildShape
<1>6. ASSUME child.st # "none",
             child'.st \in {"works", "pool", "here", "sent", "gone", "dead"},
             child'.st \in {"pool", "here"} => reader.job = "ocr",
             DOMAIN child'.tasks \subseteq DOMAIN document,
             DOMAIN child'.filled \subseteq DOMAIN document,
             \A p \in DOMAIN child'.filled : child'.filled[p] \in Seq(Word)
      PROVE  ChildShape'
  BY <1>1, <1>5, <1>6 DEF ChildShape
<1>7. CASE ChildParses
  <2> DEFINE answer == IF Damage[Current] = "none" THEN "ok" ELSE Damage[Current]
  <2>1. child' = [child EXCEPT !.st = "sent", !.answer = answer] /\ child.st = "works"
    BY <1>7 DEF ChildParses
  <2> HIDE DEF answer
  <2>2. child'.st = "sent" /\ child'.tasks = child.tasks /\ child'.filled = child.filled
    BY <1>3, <2>1
  <2> QED BY <1>5, <1>6, <2>1, <2>2
<1>8. CASE ChildOpens
  <2> DEFINE st == IF Cardinality(Targets(document)) < 2 THEN "here" ELSE "pool"
             tasks == [p \in Targets(document) |-> "waits"]
  <2>1. /\ child' = [child EXCEPT !.st = st, !.tasks = tasks]
        /\ child.st = "works" /\ reader.job = "ocr"
    BY <1>8 DEF ChildOpens
  <2>2. DOMAIN tasks \subseteq DOMAIN document /\ st \in {"here", "pool"}
    BY DEF Targets
  <2> HIDE DEF st, tasks
  <2>3. child'.st = st /\ child'.tasks = tasks /\ child'.filled = child.filled
    BY <1>3, <2>1
  <2> QED BY <1>5, <1>6, <2>1, <2>2, <2>3
<1>9. CASE PoolBreaks
  <2> DEFINE tasks == [p \in DOMAIN child.tasks |->
                         IF child.tasks[p] = "waits" THEN "lost" ELSE child.tasks[p]]
  <2>1. child' = [child EXCEPT !.tasks = tasks] /\ child.st = "pool"
    BY <1>9 DEF PoolBreaks
  <2>2. DOMAIN tasks = DOMAIN child.tasks
    OBVIOUS
  <2> HIDE DEF tasks
  <2>3. child'.st = "pool" /\ child'.tasks = tasks /\ child'.filled = child.filled
    BY <1>3, <2>1
  <2> QED BY <1>5, <1>6, <2>1, <2>2, <2>3
<1>10. ASSUME NEW p \in DOMAIN document, WorkerReads(p)
       PROVE  ChildShape'
  <2>1. PICK u \in {"read", "raised"} : child' = [child EXCEPT !.tasks[p] = u]
    BY <1>10 DEF WorkerReads
  <2> DEFINE tasks == [child.tasks EXCEPT ![p] = u]
  <2>2. child' = [child EXCEPT !.tasks = tasks] /\ child.st = "pool"
    BY <1>3, <1>10, <2>1 DEF WorkerReads
  <2>3. DOMAIN tasks = DOMAIN child.tasks
    OBVIOUS
  <2> HIDE DEF tasks
  <2>4. child'.st = "pool" /\ child'.tasks = tasks /\ child'.filled = child.filled
    BY <1>3, <2>2
  <2> QED BY <1>5, <1>6, <2>2, <2>3, <2>4
<1>11. ASSUME NEW p \in DOMAIN document, Collect(p) \/ ReadHere(p)
       PROVE  ChildShape'
  <2>1. child.st \in {"pool", "here"} /\ p \in DOMAIN child.tasks
    BY <1>11 DEF Collect, ReadHere, NextPage, Unfilled
  <2>2. OcrOf[Current][p] \in Seq(Word) /\ <<>> \in Seq(Word)
    <3>1. reader.pc \in {"poll", "alive"} /\ reader.job = "ocr"
      BY <1>5, <2>1
    <3>2. Current \in File /\ document = Layer[Current]
      BY <3>1 DEF IInv, ThreadOK, Reading, ChildOK, Current
    <3> QED BY <3>2, PagesTyped
  <2>3. PICK w \in Seq(Word) :
          \/ child' = [child EXCEPT !.filled = Filled(p, w)]
          \/ child' = [child EXCEPT !.filled = Filled(p, w), !.marred = TRUE]
    BY <1>11, <2>2 DEF Collect, ReadHere
  <2> DEFINE filled == Filled(p, w)
  <2>4. /\ DOMAIN filled = DOMAIN child.filled \cup {p}
        /\ \A q \in DOMAIN filled : filled[q] = IF q = p THEN w ELSE child.filled[q]
    BY DEF Filled
  <2>5. child' = [child EXCEPT !.filled = filled]
        \/ child' = [child EXCEPT !.filled = filled, !.marred = TRUE]
    BY <2>3
  <2> HIDE DEF filled
  <2>6. child'.st = child.st /\ child'.tasks = child.tasks /\ child'.filled = filled
    BY <1>3, <2>5
  <2>7. /\ DOMAIN filled \subseteq DOMAIN document
        /\ \A q \in DOMAIN filled : filled[q] \in Seq(Word)
    BY <1>5, <1>11, <2>4
  <2> QED BY <1>5, <1>6, <2>1, <2>6, <2>7
<1>12. ASSUME ChildExits \/ ChildDies \/ SendPages \/ (\E p \in DOMAIN document : CollectLost(p))
       PROVE  ChildShape'
  <2>1. \/ child' = [child EXCEPT !.st = "here"] /\ child.st = "pool"
        \/ /\ child' = [child EXCEPT !.st = "sent", !.answer = "ok"]
           /\ child.st \in {"pool", "here"}
        \/ child' = [child EXCEPT !.st = "gone"] /\ child.st = "sent"
        \/ /\ child' = [child EXCEPT !.st = "dead"]
           /\ child.st \in {"works", "pool", "here"}
    BY <1>12 DEF CollectLost, Reread, SendPages, ChildExits, ChildDies
  <2>2. /\ child'.tasks = child.tasks /\ child'.filled = child.filled
        /\ child'.st \in {"here", "sent", "gone", "dead"}
        /\ child'.st = "here" => child.st = "pool"
    BY <1>3, <2>1
  <2> QED BY <1>5, <1>6, <2>1, <2>2
<1> QED BY <1>7, <1>8, <1>9, <1>10, <1>11, <1>12 DEF Child

LEMMA NextShape == IInv /\ Reading /\ Shape /\ [Next]_vars => Shape'
<1> SUFFICES ASSUME IInv, Reading, Shape, [Next]_vars PROVE Shape'
  OBVIOUS
<1>1. CASE End
  <2>1. UNCHANGED <<errors, passports, blind, marred, faults>> /\ Leave("ended")
    BY <1>1 DEF End
  <2> QED BY <2>1, LeaveShape DEF Shape
<1>2. CASE UNCHANGED vars
  BY <1>2 DEF vars, Shape, ChildShape
<1> QED BY <1>1, <1>2, TakeShape, MakePassportShape, GuardShape, ChildKeepsShape DEF Next

-----------------------------------------------------------------------------
(* The theorems.                                                           *)

\* The invariant the other theorems rest on: while a run goes on, every file it
\* knows of is in exactly one place.
THEOREM Invariance == Spec => []IInv
<1> QED BY InitInv, NextKeeps, PTL DEF Spec

\* For any package, whatever its children do and however often they are repeated:
\* a run that ends has answered for every file it was given and every member of an
\* archive it opened, once.
THEOREM EveryFileIsAnswered == Spec => []EveryFileAnswered
<1>1. IInv => EveryFileAnswered
  <2> SUFFICES ASSUME IInv, reader.pc = "ended"
               PROVE  /\ Known = DOMAIN passports \cup opened \cup errors
                      /\ DOMAIN passports \cap opened = {}
                      /\ (DOMAIN passports \cup opened) \cap errors = {}
    BY DEF EveryFileAnswered
  <2>1. In(pending) = {} /\ AtHand = {}
    BY DEF IInv, ThreadOK, Thread, AtHand, In
  <2> QED BY <2>1 DEF IInv, Partition, Apart
<1> QED BY <1>1, Invariance, PTL

\* For any package and pages, whatever its children do, however often they are
\* repeated and whichever pool breaks: the passport of a file whose OCR was neither
\* given up nor raised is that of the file read alone and without faults.
THEOREM PagesAreReadAsAlone == Spec => []ReadAsAlone
<1>1. Init => IInv /\ Reading
  BY InitInv, InitReading
<1>2. IInv /\ Reading /\ [Next]_vars => (IInv /\ Reading)'
  BY NextKeeps, NextReads
<1>3. Reading => ReadAsAlone
  BY DEF Reading
<1> QED BY <1>1, <1>2, <1>3, PTL DEF Spec

\* For any package and whatever the words on its pages say: the run keeps its budget
\* of repeats and of faults, has a child exactly while it waits for one, fills in only
\* pages the document has, and what it makes of every document is a passport: each of
\* its fields comes from a word, the name, the index or the file, and every choice
\* of a word (the first, the only one, the most frequent) is a choice of one there is.
THEOREM ReaderTyped == Spec => []TypeOK
<1>1. Init => IInv /\ Reading /\ Shape
  BY InitInv, InitReading, InitShape
<1>2. IInv /\ Reading /\ Shape /\ [Next]_vars => (IInv /\ Reading /\ Shape)'
  BY NextKeeps, NextReads, NextShape
<1>3. IInv /\ Reading /\ Shape => TypeOK
  <2> SUFFICES ASSUME IInv, Reading, Shape PROVE TypeOK
    OBVIOUS
  <2>1. given \in Seq(File) /\ pending \in Seq(File) /\ opened \subseteq File
    BY ReaderAssumption DEF IInv, QueueOK
  <2>2. reader \in [pc : {"next", "poll", "alive", "bands", "ended", "failed"},
                    job : {"none", "parse", "ocr"}, file : File \cup {NoFile},
                    attempt : 0..ParseAttempts, expired : BOOLEAN]
    BY DEF IInv, ThreadOK, Thread
  <2> QED BY <2>1, <2>2 DEF Reading, Shape, ChildShape, TypeOK
<1> QED BY <1>1, <1>2, <1>3, PTL DEF Spec

=============================================================================
