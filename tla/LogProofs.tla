------------------------------ MODULE LogProofs -----------------------------
(***************************************************************************)
(* log4cpp: the mail sender, for every number of mails and shutdowns; the  *)
(* categories, appenders and configurators, for every set of category      *)
(* names, appenders, property files and calls; its own vsnprintf with the  *)
(* functions on top of it, for every format and buffer size; the file      *)
(* appenders, for all arguments, settings, messages and times; and the     *)
(* other appenders, for all priorities, filters, lengths, threads and      *)
(* diagnostic contexts.                                                    *)
(***************************************************************************)
EXTENDS LogConfigure, MailSender, Snprintf, LogFiles, LogSinks, SequenceTheorems,
        FiniteSetTheorems, WellFoundedInduction, TLAPS

\* Every variable of the sender has its type.
MailTyped ==
    /\ object \in {"none", "live", "deleted"}
    /\ mails \in Seq(Nat) /\ tried \in Seq(Nat)
    /\ thread \in {"none", "loop", "locked", "waiting", "woken", "deliver", "erase", "ended"}
    /\ iter \in Nat /\ sentMails \in Nat /\ shutdowns \in Nat
    /\ should_exit \in BOOLEAN /\ stopping \in BOOLEAN /\ spurious \in BOOLEAN
    /\ mailFault \in {"none", "end", "deleted"}

\* m holds consecutive numbers, the first one e + 1.
Run(m, e) == \A i \in 1..Len(m) : m[i] = e + i

\* The mails that were taken off the list: the one that was just tried is
\* still on it.
Erased == IF thread = "erase" /\ iter # 0 THEN Len(tried) - 1 ELSE Len(tried)

\* The list follows what was tried without a gap, up to the last mail sent.
MailList ==
    /\ Run(tried, 0)
    /\ Run(mails, Erased)
    /\ object # "deleted" => sentMails = Erased + Len(mails)

\* The iterator points at the head of the list from the time when it is taken
\* until it is erased.
Iterator ==
    /\ thread = "deliver" /\ iter # 0 => iter = Len(tried) + 1 /\ Len(mails) > 0
    /\ thread = "erase" /\ iter # 0 => iter = Len(tried) /\ Len(tried) > 0 /\ Len(mails) > 0
    /\ thread = "erase" /\ mailFault = "none" => iter # 0

\* The thread does not wait once it is to end, and is gone before the sender.
MailLife ==
    /\ object = "none" => thread = "none" /\ should_exit = FALSE
    /\ object = "deleted" =>
         thread = "ended" /\ stopping = FALSE /\ should_exit = TRUE /\ shutdowns > 0
    /\ mailFault = "deleted" => object = "deleted"
    /\ stopping = TRUE => should_exit = TRUE /\ shutdowns > 0
    /\ should_exit = TRUE => thread # "waiting"

\* A notification comes with a mail or with the order to end.
Wakeups ==
    /\ thread = "woken" => Len(mails) > 0 \/ should_exit = TRUE \/ spurious = TRUE
    /\ thread = "deliver" /\ iter = 0 => spurious = TRUE
    /\ mailFault = "end" => spurious = TRUE

\* The inductive invariant.
MailInv == MailTyped /\ MailList /\ Iterator /\ MailLife /\ Wakeups

-----------------------------------------------------------------------------
(***************************************************************************)
(* Lists of mails.                                                         *)
(***************************************************************************)

\* push_back of the next number.
LEMMA RunAppend ==
  ASSUME NEW m \in Seq(Nat), NEW e \in Nat, Run(m, e), NEW x \in Nat, x = e + Len(m) + 1
  PROVE  /\ Append(m, x) \in Seq(Nat) /\ Len(Append(m, x)) = Len(m) + 1
         /\ Run(Append(m, x), e)
<1>1. Len(m) \in Nat
  BY LenProperties
<1>2. /\ Append(m, x) \in Seq(Nat) /\ Len(Append(m, x)) = Len(m) + 1
      /\ \A i \in 1..Len(m) : Append(m, x)[i] = m[i]
      /\ Append(m, x)[Len(m) + 1] = x
  BY AppendProperties
<1>3. PICK y : y = Append(m, x)
  OBVIOUS
<1>4. ASSUME NEW i \in 1..(Len(m) + 1) PROVE y[i] = e + i
  <2>1. CASE i \in 1..Len(m)
    BY <1>2, <1>3, <2>1 DEF Run
  <2>2. CASE i = Len(m) + 1
    <3>1. e + i = x
      BY <1>1, <2>2
    <3> QED
      BY <1>2, <1>3, <2>2, <3>1
  <2> QED
    BY <1>1, <2>1, <2>2
<1>5. Run(y, e)
  BY <1>2, <1>3, <1>4 DEF Run
<1> QED
  BY <1>2, <1>3, <1>5

\* erase of the first element.
LEMMA RunErase ==
  ASSUME NEW m \in Seq(Nat), NEW e \in Nat, Run(m, e), NEW j \in DOMAIN m, m[j] = e + 1
  PROVE  /\ RemoveAt(m, j) \in Seq(Nat) /\ Len(RemoveAt(m, j)) = Len(m) - 1
         /\ Run(RemoveAt(m, j), e + 1)
<1>1. Len(m) \in Nat /\ DOMAIN m = 1..Len(m)
  BY LenProperties
<1>2. j = 1 /\ Len(m) > 0
  <2>1. j \in 1..Len(m)
    BY <1>1
  <2>2. m[j] = e + j
    BY <2>1 DEF Run
  <2> QED
    BY <1>1, <2>1, <2>2
<1>3. PICK t : t = Tail(m)
  OBVIOUS
<1>4. m # <<>>
  BY <1>2
<1>5. /\ t \in Seq(Nat) /\ Len(t) = Len(m) - 1
      /\ \A i \in 1..Len(t) : t[i] = m[i + 1]
  BY <1>3, <1>4, HeadTailProperties
<1>6. RemoveAt(m, j) = t
  <2>1. RemoveAt(m, j) = SubSeq(m, 1, 0) \o SubSeq(m, 2, Len(m))
    BY <1>2 DEF RemoveAt
  <2>2. SubSeq(m, 1, 0) = <<>>
    OBVIOUS
  <2>3. SubSeq(m, 2, Len(m)) = t
    BY <1>3
  <2> QED
    BY <1>5, <2>1, <2>2, <2>3, ConcatEmptySeq
<1>7. Run(t, e + 1)
  <2> SUFFICES ASSUME NEW i \in 1..Len(t) PROVE t[i] = (e + 1) + i
    BY DEF Run
  <2>1. i + 1 \in 1..Len(m) /\ (e + 1) + i = e + (i + 1)
    BY <1>1, <1>5
  <2>2. m[i + 1] = e + (i + 1)
    BY <2>1 DEF Run
  <2> QED
    BY <1>5, <2>1, <2>2
<1> QED
  BY <1>5, <1>6, <1>7

\* The head of the list.
LEMMA RunHead ==
  ASSUME NEW m \in Seq(Nat), NEW e \in Nat, Run(m, e), Len(m) > 0
  PROVE  Head(m) = e + 1
<1>1. 1 \in 1..Len(m) /\ m # <<>>
  BY LenProperties
<1>2. Head(m) = m[1]
  BY <1>1, HeadTailProperties
<1> QED
  BY <1>1, <1>2 DEF Run

-----------------------------------------------------------------------------
(***************************************************************************)
(* The mail sender.                                                        *)
(***************************************************************************)

\* What the proofs below use of the types.
LEMMA MailFacts ==
  ASSUME MailInv
  PROVE  /\ mails \in Seq(Nat) /\ tried \in Seq(Nat) /\ Len(mails) \in Nat /\ Len(tried) \in Nat
         /\ Erased \in Nat /\ Run(mails, Erased) /\ Run(tried, 0)
         /\ (mails = << >>) <=> (Len(mails) = 0)
<1> USE DEF MailInv
<1>1. mails \in Seq(Nat) /\ tried \in Seq(Nat)
  BY DEF MailTyped
<1>2. Len(mails) \in Nat /\ Len(tried) \in Nat
  BY <1>1, LenProperties
<1>3. (mails = << >>) <=> (Len(mails) = 0)
  BY <1>1, EmptySeq
<1>4. Erased \in Nat
  BY <1>2 DEF Erased, Iterator
<1> QED
  BY <1>1, <1>2, <1>3, <1>4 DEF MailList

\* An append to the list, or to a sender that is gone.
LEMMA SendKeeps ==
  ASSUME MailInv, Send
  PROVE  MailInv'
<1> USE DEF MailInv
<1>1. /\ mails \in Seq(Nat) /\ tried \in Seq(Nat) /\ Len(mails) \in Nat /\ Len(tried) \in Nat
      /\ Erased \in Nat /\ Run(mails, Erased) /\ Run(tried, 0)
  BY MailFacts
<1>2. /\ sentMails' = sentMails + 1 /\ sentMails \in Nat
      /\ UNCHANGED <<iter, should_exit, stopping, tried, shutdowns, spurious>>
  BY DEF Send, MailTyped
<1>3. CASE object = "deleted"
  <2>1. mailFault' = "deleted" /\ UNCHANGED <<object, mails, thread>>
    BY <1>3 DEF Send
  <2>2. MailTyped'
    BY <1>2, <2>1 DEF MailTyped
  <2>3. Erased' = Erased
    BY <1>2, <2>1 DEF Erased
  <2>4. MailList'
    BY <1>2, <1>3, <2>1, <2>3 DEF MailList
  <2>5. Iterator' /\ Wakeups'
    BY <1>2, <1>3, <2>1 DEF Iterator, Wakeups, MailLife
  <2>6. MailLife'
    BY <1>2, <1>3, <2>1 DEF MailLife
  <2> QED
    BY <2>2, <2>4, <2>5, <2>6
<1>4. CASE object # "deleted"
  <2>1. /\ object' = "live"
        /\ mails' = Append(mails, sentMails + 1)
        /\ thread' = IF object = "none" THEN "loop" ELSE Notified
        /\ mailFault' = mailFault
    BY <1>4 DEF Send
  <2>2. sentMails + 1 \in Nat /\ sentMails + 1 = Erased + Len(mails) + 1
    BY <1>1, <1>2, <1>4 DEF MailList
  <2>3. /\ mails' \in Seq(Nat) /\ Len(mails') = Len(mails) + 1
        /\ Run(mails', Erased)
    BY <1>1, <2>1, <2>2, RunAppend
  <2>4. \/ thread = "none" /\ thread' = "loop"
        \/ thread = "waiting" /\ thread' = "woken"
        \/ thread # "waiting" /\ thread' = thread
    BY <2>1 DEF Notified, MailLife
  <2>5. MailTyped'
    BY <1>2, <2>1, <2>3, <2>4 DEF MailTyped
  <2>6. Erased' = Erased
    BY <1>2, <2>4 DEF Erased
  <2>7. MailList'
    <3>1. sentMails' = Erased + Len(mails')
      BY <1>1, <1>2, <2>2, <2>3
    <3> QED
      BY <1>1, <1>2, <2>3, <2>6, <3>1 DEF MailList
  <2>8. Iterator'
    BY <1>1, <1>2, <2>1, <2>3, <2>4 DEF Iterator
  <2>9. MailLife'
    BY <1>2, <1>4, <2>1, <2>4 DEF MailLife
  <2>10. Wakeups'
    BY <1>1, <1>2, <2>1, <2>3, <2>4 DEF Wakeups
  <2> QED
    BY <2>5, <2>7, <2>8, <2>9, <2>10
<1> QED
  BY <1>3, <1>4

\* sender::shutdown sets should_exit_ and notifies.
LEMMA ShutdownBeginKeeps ==
  ASSUME MailInv, ShutdownBegin
  PROVE  MailInv'
<1> USE DEF MailInv
<1>1. /\ Len(mails) \in Nat /\ Len(tried) \in Nat
  BY MailFacts
<1>2. /\ object # "none" /\ stopping = FALSE /\ shutdowns' = shutdowns + 1 /\ shutdowns \in Nat
      /\ UNCHANGED <<object, mails, iter, tried, sentMails, spurious>>
  BY DEF ShutdownBegin, MailTyped
<1>3. CASE object = "deleted"
  <2>1. mailFault' = "deleted" /\ UNCHANGED <<thread, should_exit, stopping>>
    BY <1>3 DEF ShutdownBegin
  <2>2. MailTyped'
    BY <1>2, <2>1 DEF MailTyped
  <2>3. Erased' = Erased
    BY <1>2, <2>1 DEF Erased
  <2>4. MailList'
    BY <1>2, <1>3, <2>1, <2>3 DEF MailList
  <2>5. Iterator' /\ Wakeups'
    BY <1>2, <1>3, <2>1 DEF Iterator, Wakeups, MailLife
  <2>6. MailLife'
    BY <1>2, <1>3, <2>1 DEF MailLife
  <2> QED
    BY <2>2, <2>4, <2>5, <2>6
<1>4. CASE object # "deleted"
  <2>1. should_exit' = TRUE /\ stopping' = TRUE /\ thread' = Notified /\ mailFault' = mailFault
    BY <1>4 DEF ShutdownBegin
  <2>2. \/ thread = "waiting" /\ thread' = "woken"
        \/ thread # "waiting" /\ thread' = thread
    BY <2>1 DEF Notified
  <2>3. MailTyped'
    BY <1>2, <2>1, <2>2 DEF MailTyped
  <2>4. Erased' = Erased
    BY <1>2, <2>2 DEF Erased
  <2>5. MailList'
    BY <1>2, <2>4 DEF MailList
  <2>6. Iterator'
    BY <1>2, <2>1, <2>2 DEF Iterator
  <2>7. MailLife'
    BY <1>2, <1>4, <2>1, <2>2 DEF MailLife
  <2>8. Wakeups'
    BY <1>2, <2>1, <2>2 DEF Wakeups
  <2> QED
    BY <2>3, <2>5, <2>6, <2>7, <2>8
<1> QED
  BY <1>3, <1>4

\* The join has returned, and the sender is deleted.
LEMMA ShutdownEndKeeps ==
  ASSUME MailInv, ShutdownEnd
  PROVE  MailInv'
<1> USE DEF MailInv
<1>1. /\ stopping = TRUE /\ thread = "ended" /\ object' = "deleted" /\ stopping' = FALSE
      /\ UNCHANGED <<mails, thread, iter, should_exit, tried, sentMails, shutdowns, spurious,
                     mailFault>>
  BY DEF ShutdownEnd, MailTyped
<1>2. MailTyped'
  BY <1>1 DEF MailTyped
<1>3. Erased' = Erased
  BY <1>1 DEF Erased
<1>4. MailList'
  BY <1>1, <1>3 DEF MailList
<1>5. Iterator' /\ Wakeups'
  BY <1>1 DEF Iterator, Wakeups
<1>6. MailLife'
  BY <1>1 DEF MailLife
<1> QED
  BY <1>2, <1>4, <1>5, <1>6

\* The iterator is set to the head of the list, or to its end.
LEMMA FirstFacts ==
  ASSUME MailInv, thread # "erase"
  PROVE  /\ First \in Nat
         /\ Len(mails) = 0 => First = 0
         /\ Len(mails) > 0 => First = Len(tried) + 1
         /\ Erased = Len(tried)
<1>1. /\ mails \in Seq(Nat) /\ Len(mails) \in Nat /\ Len(tried) \in Nat
      /\ Erased \in Nat /\ Run(mails, Erased)
      /\ (mails = << >>) <=> (Len(mails) = 0)
  BY MailFacts
<1>2. Erased = Len(tried)
  BY DEF Erased
<1>3. Len(mails) > 0 => Head(mails) = Erased + 1
  BY <1>1, RunHead
<1> QED
  BY <1>1, <1>2, <1>3 DEF First

\* The steps of the thread that leave the list and the history alone.
LEMMA ThreadKeeps ==
  ASSUME MailInv, mailFault = "none", Loop \/ Take \/ SpuriousWakeup \/ Woken
  PROVE  MailInv'
<1> USE DEF MailInv
<1>1. /\ Len(mails) \in Nat /\ Len(tried) \in Nat
      /\ (mails = << >>) <=> (Len(mails) = 0)
  BY MailFacts
<1>2. UNCHANGED <<object, mails, should_exit, stopping, tried, sentMails, shutdowns, mailFault>>
  BY DEF Loop, Take, SpuriousWakeup, Woken
<1>3. thread \in {"loop", "locked", "waiting", "woken"}
  BY DEF Loop, Take, SpuriousWakeup, Woken
<1>4. thread' \in {"ended", "locked", "waiting", "woken", "deliver"}
  BY DEF Loop, Take, SpuriousWakeup, Woken
<1>5. /\ First \in Nat
      /\ Len(mails) = 0 => First = 0
      /\ Len(mails) > 0 => First = Len(tried) + 1
  BY <1>3, FirstFacts
<1>6. spurious' \in BOOLEAN /\ (spurious = TRUE => spurious' = TRUE)
  BY DEF Loop, Take, SpuriousWakeup, Woken, MailTyped
<1>7. iter' = iter \/ iter' = First
  BY DEF Loop, Take, SpuriousWakeup, Woken
<1>8. MailTyped'
  <2>1. iter' \in Nat
    BY <1>5, <1>7 DEF MailTyped
  <2> QED
    BY <1>2, <1>4, <1>6, <2>1 DEF MailTyped
<1>9. MailList'
  <2>1. Erased' = Erased
    BY <1>2, <1>3, <1>4 DEF Erased
  <2> QED
    BY <1>2, <2>1 DEF MailList
<1>10. thread' = "deliver" => iter' = First
  BY DEF Loop, Take, SpuriousWakeup, Woken
<1>11. Iterator'
  <2>1. thread' = "deliver" /\ iter' # 0 => iter' = Len(tried) + 1 /\ Len(mails) > 0
    BY <1>1, <1>5, <1>10
  <2> QED
    BY <1>2, <1>4, <2>1 DEF Iterator
<1>12. MailLife'
  <2>1. should_exit = TRUE => thread' # "waiting"
    BY DEF Loop, Take, SpuriousWakeup, Woken, MailLife
  <2>2. object # "none" /\ object # "deleted"
    BY <1>3 DEF MailLife
  <2> QED
    BY <1>2, <2>1, <2>2 DEF MailLife
<1>13. Wakeups'
  <2>1. thread' = "woken" => spurious' = TRUE
    BY DEF Loop, Take, SpuriousWakeup, Woken
  <2>2. thread' = "deliver" /\ Len(mails) = 0 => spurious' = TRUE
    BY <1>1 DEF Loop, Take, SpuriousWakeup, Woken, Wakeups
  <2>3. thread' = "deliver" /\ iter' = 0 => Len(mails) = 0
    BY <1>1, <1>5, <1>10
  <2> QED
    BY <1>2, <1>6, <2>1, <2>2, <2>3 DEF Wakeups
<1> QED
  BY <1>8, <1>9, <1>11, <1>12, <1>13

\* The dialogue with the server.
LEMMA DeliverKeeps ==
  ASSUME MailInv, mailFault = "none", Deliver
  PROVE  MailInv'
<1> USE DEF MailInv
<1>1. /\ mails \in Seq(Nat) /\ tried \in Seq(Nat) /\ Len(mails) \in Nat /\ Len(tried) \in Nat
      /\ Run(mails, Erased) /\ Run(tried, 0)
  BY MailFacts
<1>2. /\ thread = "deliver" /\ thread' = "erase"
      /\ UNCHANGED <<object, mails, iter, should_exit, stopping, sentMails, shutdowns, spurious>>
  BY DEF Deliver
<1>3. Erased = Len(tried)
  BY <1>2 DEF Erased
<1>4. CASE iter = 0
  <2>1. mailFault' = "end" /\ tried' = tried
    BY <1>4 DEF Deliver
  <2>2. MailTyped'
    BY <1>2, <2>1 DEF MailTyped
  <2>3. Erased' = Erased
    BY <1>2, <1>3, <1>4, <2>1 DEF Erased
  <2>4. MailList'
    BY <1>2, <2>1, <2>3 DEF MailList
  <2>5. Iterator' /\ Wakeups'
    BY <1>2, <1>4, <2>1 DEF Iterator, Wakeups
  <2>6. MailLife'
    BY <1>2, <2>1 DEF MailLife
  <2> QED
    BY <2>2, <2>4, <2>5, <2>6
<1>5. CASE iter # 0
  <2>1. mailFault' = "none" /\ tried' = Append(tried, iter)
    BY <1>5 DEF Deliver
  <2>2. iter = Len(tried) + 1 /\ Len(mails) > 0
    BY <1>2, <1>5 DEF Iterator
  <2>3. iter \in Nat /\ iter = 0 + Len(tried) + 1
    BY <1>1, <2>2
  <2>4. tried' \in Seq(Nat) /\ Len(tried') = Len(tried) + 1 /\ Run(tried', 0)
    BY <1>1, <2>1, <2>3, RunAppend
  <2>5. MailTyped'
    BY <1>2, <2>1, <2>4 DEF MailTyped
  <2>6. Erased' = Erased
    <3>1. Erased' = Len(tried') - 1
      BY <1>2, <1>5 DEF Erased
    <3> QED
      BY <1>1, <1>3, <2>4, <3>1
  <2>7. MailList'
    BY <1>2, <2>4, <2>6 DEF MailList
  <2>8. Iterator'
    BY <1>1, <1>2, <1>5, <2>2, <2>4 DEF Iterator
  <2>9. MailLife' /\ Wakeups'
    BY <1>2, <2>1 DEF MailLife, Wakeups
  <2> QED
    BY <2>5, <2>7, <2>8, <2>9
<1> QED
  BY <1>4, <1>5

\* mails_.erase(i): the mail that was tried goes, and no other.
LEMMA EraseKeeps ==
  ASSUME MailInv, mailFault = "none", Erase
  PROVE  MailInv'
<1> USE DEF MailInv
<1>1. /\ mails \in Seq(Nat) /\ Len(mails) \in Nat /\ Len(tried) \in Nat
      /\ Erased \in Nat /\ Run(mails, Erased)
  BY MailFacts
<1>2. /\ thread = "erase" /\ thread' = "loop"
      /\ UNCHANGED <<object, iter, should_exit, stopping, tried, sentMails, shutdowns, spurious,
                     mailFault>>
  BY DEF Erase
<1>3. PICK j \in DOMAIN mails : mails[j] = iter /\ mails' = RemoveAt(mails, j)
  BY DEF Erase
<1>4. iter # 0 /\ iter = Len(tried)
  BY <1>2 DEF Iterator
<1>5. Erased = Len(tried) - 1
  BY <1>2, <1>4 DEF Erased
<1>6. mails[j] = Erased + 1
  BY <1>1, <1>3, <1>4, <1>5
<1>7. mails' \in Seq(Nat) /\ Len(mails') = Len(mails) - 1 /\ Run(mails', Erased + 1)
  BY <1>1, <1>3, <1>6, RunErase
<1>8. MailTyped'
  BY <1>2, <1>7 DEF MailTyped
<1>9. Erased' = Erased + 1
  <2>1. Erased' = Len(tried)
    BY <1>2 DEF Erased
  <2> QED
    BY <1>1, <1>5, <2>1
<1>10. MailList'
  <2>1. object # "deleted" => sentMails = (Erased + 1) + Len(mails')
    BY <1>1, <1>7 DEF MailList
  <2> QED
    BY <1>2, <1>7, <1>9, <2>1 DEF MailList
<1>11. Iterator' /\ MailLife' /\ Wakeups'
  BY <1>2 DEF Iterator, MailLife, Wakeups
<1> QED
  BY <1>8, <1>10, <1>11

\* Every step of the sender keeps the invariant.
LEMMA MailStep == MailInv /\ [MailNext]_mailVars => MailInv'
<1> SUFFICES ASSUME MailInv, [MailNext]_mailVars PROVE MailInv'
  OBVIOUS
<1>1. CASE UNCHANGED mailVars
  <2> USE <1>1 DEF mailVars, MailInv
  <2>1. Erased' = Erased
    BY DEF Erased
  <2>2. MailTyped' /\ Iterator' /\ MailLife' /\ Wakeups'
    BY DEF MailTyped, Iterator, MailLife, Wakeups
  <2>3. MailList'
    BY <2>1 DEF MailList
  <2> QED
    BY <2>2, <2>3
<1>2. CASE MailNext
  <2>1. mailFault = "none"
    BY <1>2 DEF MailNext
  <2>2. CASE Send
    BY <2>2, SendKeeps
  <2>3. CASE ShutdownBegin
    BY <2>3, ShutdownBeginKeeps
  <2>4. CASE ShutdownEnd
    BY <2>4, ShutdownEndKeeps
  <2>5. CASE Loop \/ Take \/ SpuriousWakeup \/ Woken
    BY <2>1, <2>5, ThreadKeeps
  <2>6. CASE Deliver
    BY <2>1, <2>6, DeliverKeeps
  <2>7. CASE Erase
    BY <2>1, <2>7, EraseKeeps
  <2> QED
    BY <1>2, <2>2, <2>3, <2>4, <2>5, <2>6, <2>7 DEF MailNext
<1> QED
  BY <1>1, <1>2

\* Before the first append there is no sender.
LEMMA MailStart == MailInit => MailInv
<1> SUFFICES ASSUME MailInit PROVE MailInv
  OBVIOUS
<1> USE DEF MailInit
<1>1. Len(<< >>) = 0 /\ Erased = 0
  BY DEF Erased
<1>2. MailTyped
  <2>1. mails \in Seq(Nat) /\ tried \in Seq(Nat)
    BY EmptySeq
  <2>2. iter \in Nat /\ sentMails \in Nat /\ shutdowns \in Nat
    OBVIOUS
  <2>3. should_exit \in BOOLEAN /\ stopping \in BOOLEAN /\ spurious \in BOOLEAN
    BY Zenon
  <2>4. object = "none" /\ thread = "none" /\ mailFault = "none"
    OBVIOUS
  <2> HIDE DEF MailInit
  <2> QED
    BY <2>1, <2>2, <2>3, <2>4 DEF MailTyped
<1>4. Iterator /\ MailLife /\ Wakeups
  BY <1>1 DEF Iterator, MailLife, Wakeups
<1>3. MailList
  BY <1>1 DEF MailList, Run
<1> QED
  BY <1>2, <1>3, <1>4 DEF MailInv

\* The sender thread of the SmtpAppender takes every mail once and in order to
\* the server, none is lost from between list and server before a shutdown, no
\* shutdown joins a waiting thread, and the ends of list and sender are run
\* into only as MailsInOrder says.
THEOREM MailsAreSentInOrder == MailSpec => []MailsInOrder
<1>1. MailInv => MailsInOrder
  <2> SUFFICES ASSUME MailInv PROVE MailsInOrder
    OBVIOUS
  <2> USE DEF MailInv
  <2>1. /\ mails \in Seq(Nat) /\ tried \in Seq(Nat) /\ Len(mails) \in Nat /\ Len(tried) \in Nat
        /\ Erased \in Nat /\ Run(mails, Erased) /\ Run(tried, 0) /\ Erased <= Len(tried)
    BY MailFacts DEF Erased
  <2>2. tried = [i \in 1..Len(tried) |-> i]
    <3>1. tried = [i \in 1..Len(tried) |-> tried[i]]
      BY <2>1, LenProperties
    <3>2. \A i \in 1..Len(tried) : tried[i] = i
      <4>1. \A i \in 1..Len(tried) : 0 + i = i
        BY <2>1
      <4> QED
        BY <2>1, <4>1 DEF Run
    <3> QED
      BY <3>1, <3>2
  <2>3. ASSUME NEW i \in 1..sentMails, ~should_exit, ~(i <= Len(tried))
        PROVE  i \in Range(mails)
    <3>1. object # "deleted"
      BY <2>3 DEF MailLife
    <3>2. sentMails = Erased + Len(mails)
      BY <3>1 DEF MailList
    <3>3. PICK j : j = i - Erased
      OBVIOUS
    <3>4. j \in 1..Len(mails) /\ Erased + j = i
      BY <2>1, <2>3, <3>2, <3>3
    <3>5. mails[j] = i
      BY <2>1, <3>4 DEF Run
    <3>6. DOMAIN mails = 1..Len(mails)
      BY <2>1, LenProperties
    <3> QED
      BY <3>4, <3>5, <3>6 DEF Range
  <2>4. stopping => thread # "waiting"
    BY DEF MailLife, MailTyped
  <2>5. mailFault = "end" => spurious
    BY DEF Wakeups
  <2>6. mailFault = "deleted" => shutdowns > 0 /\ ~stopping /\ thread = "ended"
    BY DEF MailLife
  <2> QED
    BY <2>2, <2>3, <2>4, <2>5, <2>6 DEF MailsInOrder
<1> QED
  BY <1>1, MailStart, MailStep, PTL DEF MailSpec
-----------------------------------------------------------------------------
(***************************************************************************)
(* Categories, appenders and configurators.                                *)
(***************************************************************************)

\* The category tree: names are sequences of parts, a category comes with its
\* ancestors, and the root has a priority.
CatOk(c) ==
    \A n \in DOMAIN c :
        /\ n \in Seq(STRING) /\ Prefixes(n) \subseteq DOMAIN c
        /\ c[n] \in CategoryType
        /\ n = << >> => c[n].priority < NOTSET

\* The heap, the registry r and the map l of the configurator.
HeapOk(p, r, l) ==
    /\ DOMAIN p = Apps
    /\ \A n \in DOMAIN r : n # NULL /\ r[n] \in Apps
    /\ \A n \in DOMAIN l : l[n] \in Apps \cup {NULL}

\* Who owns what: an attached appender is live, an owned one is attached
\* nowhere else and not known to the configurator.
Ownership(c, p, r, l) ==
    /\ \A n \in DOMAIN c : \A a \in c[n].appender : p[a] # NULL
    /\ \A n \in DOMAIN c : c[n].owns \subseteq c[n].appender
    /\ \A n, m \in DOMAIN c : \A a \in c[n].owns : a \in c[m].appender => n = m
    /\ \A n \in DOMAIN c : \A a \in c[n].owns : \A m \in DOMAIN l : l[m] # a
    /\ \A n \in DOMAIN r : p[r[n]] = n
    /\ \A n \in DOMAIN l : l[n] = NULL \/ p[l[n]] # NULL

\* The calls in progress.
Progress ==
    /\ log # NULL => log.at \in DOMAIN cat
    /\ stream # NULL => stream \in StreamType
    /\ cfg # NULL => cfg.apps \in Seq(AppenderLines) /\ cfg.cats \in Seq(CategoryLines)
    /\ failed \in BOOLEAN /\ forced \in BOOLEAN

\* A null entry is left by a failed configuration only, and followed only then.
NullEntries ==
    /\ (\E n \in DOMAIN all : all[n] = NULL) => failed = TRUE
    /\ fault = "null" => failed = TRUE

\* No registration replaces a built-in creator.
BuiltInKept ==
    \A k \in DOMAIN creators :
        /\ DOMAIN BuiltIn(k) \subseteq DOMAIN creators[k]
        /\ \A n \in DOMAIN BuiltIn(k) : creators[k][n] = BuiltIn(k)[n]

\* The inductive invariant.
LogInv ==
    /\ CatOk(cat) /\ HeapOk(app, reg, all) /\ Progress /\ NullEntries /\ BuiltInKept
    /\ forced = FALSE => Ownership(cat, app, reg, all) /\ fault # "memory"

\* WithInstance for the map c of categories.
Missing(c, n) ==
    {m \in Prefixes(n) : \A k \in Prefixes(n) \cap DOMAIN c : m \notin Prefixes(k)}
Completed(c, n) ==
    [m \in DOMAIN c \cup Missing(c, n) |-> IF m \in DOMAIN c THEN c[m] ELSE NewCategory(m)]

\* Unregister and Freed for the registry r and the heap p.
Deregistered(p, r, S) == [m \in DOMAIN r \ {p[a] : a \in S} |-> r[m]]
Less(p, S) == [a \in Apps |-> IF a \in S THEN NULL ELSE p[a]]

-----------------------------------------------------------------------------
(***************************************************************************)
(* Category names.                                                         *)
(***************************************************************************)

\* The beginnings of a name: the root, the name itself, its parent, and the
\* beginnings of a beginning.
LEMMA PrefixFacts ==
    ASSUME NEW n \in Seq(STRING)
    PROVE  /\ Prefixes(n) \subseteq Seq(STRING)
           /\ << >> \in Prefixes(n) /\ n \in Prefixes(n)
           /\ n # << >> => Parent(n) \in Prefixes(n)
           /\ \A m \in Prefixes(n) : Prefixes(m) \subseteq Prefixes(n)
<1>1. Len(n) \in Nat
  BY LenProperties
<1>2. \A i \in 0..Len(n) : SubSeq(n, 1, i) \in Seq(STRING) /\ Len(SubSeq(n, 1, i)) = i
  BY <1>1, SubSeqProperties
<1>3. Prefixes(n) \subseteq Seq(STRING)
  BY <1>2 DEF Prefixes
<1>4. << >> \in Prefixes(n)
  <2>1. SubSeq(n, 1, 0) = << >>
    OBVIOUS
  <2> QED BY <2>1, <1>1 DEF Prefixes
<1>5. n \in Prefixes(n)
  <2>1. SubSeq(n, 1, Len(n)) = n
    BY SubSeqFull
  <2>2. Len(n) \in 0..Len(n)
    BY <1>1
  <2>3. SubSeq(n, 1, Len(n)) \in Prefixes(n)
    BY <2>2 DEF Prefixes
  <2> QED BY <2>1, <2>3
<1>6. ASSUME n # << >> PROVE Parent(n) \in Prefixes(n)
  <2>1. Len(n) - 1 \in 0..Len(n)
    BY <1>6, <1>1, EmptySeq
  <2> QED BY <2>1 DEF Prefixes, Parent, Front
<1>7. ASSUME NEW m \in Prefixes(n), NEW k \in Prefixes(m) PROVE k \in Prefixes(n)
  <2>1. PICK i \in 0..Len(n) : m = SubSeq(n, 1, i)
    BY DEF Prefixes
  <2>2. m \in Seq(STRING) /\ Len(m) = i
    BY <2>1, <1>2
  <2>3. PICK j \in 0..Len(m) : k = SubSeq(m, 1, j)
    BY DEF Prefixes
  <2>4. j \in 0..Len(n) /\ j <= i /\ i <= Len(n)
    BY <2>2, <2>3, <1>1
  <2>5. SubSeq(SubSeq(n, 1, i), 1, j) = SubSeq(n, 1, j)
    BY <2>4, <1>1, <2>1
  <2> QED BY <2>5, <2>4, <2>3, <2>1 DEF Prefixes
<1> QED BY <1>3, <1>4, <1>5, <1>6, <1>7

\* A bounded set of numbers has a greatest.
LEMMA Greatest ==
    ASSUME NEW b \in Nat, NEW S, S \subseteq 0..b, S # {}
    PROVE  \E i \in S : \A j \in S : j <= i
<1> DEFINE T == {b - i : i \in S}
<1>1. T \subseteq Nat /\ T # {}
  OBVIOUS
<1>2. PICK x \in T : \A y \in T : ~(<<y, x>> \in OpToRel(<, Nat))
  <2> HIDE DEF T
  <2> QED BY <1>1, NatLessThanWellFounded, WFMin
<1>3. \A y \in T : ~(y < x)
  BY <1>1, <1>2 DEF OpToRel
<1>4. PICK i \in S : x = b - i
  OBVIOUS
<1>5. ASSUME NEW j \in S PROVE j <= i
  <2>1. b - j \in T
    OBVIOUS
  <2>2. ~(b - j < b - i)
    BY <2>1, <1>3, <1>4
  <2> QED BY <2>2
<1> QED BY <1>5

-----------------------------------------------------------------------------
(***************************************************************************)
(* The category tree.                                                      *)
(***************************************************************************)

\* A new category has no appender.
LEMMA NewCategoryFacts ==
    ASSUME NEW n
    PROVE  /\ NewCategory(n) \in CategoryType
           /\ n = << >> => NewCategory(n).priority < NOTSET
           /\ NewCategory(n).appender = {} /\ NewCategory(n).owns = {}
BY DEF NewCategory, CategoryType, INFO, NOTSET

\* getInstance completes the tree and leaves the categories that exist.
LEMMA WithFacts ==
    ASSUME NEW c, CatOk(c), NEW n \in Seq(STRING)
    PROVE  /\ CatOk(Completed(c, n))
           /\ n \in DOMAIN Completed(c, n)
           /\ DOMAIN c \subseteq DOMAIN Completed(c, n)
           /\ \A m \in DOMAIN Completed(c, n) :
                IF m \in DOMAIN c THEN Completed(c, n)[m] = c[m]
                ELSE Completed(c, n)[m].appender = {} /\ Completed(c, n)[m].owns = {}
<1> DEFINE d == Completed(c, n)
<1>1. DOMAIN d = DOMAIN c \cup Missing(c, n)
  BY DEF Completed
<1>2. /\ \A m \in DOMAIN c : d[m] = c[m]
      /\ \A m \in DOMAIN d : m \notin DOMAIN c => d[m] = NewCategory(m)
  BY DEF Completed
<1>3. \A m \in DOMAIN c : m \in Seq(STRING) /\ Prefixes(m) \subseteq DOMAIN c
  BY DEF CatOk
<1>4. Prefixes(n) \subseteq DOMAIN d
  <2> SUFFICES ASSUME NEW m \in Prefixes(n), m \notin Missing(c, n) PROVE m \in DOMAIN c
    BY <1>1
  <2>1. PICK k \in Prefixes(n) \cap DOMAIN c : m \in Prefixes(k)
    BY DEF Missing
  <2> QED BY <2>1, <1>3
<1>5. n \in DOMAIN d
  BY <1>4, PrefixFacts
<1>6. \A m \in DOMAIN d : m \in Seq(STRING) /\ Prefixes(m) \subseteq DOMAIN d
  <2> SUFFICES ASSUME NEW m \in DOMAIN d PROVE m \in Seq(STRING) /\ Prefixes(m) \subseteq DOMAIN d
    OBVIOUS
  <2>1. CASE m \in DOMAIN c
    BY <2>1, <1>1, <1>3
  <2>2. CASE m \notin DOMAIN c
    <3>1. m \in Prefixes(n)
      BY <2>2, <1>1 DEF Missing
    <3>2. m \in Seq(STRING) /\ Prefixes(m) \subseteq Prefixes(n)
      BY <3>1, PrefixFacts
    <3> QED BY <3>2, <1>4
  <2> QED BY <2>1, <2>2
<1>7. \A m \in DOMAIN d : d[m] \in CategoryType /\ (m = << >> => d[m].priority < NOTSET)
  <2> SUFFICES ASSUME NEW m \in DOMAIN d
               PROVE d[m] \in CategoryType /\ (m = << >> => d[m].priority < NOTSET)
    OBVIOUS
  <2>1. CASE m \in DOMAIN c
    <3>1. c[m] \in CategoryType /\ (m = << >> => c[m].priority < NOTSET)
      BY <2>1 DEF CatOk
    <3> QED BY <3>1, <2>1, <1>2
  <2>2. CASE m \notin DOMAIN c
    BY <2>2, <1>2, NewCategoryFacts
  <2> QED BY <2>1, <2>2
<1>8. CatOk(d)
  BY <1>6, <1>7 DEF CatOk
<1>9. \A m \in DOMAIN d : IF m \in DOMAIN c THEN d[m] = c[m]
                          ELSE d[m].appender = {} /\ d[m].owns = {}
  BY <1>2, NewCategoryFacts
<1> HIDE DEF d
<1> QED BY <1>1, <1>5, <1>8, <1>9 DEF d

\* A category is replaced.
LEMMA ReplaceFacts ==
    ASSUME NEW c, CatOk(c), NEW n \in DOMAIN c, NEW k \in CategoryType,
           n = << >> => k.priority < NOTSET
    PROVE  CatOk([c EXCEPT ![n] = k])
<1> DEFINE d == [c EXCEPT ![n] = k]
<1>1. DOMAIN d = DOMAIN c /\ \A m \in DOMAIN c : d[m] = IF m = n THEN k ELSE c[m]
  OBVIOUS
<1> HIDE DEF d
<1>2. ASSUME NEW m \in DOMAIN d
      PROVE  /\ m \in Seq(STRING) /\ Prefixes(m) \subseteq DOMAIN d
             /\ d[m] \in CategoryType
             /\ m = << >> => d[m].priority < NOTSET
  <2>1. /\ m \in Seq(STRING) /\ Prefixes(m) \subseteq DOMAIN c
        /\ c[m] \in CategoryType
        /\ m = << >> => c[m].priority < NOTSET
    BY <1>1 DEF CatOk
  <2> QED BY <2>1, <1>1
<1>3. CatOk(d)
  BY <1>2 DEF CatOk
<1> QED BY <1>3 DEF d

\* Every category finds a priority: the root has one.
LEMMA PriorityFound ==
    ASSUME NEW c, CatOk(c), NEW n \in DOMAIN c
    PROVE  LET set == {m \in Prefixes(n) : c[m].priority < NOTSET}
           IN  set # {} /\ c[CHOOSE m \in set : \A k \in set : Len(k) <= Len(m)].priority \in Nat
<1> DEFINE set == {m \in Prefixes(n) : c[m].priority < NOTSET}
           S == {i \in 0..Len(n) : c[SubSeq(n, 1, i)].priority < NOTSET}
<1>1. /\ n \in Seq(STRING) /\ Prefixes(n) \subseteq DOMAIN c
      /\ \A m \in DOMAIN c : c[m] \in CategoryType
      /\ << >> \in DOMAIN c => c[<< >>].priority < NOTSET
  BY DEF CatOk
<1>2. << >> \in set
  BY <1>1, PrefixFacts
<1>3. Len(n) \in Nat /\ \A i \in 0..Len(n) : Len(SubSeq(n, 1, i)) = i
  BY <1>1, LenProperties, SubSeqProperties
<1>4. S \subseteq 0..Len(n)
  OBVIOUS
<1>5. S # {}
  <2>1. PICK i \in 0..Len(n) : << >> = SubSeq(n, 1, i)
    BY <1>2 DEF Prefixes
  <2>2. i \in S
    BY <2>1, <1>2
  <2> QED BY <2>2
<1>6. PICK i \in S : \A j \in S : j <= i
  <2> HIDE DEF S
  <2> QED BY <1>3, <1>4, <1>5, Greatest
<1>7. SubSeq(n, 1, i) \in set
  BY <1>6 DEF Prefixes
<1>8. ASSUME NEW k \in set PROVE Len(k) <= Len(SubSeq(n, 1, i))
  <2>1. PICK j \in 0..Len(n) : k = SubSeq(n, 1, j)
    BY DEF Prefixes
  <2>2. j \in S
    BY <2>1
  <2>3. Len(k) = j /\ Len(SubSeq(n, 1, i)) = i
    BY <2>1, <1>3, <1>4
  <2> QED BY <2>2, <2>3, <1>6
<1>9. \E m \in set : \A k \in set : Len(k) <= Len(m)
  <2> HIDE DEF set
  <2> QED BY <1>7, <1>8
<1>10. PICK x : x = CHOOSE m \in set : \A k \in set : Len(k) <= Len(m)
  OBVIOUS
<1>11. x \in set
  <2> HIDE DEF set
  <2> QED BY <1>9, <1>10
<1>12. c[x] \in CategoryType
  BY <1>11, <1>1
<1>13. c[x].priority \in Nat
  BY <1>12 DEF CategoryType
<1> QED BY <1>2, <1>10, <1>13
-----------------------------------------------------------------------------
(***************************************************************************)
(* Ownership.                                                              *)
(***************************************************************************)

\* Categories come that have no appender, appenders leave.
LEMMA OwnershipShrink ==
    ASSUME NEW c, NEW d, NEW p, NEW r, NEW l, Ownership(c, p, r, l),
           \A m \in DOMAIN d : d[m].owns \subseteq d[m].appender,
           \A m \in DOMAIN d : d[m].appender # {} =>
               /\ m \in DOMAIN c
               /\ d[m].appender \subseteq c[m].appender
               /\ d[m].owns \subseteq c[m].owns
    PROVE  Ownership(d, p, r, l)
<1>1. ASSUME NEW m \in DOMAIN d, NEW a \in d[m].appender
      PROVE  m \in DOMAIN c /\ a \in c[m].appender /\ p[a] # NULL
  BY <1>1 DEF Ownership
<1>2. ASSUME NEW m \in DOMAIN d, NEW a \in d[m].owns
      PROVE  m \in DOMAIN c /\ a \in c[m].owns
  <2>1. d[m].appender # {}
    BY <1>2
  <2> QED BY <2>1, <1>2
<1>3. ASSUME NEW n \in DOMAIN d, NEW m \in DOMAIN d, NEW a \in d[n].owns, a \in d[m].appender
      PROVE  n = m
  <2>1. n \in DOMAIN c /\ a \in c[n].owns /\ m \in DOMAIN c /\ a \in c[m].appender
    BY <1>1, <1>2, <1>3
  <2> QED BY <2>1 DEF Ownership
<1>4. ASSUME NEW n \in DOMAIN d, NEW a \in d[n].owns, NEW m \in DOMAIN l
      PROVE  l[m] # a
  <2>1. n \in DOMAIN c /\ a \in c[n].owns
    BY <1>2
  <2> QED BY <2>1 DEF Ownership
<1>5. /\ \A n \in DOMAIN r : p[r[n]] = n
      /\ \A n \in DOMAIN l : l[n] = NULL \/ p[l[n]] # NULL
  BY DEF Ownership
<1> QED BY <1>1, <1>3, <1>4, <1>5 DEF Ownership

\* The tree is completed.
LEMMA OwnershipWith ==
    ASSUME NEW c, CatOk(c), NEW n \in Seq(STRING),
           NEW p, NEW r, NEW l, Ownership(c, p, r, l)
    PROVE  Ownership(Completed(c, n), p, r, l)
<1>1. PICK d : d = Completed(c, n)
  OBVIOUS
<1>2. \A m \in DOMAIN d : IF m \in DOMAIN c THEN d[m] = c[m]
                          ELSE d[m].appender = {} /\ d[m].owns = {}
  BY <1>1, WithFacts
<1>3. \A m \in DOMAIN c : c[m].owns \subseteq c[m].appender
  BY DEF Ownership
<1>4. \A m \in DOMAIN d : d[m].owns \subseteq d[m].appender
  BY <1>2, <1>3
<1>5. \A m \in DOMAIN d : d[m].appender # {} =>
          /\ m \in DOMAIN c
          /\ d[m].appender \subseteq c[m].appender
          /\ d[m].owns \subseteq c[m].owns
  BY <1>2
<1> QED BY <1>1, <1>4, <1>5, OwnershipShrink

\* Appenders are deleted that nobody points to.
LEMMA OwnershipFree ==
    ASSUME NEW c, NEW p, NEW r, NEW l, Ownership(c, p, r, l), HeapOk(p, r, l),
           NEW S, S \subseteq Apps,
           \A m \in DOMAIN c : c[m] \in CategoryType,
           \A a \in S : \A m \in DOMAIN c : a \notin c[m].appender,
           \A a \in S : \A m \in DOMAIN l : l[m] # a
    PROVE  /\ Ownership(c, Less(p, S), Deregistered(p, r, S), l)
           /\ HeapOk(Less(p, S), Deregistered(p, r, S), l)
<1> PICK q : q = Less(p, S)
  OBVIOUS
<1> PICK t : t = Deregistered(p, r, S)
  OBVIOUS
<1>1. DOMAIN q = Apps /\ \A a \in Apps : q[a] = IF a \in S THEN NULL ELSE p[a]
  BY DEF Less
<1>2. /\ DOMAIN t = DOMAIN r \ {p[a] : a \in S}
      /\ \A n \in DOMAIN t : n \in DOMAIN r /\ t[n] = r[n]
  BY DEF Deregistered
<1>3. HeapOk(q, t, l)
  BY <1>1, <1>2 DEF HeapOk
<1>4. ASSUME NEW n \in DOMAIN c, NEW a \in c[n].appender PROVE q[a] # NULL
  <2>1. a \in Apps /\ a \notin S
    BY <1>4 DEF CategoryType
  <2>2. p[a] # NULL
    BY <1>4 DEF Ownership
  <2> QED BY <2>1, <2>2, <1>1
<1>5. ASSUME NEW n \in DOMAIN t PROVE q[t[n]] = n
  <2>1. n \in DOMAIN r /\ t[n] = r[n] /\ n \notin {p[a] : a \in S}
    BY <1>2, <1>5
  <2>2. p[r[n]] = n /\ r[n] \in Apps
    BY <2>1 DEF Ownership, HeapOk
  <2>3. r[n] \notin S
    BY <2>1, <2>2
  <2> QED BY <2>1, <2>2, <2>3, <1>1
<1>6. ASSUME NEW n \in DOMAIN l PROVE l[n] = NULL \/ q[l[n]] # NULL
  <2>1. l[n] \in Apps \cup {NULL} /\ l[n] \notin S
    BY <1>6 DEF HeapOk
  <2>2. l[n] = NULL \/ p[l[n]] # NULL
    BY <1>6 DEF Ownership
  <2> QED BY <2>1, <2>2, <1>1
<1>7. /\ \A n \in DOMAIN c : c[n].owns \subseteq c[n].appender
      /\ \A n, m \in DOMAIN c : \A a \in c[n].owns : a \in c[m].appender => n = m
      /\ \A n \in DOMAIN c : \A a \in c[n].owns : \A m \in DOMAIN l : l[m] # a
  BY DEF Ownership
<1>8. Ownership(c, q, t, l)
  BY <1>4, <1>5, <1>6, <1>7 DEF Ownership
<1> QED BY <1>3, <1>8

\* The heap and the registry stay sound when appenders are deleted.
LEMMA HeapFree ==
    ASSUME NEW p, NEW r, NEW l, HeapOk(p, r, l), NEW S
    PROVE  HeapOk(Less(p, S), Deregistered(p, r, S), l)
BY DEF HeapOk, Less, Deregistered

\* f with the entry a for n.
Entered(f, n, a) == [m \in DOMAIN f \cup {n} |-> IF m = n THEN a ELSE f[m]]

\* An appender is constructed under the name n.
LEMMA OwnershipConstruct ==
    ASSUME NEW c, NEW p, NEW r, NEW l, Ownership(c, p, r, l), HeapOk(p, r, l),
           \A m \in DOMAIN c : c[m] \in CategoryType,
           NEW a \in Apps, p[a] = NULL, NEW n, n # NULL
    PROVE  /\ Ownership(c, [p EXCEPT ![a] = n], Entered(r, n, a), l)
           /\ \A m \in DOMAIN c : a \notin c[m].appender /\ a \notin c[m].owns
           /\ \A m \in DOMAIN l : l[m] # a
<1> PICK q : q = [p EXCEPT ![a] = n]
  OBVIOUS
<1> PICK t : t = Entered(r, n, a)
  OBVIOUS
<1>1. \A b \in Apps : q[b] = IF b = a THEN n ELSE p[b]
  BY DEF HeapOk
<1>2. DOMAIN t = DOMAIN r \cup {n} /\ \A m \in DOMAIN t : t[m] = IF m = n THEN a ELSE r[m]
  BY DEF Entered
<1>3. ASSUME NEW m \in DOMAIN c, NEW b \in c[m].appender PROVE q[b] # NULL /\ b # a
  <2>1. b \in Apps
    BY <1>3 DEF CategoryType
  <2>2. p[b] # NULL
    BY <1>3 DEF Ownership
  <2> QED BY <2>1, <2>2, <1>1
<1>4. ASSUME NEW m \in DOMAIN t PROVE q[t[m]] = m
  <2>1. CASE m = n
    BY <2>1, <1>1, <1>2, <1>4
  <2>2. CASE m # n
    <3>1. m \in DOMAIN r /\ t[m] = r[m]
      BY <2>2, <1>2, <1>4
    <3>2. p[r[m]] = m /\ r[m] \in Apps /\ m # NULL
      BY <3>1 DEF Ownership, HeapOk
    <3> QED BY <3>1, <3>2, <1>1
  <2> QED BY <2>1, <2>2
<1>5. ASSUME NEW m \in DOMAIN l PROVE (l[m] = NULL \/ q[l[m]] # NULL) /\ l[m] # a
  <2>1. l[m] \in Apps \cup {NULL}
    BY <1>5 DEF HeapOk
  <2>2. l[m] = NULL \/ p[l[m]] # NULL
    BY <1>5 DEF Ownership
  <2> QED BY <2>1, <2>2, <1>1, HierarchyAssumption
<1>7. /\ \A m \in DOMAIN c : c[m].owns \subseteq c[m].appender
      /\ \A k, m \in DOMAIN c : \A b \in c[k].owns : b \in c[m].appender => k = m
      /\ \A m \in DOMAIN c : \A b \in c[m].owns : \A k \in DOMAIN l : l[k] # b
  BY DEF Ownership
<1>8. Ownership(c, q, t, l)
  BY <1>3, <1>4, <1>5, <1>7 DEF Ownership
<1>9. \A m \in DOMAIN c : a \notin c[m].appender /\ a \notin c[m].owns
  BY <1>3, <1>7
<1> QED BY <1>5, <1>8, <1>9

\* The heap and the registry stay sound when an appender is constructed.
LEMMA HeapConstruct ==
    ASSUME NEW p, NEW r, NEW l, HeapOk(p, r, l), NEW a \in Apps, NEW n, n # NULL
    PROVE  HeapOk([p EXCEPT ![a] = n], Entered(r, n, a), l)
BY DEF HeapOk, Entered

\* The configurator's map gets an entry: an appender that nobody owns, or null.
LEMMA OwnershipEntry ==
    ASSUME NEW c, NEW p, NEW r, NEW l, Ownership(c, p, r, l), HeapOk(p, r, l),
           NEW n, NEW a \in Apps \cup {NULL}, a = NULL \/ p[a] # NULL,
           \A m \in DOMAIN c : c[m] \in CategoryType,
           \A m \in DOMAIN c : a \notin c[m].owns
    PROVE  Ownership(c, p, r, Entered(l, n, a)) /\ HeapOk(p, r, Entered(l, n, a))
<1> PICK k : k = Entered(l, n, a)
  OBVIOUS
<1>1. DOMAIN k = DOMAIN l \cup {n} /\ \A m \in DOMAIN k : k[m] = IF m = n THEN a ELSE l[m]
  BY DEF Entered
<1>2. HeapOk(p, r, k)
  BY <1>1 DEF HeapOk
<1>3. /\ \A m \in DOMAIN c : \A b \in c[m].owns : \A i \in DOMAIN k : k[i] # b
      /\ \A m \in DOMAIN k : k[m] = NULL \/ p[k[m]] # NULL
  BY <1>1 DEF Ownership
<1>4. /\ \A m \in DOMAIN c : \A b \in c[m].appender : p[b] # NULL
      /\ \A m \in DOMAIN c : c[m].owns \subseteq c[m].appender
      /\ \A i, m \in DOMAIN c : \A b \in c[i].owns : b \in c[m].appender => i = m
      /\ \A m \in DOMAIN r : p[r[m]] = m
  BY DEF Ownership
<1>5. Ownership(c, p, r, k)
  BY <1>3, <1>4 DEF Ownership
<1> QED BY <1>2, <1>5

\* A category gets other appenders: live ones, each owned one new to all, each
\* shared one owned by nobody else.
LEMMA OwnershipAttach ==
    ASSUME NEW c, NEW p, NEW r, NEW l, Ownership(c, p, r, l),
           NEW n \in DOMAIN c, NEW k, k.owns \subseteq k.appender,
           \A a \in k.appender : p[a] # NULL,
           \A a \in k.appender : \A m \in DOMAIN c : a \in c[m].owns => m = n,
           \A a \in k.owns : \A m \in DOMAIN c : a \in c[m].appender => m = n,
           \A a \in k.owns : \A m \in DOMAIN l : l[m] # a
    PROVE  Ownership([c EXCEPT ![n] = k], p, r, l)
<1> PICK d : d = [c EXCEPT ![n] = k]
  OBVIOUS
<1>1. DOMAIN d = DOMAIN c /\ \A m \in DOMAIN c : d[m] = IF m = n THEN k ELSE c[m]
  OBVIOUS
<1>2. \A m \in DOMAIN d : \A a \in d[m].appender : p[a] # NULL
  BY <1>1 DEF Ownership
<1>3. \A m \in DOMAIN d : d[m].owns \subseteq d[m].appender
  BY <1>1 DEF Ownership
<1>4. ASSUME NEW i \in DOMAIN d, NEW m \in DOMAIN d, NEW a \in d[i].owns, a \in d[m].appender
      PROVE  i = m
  <2>1. CASE i # n /\ m # n
    BY <2>1, <1>1, <1>4 DEF Ownership
  <2>2. CASE i = n /\ m # n
    BY <2>2, <1>1, <1>4
  <2>3. CASE i # n /\ m = n
    BY <2>3, <1>1, <1>4
  <2> QED BY <2>1, <2>2, <2>3
<1>5. \A m \in DOMAIN d : \A a \in d[m].owns : \A i \in DOMAIN l : l[i] # a
  BY <1>1 DEF Ownership
<1>6. /\ \A m \in DOMAIN r : p[r[m]] = m
      /\ \A m \in DOMAIN l : l[m] = NULL \/ p[l[m]] # NULL
  BY DEF Ownership
<1>7. Ownership(d, p, r, l)
  BY <1>2, <1>3, <1>4, <1>5, <1>6 DEF Ownership
<1> QED BY <1>7
-----------------------------------------------------------------------------
(***************************************************************************)
(* What a step must show.                                                  *)
(***************************************************************************)

\* Steps on categories and appenders.
LEMMA HeapStep ==
    ASSUME LogInv, fault = "none", CatOk(cat'), HeapOk(app', reg', all),
           DOMAIN cat \subseteq DOMAIN cat', fault' \in {"none", "memory"},
           forced = FALSE => Ownership(cat', app', reg', all) /\ fault' # "memory",
           UNCHANGED <<all, forced, logVars, cfgVars>>, BuiltInKept'
    PROVE  LogInv'
<1>1. all' = all /\ forced' = forced /\ log' = log /\ stream' = stream /\ cfg' = cfg /\ failed' = failed
  BY DEF logVars, cfgVars
<1>2. Progress'
  <2>1. Progress
    BY DEF LogInv
  <2>2. stream # NULL => stream \in StreamType'
    <3>1. stream # NULL => stream \in StreamType
      BY <2>1 DEF Progress
    <3> QED BY <3>1 DEF StreamType
  <2> QED BY <2>1, <2>2, <1>1 DEF Progress
<1>3. NullEntries'
  BY <1>1 DEF LogInv, NullEntries
<1>4. HeapOk(app, reg, all)'
  BY <1>1
<1>5. (forced = FALSE => Ownership(cat, app, reg, all) /\ fault # "memory")'
  BY <1>1
<1> QED BY <1>2, <1>3, <1>4, <1>5 DEF LogInv

\* Steps on categories only.
LEMMA CatStep ==
    ASSUME LogInv, fault = "none", CatOk(cat'), DOMAIN cat \subseteq DOMAIN cat',
           forced = FALSE => Ownership(cat', app, reg, all),
           UNCHANGED <<heapVars, logVars, fault, cfgVars, creators>>
    PROVE  LogInv'
<1>1. app' = app /\ reg' = reg /\ all' = all /\ forced' = forced /\ fault' = fault
  BY DEF heapVars
<1>2. HeapOk(app', reg', all)
  BY <1>1 DEF LogInv
<1>3. forced = FALSE => Ownership(cat', app', reg', all) /\ fault' # "memory"
  BY <1>1
<1>4. BuiltInKept'
  BY DEF LogInv, BuiltInKept
<1>5. UNCHANGED <<all, forced, logVars, cfgVars>>
  BY <1>1
<1>6. fault' \in {"none", "memory"}
  BY <1>1
<1> QED BY <1>2, <1>3, <1>4, <1>5, <1>6, HeapStep

\* Steps of logging.
LEMMA LogStep ==
    ASSUME LogInv, fault = "none",
           log' # NULL => log'.at \in DOMAIN cat,
           stream' # NULL => stream' \in StreamType,
           fault' \in {"none", "memory", "width"},
           forced = FALSE => fault' # "memory",
           UNCHANGED <<cat, heapVars, cfgVars, creators>>
    PROVE  LogInv'
<1>1. /\ cat' = cat /\ app' = app /\ reg' = reg /\ all' = all /\ forced' = forced
      /\ cfg' = cfg /\ failed' = failed /\ creators' = creators
  BY DEF heapVars, cfgVars
<1>2. Progress'
  <2>1. StreamType' = StreamType
    BY <1>1 DEF StreamType
  <2>2. Progress
    BY DEF LogInv
  <2> QED BY <2>1, <2>2, <1>1 DEF Progress
<1>3. NullEntries' /\ BuiltInKept'
  BY <1>1 DEF LogInv, NullEntries, BuiltInKept
<1>4. CatOk(cat)' /\ HeapOk(app, reg, all)'
  BY <1>1 DEF LogInv
<1>5. (forced = FALSE => Ownership(cat, app, reg, all) /\ fault # "memory")'
  BY <1>1 DEF LogInv
<1> QED BY <1>2, <1>3, <1>4, <1>5 DEF LogInv
-----------------------------------------------------------------------------
(***************************************************************************)
(* The methods of Category and HierarchyMaintainer.                        *)
(***************************************************************************)

\* The two forms of getInstance agree.
LEMMA InstanceIsCompleted == ASSUME NEW n PROVE WithInstance(n) = Completed(cat, n)
BY DEF WithInstance, Created, Completed, Missing

\* getInstance, also when it completes a step of a configurator.
LEMMA GetInstanceKeeps ==
    ASSUME LogInv, fault = "none", NEW n \in Seq(STRING), cat' = WithInstance(n),
           UNCHANGED <<heapVars, logVars, fault, cfgVars, creators>>
    PROVE  LogInv'
<1>1. PICK c : c = cat
  OBVIOUS
<1>2. CatOk(c)
  BY <1>1 DEF LogInv
<1>3. cat' = Completed(c, n)
  BY <1>1, InstanceIsCompleted
<1>4. CatOk(cat') /\ DOMAIN cat \subseteq DOMAIN cat'
  BY <1>1, <1>2, <1>3, WithFacts
<1>5. forced = FALSE => Ownership(cat', app, reg, all)
  BY <1>1, <1>2, <1>3, OwnershipWith DEF LogInv
<1> QED BY <1>4, <1>5, CatStep

\* A category loses appenders, or another field changes.
LEMMA OwnershipLose ==
    ASSUME NEW c, NEW p, NEW r, NEW l, Ownership(c, p, r, l), NEW n \in DOMAIN c, NEW k,
           k.owns \subseteq k.appender,
           k.appender \subseteq c[n].appender, k.owns \subseteq c[n].owns
    PROVE  Ownership([c EXCEPT ![n] = k], p, r, l)
<1> PICK d : d = [c EXCEPT ![n] = k]
  OBVIOUS
<1>1. DOMAIN d = DOMAIN c /\ \A m \in DOMAIN c : d[m] = IF m = n THEN k ELSE c[m]
  OBVIOUS
<1>2. \A m \in DOMAIN c : c[m].owns \subseteq c[m].appender
  BY DEF Ownership
<1>3. \A m \in DOMAIN d : d[m].owns \subseteq d[m].appender
  BY <1>1, <1>2
<1>4. \A m \in DOMAIN d : d[m].appender # {} =>
          /\ m \in DOMAIN c
          /\ d[m].appender \subseteq c[m].appender
          /\ d[m].owns \subseteq c[m].owns
  BY <1>1
<1>5. Ownership(d, p, r, l)
  BY <1>3, <1>4, OwnershipShrink
<1> QED BY <1>5

\* setPriority and setAdditivity.
LEMMA SettersKeep ==
    ASSUME LogInv, fault = "none", NEW n \in DOMAIN cat,
           \/ \E p \in Levels : SetPriority(n, p)
           \/ \E b \in BOOLEAN : SetAdditivity(n, b),
           UNCHANGED <<cfgVars, creators>>
    PROVE  LogInv'
<1>1. PICK c : c = cat
  OBVIOUS
<1>2. CatOk(c) /\ n \in DOMAIN c
  BY <1>1 DEF LogInv
<1>3. c[n] \in CategoryType /\ (n = << >> => c[n].priority < NOTSET)
  BY <1>2 DEF CatOk
<1>4. PICK k : /\ cat' = [c EXCEPT ![n] = k] /\ k \in CategoryType
               /\ n = << >> => k.priority < NOTSET
               /\ k.appender = c[n].appender /\ k.owns = c[n].owns
  <2>1. CASE \E p \in Levels : SetPriority(n, p)
    <3>1. PICK p \in Levels : SetPriority(n, p)
      BY <2>1
    <3>2. p \in Nat /\ (n = << >> => p < NOTSET)
      BY <3>1, HierarchyAssumption DEF SetPriority, PriorityAccepted
    <3>3. cat' = [c EXCEPT ![n] = [c[n] EXCEPT !.priority = p]]
      BY <3>1, <1>1 DEF SetPriority
    <3> WITNESS [c[n] EXCEPT !.priority = p]
    <3> QED BY <3>2, <3>3, <1>3 DEF CategoryType
  <2>2. CASE \E b \in BOOLEAN : SetAdditivity(n, b)
    <3>1. PICK b \in BOOLEAN : SetAdditivity(n, b)
      BY <2>2
    <3>3. cat' = [c EXCEPT ![n] = [c[n] EXCEPT !.additive = b]]
      BY <3>1, <1>1 DEF SetAdditivity
    <3> WITNESS [c[n] EXCEPT !.additive = b]
    <3> QED BY <3>1, <3>3, <1>3 DEF CategoryType
  <2> QED BY <2>1, <2>2
<1>5. UNCHANGED <<heapVars, logVars, fault, cfgVars, creators>>
  BY DEF SetPriority, SetAdditivity
<1>6. CatOk(cat') /\ DOMAIN cat' = DOMAIN c
  BY <1>2, <1>4, ReplaceFacts
<1>7. forced = FALSE => Ownership(cat', app, reg, all)
  <2> SUFFICES ASSUME forced = FALSE PROVE Ownership(cat', app, reg, all)
    OBVIOUS
  <2>1. PICK p, r, l : p = app /\ r = reg /\ l = all
    OBVIOUS
  <2>2. Ownership(c, p, r, l)
    BY <2>1, <1>1 DEF LogInv
  <2>3. c[n].owns \subseteq c[n].appender
    BY <2>2, <1>2 DEF Ownership
  <2>4. Ownership([c EXCEPT ![n] = k], p, r, l)
    BY <2>2, <2>3, <1>2, <1>4, OwnershipLose
  <2> QED BY <2>1, <2>4, <1>4
<1> QED BY <1>1, <1>5, <1>6, <1>7, CatStep

\* What addAppender makes of a category.
LEMMA PlusFacts ==
    ASSUME NEW k \in CategoryType, NEW a \in Apps, NEW o \in BOOLEAN
    PROVE  /\ Plus(k, a, o) \in CategoryType
           /\ Plus(k, a, o).priority = k.priority
           /\ a \in k.appender => Plus(k, a, o) = k
           /\ a \notin k.appender =>
                /\ Plus(k, a, o).appender = k.appender \cup {a}
                /\ Plus(k, a, o).owns = IF o THEN k.owns \cup {a} ELSE k.owns \ {a}
BY DEF Plus, CategoryType

\* An appender that nobody has is given to a category.
LEMMA OwnershipGive ==
    ASSUME NEW c, CatOk(c), NEW p, NEW r, NEW l, Ownership(c, p, r, l), NEW n \in DOMAIN c,
           NEW a \in Apps, p[a] # NULL, \A m \in DOMAIN c : a \notin c[m].appender,
           \A m \in DOMAIN l : l[m] # a
    PROVE  Ownership([c EXCEPT ![n] = Plus(c[n], a, TRUE)], p, r, l)
<1>1. PICK k : k = Plus(c[n], a, TRUE)
  OBVIOUS
<1>2. c[n] \in CategoryType /\ a \notin c[n].appender
  BY DEF CatOk
<1>3. k.appender = c[n].appender \cup {a} /\ k.owns = c[n].owns \cup {a}
  BY <1>1, <1>2, PlusFacts
<1>4. /\ c[n].owns \subseteq c[n].appender
      /\ \A m \in DOMAIN c : c[m].owns \subseteq c[m].appender
      /\ \A b \in c[n].appender : p[b] # NULL
      /\ \A b \in c[n].owns : \A m \in DOMAIN l : l[m] # b
  BY DEF Ownership
<1>5. \A b \in k.appender : \A m \in DOMAIN c : b \in c[m].owns => m = n
  BY <1>3, <1>4 DEF Ownership
<1>6. \A b \in k.owns : \A m \in DOMAIN c : b \in c[m].appender => m = n
  BY <1>3 DEF Ownership
<1>7. /\ k.owns \subseteq k.appender
      /\ \A b \in k.appender : p[b] # NULL
      /\ \A b \in k.owns : \A m \in DOMAIN l : l[m] # b
  BY <1>3, <1>4
<1>8. Ownership([c EXCEPT ![n] = k], p, r, l)
  BY <1>5, <1>6, <1>7, OwnershipAttach
<1> QED BY <1>1, <1>8

\* A live appender that nobody owns is lent to a category.
LEMMA OwnershipLend ==
    ASSUME NEW c, CatOk(c), NEW p, NEW r, NEW l, Ownership(c, p, r, l), NEW n \in DOMAIN c,
           NEW a \in Apps, p[a] # NULL, \A m \in DOMAIN c : a \notin c[m].owns
    PROVE  Ownership([c EXCEPT ![n] = Plus(c[n], a, FALSE)], p, r, l)
<1>1. PICK k : k = Plus(c[n], a, FALSE)
  OBVIOUS
<1>2. c[n] \in CategoryType /\ a \notin c[n].owns
  BY DEF CatOk
<1>3. k.appender = c[n].appender \cup {a} /\ k.owns = c[n].owns
  <2>1. CASE a \in c[n].appender
    BY <2>1, <1>1, <1>2, PlusFacts
  <2>2. CASE a \notin c[n].appender
    <3>1. k.appender = c[n].appender \cup {a} /\ k.owns = c[n].owns \ {a}
      BY <2>2, <1>1, <1>2, PlusFacts
    <3> QED BY <3>1, <1>2
  <2> QED BY <2>1, <2>2
<1>4. /\ c[n].owns \subseteq c[n].appender
      /\ \A b \in c[n].appender : p[b] # NULL
      /\ \A b \in c[n].owns : \A m \in DOMAIN l : l[m] # b
  BY DEF Ownership
<1>5. \A b \in k.appender : \A m \in DOMAIN c : b \in c[m].owns => m = n
  BY <1>3 DEF Ownership
<1>6. \A b \in k.owns : \A m \in DOMAIN c : b \in c[m].appender => m = n
  BY <1>3 DEF Ownership
<1>7. /\ k.owns \subseteq k.appender
      /\ \A b \in k.appender : p[b] # NULL
      /\ \A b \in k.owns : \A m \in DOMAIN l : l[m] # b
  BY <1>3, <1>4
<1>8. Ownership([c EXCEPT ![n] = k], p, r, l)
  BY <1>5, <1>6, <1>7, OwnershipAttach
<1> QED BY <1>1, <1>8

\* addAppender, by pointer and by reference.
LEMMA AddKeeps ==
    ASSUME LogInv, fault = "none", NEW n \in DOMAIN cat, NEW a \in Apps,
           AddAppenderPtr(n, a) \/ AddAppenderRef(n, a), UNCHANGED <<cfgVars, creators>>
    PROVE  LogInv'
<1>1. PICK c, p, r, l : c = cat /\ p = app /\ r = reg /\ l = all
  OBVIOUS
<1>2. CatOk(c) /\ n \in DOMAIN c
  BY <1>1 DEF LogInv
<1>3. c[n] \in CategoryType /\ (n = << >> => c[n].priority < NOTSET)
  BY <1>2 DEF CatOk
<1>4. PICK o \in BOOLEAN : /\ cat' = [c EXCEPT ![n] = Plus(c[n], a, o)]
                           /\ o = TRUE => MayGive(a)
                           /\ o = FALSE => MayShare(a)
  <2>1. CASE AddAppenderPtr(n, a)
    BY <2>1, <1>1 DEF AddAppenderPtr
  <2>2. CASE AddAppenderRef(n, a)
    BY <2>2, <1>1 DEF AddAppenderRef
  <2> QED BY <2>1, <2>2
<1>5. UNCHANGED <<heapVars, logVars, fault, cfgVars, creators>>
  BY DEF AddAppenderPtr, AddAppenderRef
<1>6. CatOk(cat') /\ DOMAIN cat' = DOMAIN c
  <2>1. Plus(c[n], a, o) \in CategoryType /\ Plus(c[n], a, o).priority = c[n].priority
    <3>1. CASE o = TRUE
      BY <3>1, <1>3, PlusFacts
    <3>2. CASE o = FALSE
      BY <3>2, <1>3, PlusFacts
    <3> QED BY <3>1, <3>2, Zenon
  <2> QED BY <2>1, <1>2, <1>3, <1>4, ReplaceFacts
<1>7. forced = FALSE => Ownership(cat', app, reg, all)
  <2> SUFFICES ASSUME forced = FALSE PROVE Ownership(cat', app, reg, all)
    OBVIOUS
  <2>1. Ownership(c, p, r, l)
    BY <1>1 DEF LogInv
  <2>2. CASE o = TRUE
    <3>1. /\ p[a] # NULL /\ \A m \in DOMAIN c : a \notin c[m].appender
          /\ \A m \in DOMAIN l : l[m] # a
      BY <2>2, <1>1, <1>4 DEF MayGive, MayDelete, Live, Given, Attached, Range
    <3> QED BY <3>1, <2>1, <2>2, <1>1, <1>2, <1>4, OwnershipGive
  <2>3. CASE o = FALSE
    <3>1. p[a] # NULL /\ \A m \in DOMAIN c : a \notin c[m].owns
      BY <2>3, <1>1, <1>4 DEF MayShare, Live
    <3> QED BY <3>1, <2>1, <2>3, <1>1, <1>2, <1>4, OwnershipLend
  <2> QED BY <2>2, <2>3
<1> QED BY <1>1, <1>5, <1>6, <1>7, CatStep

\* The heap and the registry without the appenders S.
LEMMA DeleteFacts ==
    ASSUME NEW S, app' = Freed(S), reg' = Unregister(S)
    PROVE  app' = Less(app, S) /\ reg' = Deregistered(app, reg, S)
BY DEF Freed, Unregister, Less, Deregistered, Restrict

\* Appenders are deleted that the new categories do not have and the old ones
\* owned.
LEMMA DeleteStep ==
    ASSUME LogInv, fault = "none", NEW S, S \subseteq Apps, Delete(S),
           CatOk(cat'), DOMAIN cat \subseteq DOMAIN cat',
           forced = FALSE =>
               /\ Ownership(cat', app, reg, all)
               /\ \A a \in S : Live(a)
               /\ \A a \in S : \A m \in DOMAIN cat' : a \notin cat'[m].appender
               /\ \A a \in S : \A m \in DOMAIN all : all[m] # a,
           UNCHANGED <<all, forced, logVars, cfgVars, creators>>
    PROVE  LogInv'
<1>1. PICK c, p, r, l : c = cat' /\ p = app /\ r = reg /\ l = all
  OBVIOUS
<1>2. HeapOk(p, r, l)
  BY <1>1 DEF LogInv
<1>3. app' = Less(p, S) /\ reg' = Deregistered(p, r, S)
  BY <1>1, DeleteFacts DEF Delete
<1>4. HeapOk(app', reg', all)
  BY <1>1, <1>2, <1>3, HeapFree
<1>5. fault' \in {"none", "memory"}
  BY DEF Delete
<1>6. ASSUME forced = FALSE PROVE Ownership(cat', app', reg', all) /\ fault' # "memory"
  <2>1. \A m \in DOMAIN c : c[m] \in CategoryType
    BY <1>1 DEF CatOk
  <2>2. /\ Ownership(c, p, r, l)
        /\ \A a \in S : \A m \in DOMAIN c : a \notin c[m].appender
        /\ \A a \in S : \A m \in DOMAIN l : l[m] # a
    BY <1>1, <1>6
  <2>3. Ownership(c, Less(p, S), Deregistered(p, r, S), l)
    BY <2>1, <2>2, <1>2, OwnershipFree
  <2>4. fault' # "memory"
    BY <1>6 DEF Delete
  <2> QED BY <2>3, <2>4, <1>1, <1>3
<1>7. BuiltInKept'
  BY DEF LogInv, BuiltInKept
<1> QED BY <1>4, <1>5, <1>6, <1>7, HeapStep

\* The categories d lost the appenders S that they owned as c.
Lost(c, d, S) ==
    /\ DOMAIN d = DOMAIN c
    /\ \A a \in S : \E m \in DOMAIN c : a \in c[m].owns /\ a \notin d[m].appender
    /\ \A m \in DOMAIN d : /\ d[m].owns \subseteq d[m].appender
                           /\ d[m].appender \subseteq c[m].appender
                           /\ d[m].owns \subseteq c[m].owns

\* Appenders that were owned have no pointer to them left.
LEMMA OwnershipDelete ==
    ASSUME NEW c, NEW d, NEW p, NEW r, NEW l, Ownership(c, p, r, l), NEW S, Lost(c, d, S)
    PROVE  /\ Ownership(d, p, r, l)
           /\ \A a \in S : p[a] # NULL
           /\ \A a \in S : \A m \in DOMAIN d : a \notin d[m].appender
           /\ \A a \in S : \A m \in DOMAIN l : l[m] # a
<1>1. Ownership(d, p, r, l)
  BY OwnershipShrink DEF Lost
<1>2. ASSUME NEW a \in S
      PROVE  /\ p[a] # NULL /\ \A m \in DOMAIN l : l[m] # a
             /\ \A m \in DOMAIN d : a \notin d[m].appender
  <2>1. PICK m \in DOMAIN c : a \in c[m].owns /\ a \notin d[m].appender
    BY DEF Lost
  <2>2. a \in c[m].appender /\ p[a] # NULL /\ \A i \in DOMAIN l : l[i] # a
    BY <2>1 DEF Ownership
  <2>3. ASSUME NEW i \in DOMAIN d, a \in d[i].appender PROVE FALSE
    <3>1. i \in DOMAIN c /\ a \in c[i].appender
      BY <2>3 DEF Lost
    <3>2. i = m
      BY <3>1, <2>1 DEF Ownership
    <3> QED BY <3>2, <2>1, <2>3
  <2> QED BY <2>2, <2>3
<1> QED BY <1>1, <1>2

\* removeAppender.
LEMMA RemoveKeeps ==
    ASSUME LogInv, fault = "none", NEW n \in DOMAIN cat, NEW a \in Apps,
           RemoveAppender(n, a), UNCHANGED <<cfgVars, creators>>
    PROVE  LogInv'
<1>1. PICK c : c = cat
  OBVIOUS
<1>2. CatOk(c) /\ n \in DOMAIN c /\ a \in c[n].appender
  BY <1>1 DEF LogInv, RemoveAppender
<1>3. c[n] \in CategoryType /\ (n = << >> => c[n].priority < NOTSET)
  BY <1>2 DEF CatOk
<1>4. PICK k : /\ cat' = [c EXCEPT ![n] = k]
               /\ k \in CategoryType /\ k.priority = c[n].priority
               /\ k.appender = c[n].appender \ {a} /\ k.owns = c[n].owns \ {a}
  <2>1. cat' = [c EXCEPT ![n] = [c[n] EXCEPT !.appender = @ \ {a}, !.owns = @ \ {a}]]
    BY <1>1, <1>2 DEF RemoveAppender
  <2> WITNESS [c[n] EXCEPT !.appender = @ \ {a}, !.owns = @ \ {a}]
  <2> QED BY <2>1, <1>3 DEF CategoryType
<1>5. PICK S : S = {a} \cap c[n].owns
  OBVIOUS
<1>6. Delete(S) /\ S \subseteq Apps
  BY <1>1, <1>5 DEF RemoveAppender
<1>7. CatOk(cat') /\ DOMAIN cat' = DOMAIN c
  BY <1>2, <1>3, <1>4, ReplaceFacts
<1>8. ASSUME forced = FALSE
      PROVE  /\ Ownership(cat', app, reg, all)
             /\ \A b \in S : app[b] # NULL
             /\ \A b \in S : \A m \in DOMAIN cat' : b \notin cat'[m].appender
             /\ \A b \in S : \A m \in DOMAIN all : all[m] # b
  <2>1. PICK d, p, r, l : d = cat' /\ p = app /\ r = reg /\ l = all
    OBVIOUS
  <2>2. Ownership(c, p, r, l)
    BY <2>1, <1>1, <1>8 DEF LogInv
  <2>3. DOMAIN d = DOMAIN c /\ \A m \in DOMAIN c : d[m] = IF m = n THEN k ELSE c[m]
    BY <2>1, <1>2, <1>4
  <2>4. \A m \in DOMAIN c : c[m].owns \subseteq c[m].appender
    BY <2>2 DEF Ownership
  <2>5. \A b \in S : \E m \in DOMAIN c : b \in c[m].owns /\ b \notin d[m].appender
    BY <2>3, <1>2, <1>4, <1>5
  <2>6. \A m \in DOMAIN d : /\ d[m].owns \subseteq d[m].appender
                            /\ d[m].appender \subseteq c[m].appender
                            /\ d[m].owns \subseteq c[m].owns
    BY <2>3, <2>4, <1>4
  <2>7. Lost(c, d, S)
    BY <2>3, <2>5, <2>6 DEF Lost
  <2>8. /\ Ownership(d, p, r, l)
        /\ \A b \in S : p[b] # NULL
        /\ \A b \in S : \A m \in DOMAIN d : b \notin d[m].appender
        /\ \A b \in S : \A m \in DOMAIN l : l[m] # b
    BY <2>2, <2>7, OwnershipDelete
  <2> QED BY <2>1, <2>8
<1>9. UNCHANGED <<all, forced, logVars, cfgVars, creators>>
  BY DEF RemoveAppender
<1> QED BY <1>1, <1>6, <1>7, <1>8, <1>9, DeleteStep DEF Live

\* A category without appenders.
LEMMA EmptiedFacts ==
    ASSUME NEW k \in CategoryType
    PROVE  /\ Emptied(k) \in CategoryType /\ Emptied(k).priority = k.priority
           /\ Emptied(k).appender = {} /\ Emptied(k).owns = {}
BY DEF Emptied, CategoryType

\* The categories in C lose all their appenders.
LEMMA EmptyKeeps ==
    ASSUME LogInv, fault = "none", NEW C, C \subseteq DOMAIN cat,
           cat' = [n \in DOMAIN cat |-> IF n \in C THEN Emptied(cat[n]) ELSE cat[n]],
           Delete(Owned(C)), UNCHANGED <<all, forced, logVars, cfgVars, creators>>
    PROVE  LogInv'
<1>1. PICK c, d, S : c = cat /\ d = cat' /\ S = UNION {c[n].owns : n \in C}
  OBVIOUS
<1>2. CatOk(c) /\ C \subseteq DOMAIN c
  BY <1>1 DEF LogInv
<1>3. \A m \in DOMAIN c : /\ m \in Seq(STRING) /\ Prefixes(m) \subseteq DOMAIN c
                          /\ c[m] \in CategoryType
                          /\ m = << >> => c[m].priority < NOTSET
  BY <1>2 DEF CatOk
<1>4. DOMAIN d = DOMAIN c /\ \A m \in DOMAIN c : d[m] = IF m \in C THEN Emptied(c[m]) ELSE c[m]
  BY <1>1
<1>5. \A m \in DOMAIN d : /\ d[m] \in CategoryType /\ d[m].priority = c[m].priority
                          /\ d[m] = c[m] \/ (d[m].appender = {} /\ d[m].owns = {})
                          /\ m \in C => d[m].appender = {}
  BY <1>3, <1>4, EmptiedFacts
<1>6. CatOk(d)
  BY <1>3, <1>4, <1>5 DEF CatOk
<1>7. S \subseteq Apps
  BY <1>1, <1>2, <1>3 DEF CategoryType
<1>8. Delete(S)
  BY <1>1 DEF Owned
<1>9. ASSUME forced = FALSE
      PROVE  /\ Ownership(cat', app, reg, all)
             /\ \A b \in S : app[b] # NULL
             /\ \A b \in S : \A m \in DOMAIN cat' : b \notin cat'[m].appender
             /\ \A b \in S : \A m \in DOMAIN all : all[m] # b
  <2>1. PICK p, r, l : p = app /\ r = reg /\ l = all
    OBVIOUS
  <2>2. Ownership(c, p, r, l)
    BY <2>1, <1>1, <1>9 DEF LogInv
  <2>4. \A m \in DOMAIN c : c[m].owns \subseteq c[m].appender
    BY <2>2 DEF Ownership
  <2>5. ASSUME NEW b \in S PROVE \E m \in DOMAIN c : b \in c[m].owns /\ b \notin d[m].appender
    <3>1. PICK m \in C : b \in c[m].owns
      BY <1>1, <2>5
    <3>2. m \in DOMAIN c /\ d[m].appender = {}
      BY <1>2, <1>4, <1>5
    <3> QED BY <3>1, <3>2
  <2>6. \A m \in DOMAIN d : /\ d[m].owns \subseteq d[m].appender
                            /\ d[m].appender \subseteq c[m].appender
                            /\ d[m].owns \subseteq c[m].owns
    BY <2>4, <1>4, <1>5
  <2>7. Lost(c, d, S)
    BY <2>5, <2>6, <1>4 DEF Lost
  <2>8. /\ Ownership(d, p, r, l)
        /\ \A b \in S : p[b] # NULL
        /\ \A b \in S : \A m \in DOMAIN d : b \notin d[m].appender
        /\ \A b \in S : \A m \in DOMAIN l : l[m] # b
    BY <2>2, <2>7, OwnershipDelete
  <2> QED BY <2>1, <2>8, <1>1
<1> QED BY <1>1, <1>4, <1>6, <1>7, <1>8, <1>9, DeleteStep DEF Live

\* removeAllAppenders.
LEMMA RemoveAllKeeps ==
    ASSUME LogInv, fault = "none", NEW n \in DOMAIN cat, RemoveAllAppenders(n),
           UNCHANGED <<cfgVars, creators>>
    PROVE  LogInv'
<1>1. cat' = [m \in DOMAIN cat |-> IF m \in {n} THEN Emptied(cat[m]) ELSE cat[m]]
  BY DEF RemoveAllAppenders
<1>2. Owned({n}) = cat[n].owns
  BY DEF Owned
<1>3. Delete(Owned({n}))
  BY <1>2 DEF RemoveAllAppenders
<1>4. UNCHANGED <<all, forced, logVars, cfgVars, creators>>
  BY DEF RemoveAllAppenders
<1> QED BY <1>1, <1>3, <1>4, EmptyKeeps

\* shutdown.
LEMMA ShutdownKeeps ==
    ASSUME LogInv, fault = "none", Shutdown, UNCHANGED <<cfgVars, creators>>
    PROVE  LogInv'
<1>1. cat' = [m \in DOMAIN cat |-> IF m \in DOMAIN cat THEN Emptied(cat[m]) ELSE cat[m]]
  BY DEF Shutdown
<1>2. UNCHANGED <<all, forced, logVars, cfgVars, creators>> /\ Delete(Owned(DOMAIN cat))
  BY DEF Shutdown
<1> QED BY <1>1, <1>2, EmptyKeeps

\* The application deletes an appender that nobody has.
LEMMA DeleteAppenderKeeps ==
    ASSUME LogInv, fault = "none", NEW a \in Apps, DeleteAppender(a),
           UNCHANGED <<cfgVars, creators>>
    PROVE  LogInv'
<1>1. Delete({a}) /\ cat' = cat /\ MayDelete(a)
  BY DEF DeleteAppender
<1>2. UNCHANGED <<all, forced, logVars, cfgVars, creators>>
  BY DEF DeleteAppender
<1>3. CatOk(cat')
  BY <1>1 DEF LogInv
<1>4. forced = FALSE =>
        /\ Ownership(cat', app, reg, all)
        /\ \A b \in {a} : Live(b)
        /\ \A b \in {a} : \A m \in DOMAIN cat' : b \notin cat'[m].appender
        /\ \A b \in {a} : \A m \in DOMAIN all : all[m] # b
  BY <1>1 DEF LogInv, MayDelete, Given, Attached, Range
<1> QED BY <1>1, <1>2, <1>3, <1>4, DeleteStep

\* shutdownForced: whatever was registered is gone.
LEMMA ShutdownForcedKeeps ==
    ASSUME LogInv, fault = "none", ShutdownForced, UNCHANGED <<cfgVars, creators>>
    PROVE  LogInv'
<1>1. PICK c, d, p, r, l, S, t :
        /\ c = cat /\ d = cat' /\ p = app /\ r = reg /\ l = all
        /\ S = UNION {c[n].owns : n \in DOMAIN c}
        /\ t = Deregistered(p, r, S)
  OBVIOUS
<1>2. CatOk(c) /\ HeapOk(p, r, l)
  BY <1>1 DEF LogInv
<1>3. \A m \in DOMAIN c : /\ m \in Seq(STRING) /\ Prefixes(m) \subseteq DOMAIN c
                          /\ c[m] \in CategoryType
                          /\ m = << >> => c[m].priority < NOTSET
  BY <1>2 DEF CatOk
<1>4. DOMAIN d = DOMAIN c /\ \A m \in DOMAIN c : d[m] = Emptied(c[m])
  BY <1>1 DEF ShutdownForced
<1>5. \A m \in DOMAIN d : /\ d[m] \in CategoryType /\ d[m].priority = c[m].priority
                          /\ d[m].appender = {} /\ d[m].owns = {}
  BY <1>3, <1>4, EmptiedFacts
<1>6. CatOk(d)
  BY <1>3, <1>4, <1>5 DEF CatOk
<1>7. S \subseteq Apps
  BY <1>1, <1>3 DEF CategoryType
<1>8. Unregister(Owned(DOMAIN cat)) = t /\ Owned(DOMAIN cat) = S
  BY <1>1 DEF Owned, Unregister, Deregistered, Restrict
<1>9. PICK R : R = Range(t)
  OBVIOUS
<1>10. /\ app' = Less(p, S \cup R) /\ reg' = << >>
       /\ fault' = IF \A a \in S \cup R : p[a] # NULL THEN fault ELSE "memory"
       /\ forced' = (forced \/ R # {})
  BY <1>1, <1>8, <1>9 DEF ShutdownForced, Freed, Less, Live
<1>11. all' = all /\ log' = log /\ stream' = stream /\ cfg' = cfg /\ failed' = failed /\ creators' = creators
  BY DEF ShutdownForced, logVars, cfgVars
<1>12. HeapOk(app', reg', all')
  BY <1>1, <1>2, <1>10, <1>11 DEF HeapOk, Less
<1>13. fault' \in {"none", "memory"}
  BY <1>10
<1>14. forced' \in BOOLEAN /\ (forced' = FALSE => forced = FALSE /\ R = {})
  <2>1. forced \in BOOLEAN
    BY DEF LogInv, Progress
  <2>2. CASE forced = TRUE \/ R # {}
    BY <2>1, <2>2, <1>10
  <2>3. CASE forced = FALSE /\ R = {}
    BY <2>3, <1>10
  <2> QED BY <2>1, <2>2, <2>3
<1>15. ASSUME forced' = FALSE PROVE Ownership(cat', app', reg', all') /\ fault' # "memory"
  <2>1. forced = FALSE /\ R = {}
    BY <1>14, <1>15
  <2>2. Ownership(c, p, r, l)
    BY <2>1, <1>1 DEF LogInv
  <2>3. DOMAIN t = {}
    BY <2>1, <1>9 DEF Range
  <2>4. \A m \in DOMAIN d : /\ d[m].owns \subseteq d[m].appender
                            /\ d[m].appender \subseteq c[m].appender
                            /\ d[m].owns \subseteq c[m].owns
    BY <1>4, <1>5
  <2>5. \A b \in S : \E m \in DOMAIN c : b \in c[m].owns /\ b \notin d[m].appender
    BY <1>1, <1>4, <1>5
  <2>10. Lost(c, d, S)
    BY <2>4, <2>5, <1>4 DEF Lost
  <2>6. /\ Ownership(d, p, r, l)
        /\ \A b \in S : p[b] # NULL
        /\ \A b \in S : \A m \in DOMAIN d : b \notin d[m].appender
        /\ \A b \in S : \A m \in DOMAIN l : l[m] # b
    BY <2>2, <2>10, OwnershipDelete
  <2>7. Ownership(d, Less(p, S), t, l)
    <3>1. \A m \in DOMAIN d : d[m] \in CategoryType
      BY <1>5
    <3> QED BY <3>1, <2>6, <1>1, <1>2, <1>7, OwnershipFree
  <2>8. Ownership(d, Less(p, S), << >>, l)
    BY <2>7 DEF Ownership
  <2>9. S \cup R = S
    BY <2>1
  <2> QED BY <2>6, <2>8, <2>9, <1>1, <1>10, <1>11
<1>16. Progress'
  <2>1. Progress /\ cat = c /\ cat' = d
    BY <1>1 DEF LogInv
  <2>2. StreamType' = StreamType
    BY <2>1, <1>4 DEF StreamType
  <2> QED BY <2>1, <2>2, <1>4, <1>11, <1>14 DEF Progress
<1>17. NullEntries' /\ BuiltInKept'
  BY <1>11, <1>13 DEF LogInv, NullEntries, BuiltInKept
<1> QED BY <1>1, <1>6, <1>12, <1>15, <1>16, <1>17 DEF LogInv

\* The end of the process.
LEMMA ExitKeeps ==
    ASSUME LogInv, fault = "none", cfg = NULL, Exit, UNCHANGED <<cfgVars, creators>>
    PROVE  LogInv'
<1>1. PICK c, p, r, l, R :
        /\ c = cat /\ p = app /\ r = reg /\ l = all
        /\ R = Owned(DOMAIN cat) \cup Range(Unregister(Owned(DOMAIN cat)))
  OBVIOUS
<1>2. CatOk(c) /\ HeapOk(p, r, l)
  BY <1>1 DEF LogInv
<1>3. /\ app' = Less(p, R) /\ reg' = << >> /\ cat' = << >> /\ all' = << >>
      /\ fault' = IF \A a \in R : p[a] # NULL THEN fault ELSE "memory"
      /\ forced' = forced /\ log' = NULL /\ stream' = NULL
      /\ cfg' = NULL /\ failed' = failed /\ creators' = creators
  BY <1>1 DEF Exit, Freed, Less, Live, logVars, cfgVars
<1>4. CatOk(cat') /\ HeapOk(app', reg', all')
  BY <1>2, <1>3 DEF CatOk, HeapOk, Less
<1>5. Progress' /\ NullEntries' /\ BuiltInKept'
  BY <1>3 DEF LogInv, Progress, NullEntries, BuiltInKept
<1>6. ASSUME forced' = FALSE PROVE Ownership(cat', app', reg', all') /\ fault' # "memory"
  <2>1. Ownership(c, p, r, l)
    BY <1>1, <1>3, <1>6 DEF LogInv
  <2>2. ASSUME NEW a \in R PROVE p[a] # NULL
    <3>1. CASE a \in Owned(DOMAIN cat)
      BY <3>1, <2>1, <1>1 DEF Owned, Ownership
    <3>2. CASE a \in Range(Unregister(Owned(DOMAIN cat)))
      <4>1. PICK n \in DOMAIN r : a = r[n]
        BY <3>2, <1>1 DEF Range, Unregister, Restrict
      <4> QED BY <4>1, <2>1, <1>2 DEF Ownership, HeapOk
    <3> QED BY <3>1, <3>2, <2>2, <1>1
  <2>3. Ownership(cat', app', reg', all')
    BY <1>3 DEF Ownership
  <2> QED BY <2>2, <2>3, <1>3
<1> QED BY <1>4, <1>5, <1>6 DEF LogInv
-----------------------------------------------------------------------------
(***************************************************************************)
(* Construction of appenders.                                              *)
(***************************************************************************)

\* The constructor, with what it does to the heap and the registry.
LEMMA ConstructFacts ==
    ASSUME LogInv, NEW a \in Apps, NEW n, n # NULL, Construct(a, n)
    PROVE  /\ app' = [app EXCEPT ![a] = n] /\ reg' = Entered(reg, n, a) /\ app[a] = NULL
           /\ HeapOk(app', reg', all) /\ app'[a] # NULL
           /\ forced = FALSE =>
                /\ Ownership(cat, app', reg', all)
                /\ \A m \in DOMAIN cat : a \notin cat[m].appender /\ a \notin cat[m].owns
                /\ \A m \in DOMAIN all : all[m] # a
<1>1. PICK c, p, r, l : c = cat /\ p = app /\ r = reg /\ l = all
  OBVIOUS
<1>2. p[a] = NULL /\ app' = [p EXCEPT ![a] = n] /\ reg' = Entered(r, n, a)
  BY <1>1 DEF Construct, Live, Register, Entered
<1>3. HeapOk(p, r, l) /\ CatOk(c)
  BY <1>1 DEF LogInv
<1>4. HeapOk(app', reg', l)
  BY <1>2, <1>3, HeapConstruct
<1>5. app'[a] # NULL
  BY <1>2, <1>3 DEF HeapOk
<1>6. ASSUME forced = FALSE
      PROVE  /\ Ownership(c, app', reg', l)
             /\ \A m \in DOMAIN c : a \notin c[m].appender /\ a \notin c[m].owns
             /\ \A m \in DOMAIN l : l[m] # a
  <2>1. Ownership(c, p, r, l)
    BY <1>1, <1>6 DEF LogInv
  <2>2. \A m \in DOMAIN c : c[m] \in CategoryType
    BY <1>3 DEF CatOk
  <2> QED BY <2>1, <2>2, <1>2, <1>3, OwnershipConstruct
<1> QED BY <1>1, <1>2, <1>4, <1>5, <1>6

\* The application constructs an appender.
LEMMA NewAppenderKeeps ==
    ASSUME LogInv, fault = "none", NEW a \in Apps, NEW n, n # NULL, Construct(a, n),
           UNCHANGED <<cat, all, forced, logVars, fault, cfgVars>>, BuiltInKept'
    PROVE  LogInv'
<1>1. CatOk(cat') /\ cat' = cat
  BY DEF LogInv
<1>2. HeapOk(app', reg', all)
  BY ConstructFacts
<1>3. forced = FALSE => Ownership(cat', app', reg', all) /\ fault' # "memory"
  BY <1>1, ConstructFacts
<1>4. fault' \in {"none", "memory"} /\ UNCHANGED <<all, forced, logVars, cfgVars>>
  OBVIOUS
<1> QED BY <1>1, <1>2, <1>3, <1>4, HeapStep

\* SimpleConfigurator: an appender line.
LEMMA SimpleAppenderKeeps ==
    ASSUME LogInv, fault = "none", NEW n \in Cats, NEW a \in Apps, NEW ok \in BOOLEAN,
           SimpleAppender(n, a, ok), UNCHANGED creators
    PROVE  LogInv'
<1>1. PICK c, d : c = cat /\ d = Completed(c, n)
  OBVIOUS
<1>2. n \in Seq(STRING) /\ n # NULL
  BY HierarchyAssumption
<1>3. /\ Construct(a, n) /\ fault' = fault
      /\ cat' = IF ok THEN [WithInstance(n) EXCEPT ![n] = Plus(@, a, TRUE)] ELSE WithInstance(n)
      /\ UNCHANGED <<all, forced, logVars, cfgVars>>
  BY DEF SimpleAppender
<1>4. WithInstance(n) = d
  BY <1>1, InstanceIsCompleted
<1>5. CatOk(c)
  BY <1>1 DEF LogInv
<1>6. CatOk(d) /\ n \in DOMAIN d /\ DOMAIN c \subseteq DOMAIN d
      /\ \A m \in DOMAIN d : IF m \in DOMAIN c THEN d[m] = c[m]
                             ELSE d[m].appender = {} /\ d[m].owns = {}
  BY <1>1, <1>2, <1>5, WithFacts
<1>7. d[n] \in CategoryType /\ (n = << >> => d[n].priority < NOTSET)
  BY <1>6 DEF CatOk
<1>8. cat' = [d EXCEPT ![n] = Plus(d[n], a, TRUE)] \/ cat' = d
  BY <1>3, <1>4
<1>9. CatOk(cat') /\ DOMAIN cat' = DOMAIN d
  <2>1. Plus(d[n], a, TRUE) \in CategoryType /\ Plus(d[n], a, TRUE).priority = d[n].priority
    BY <1>7, PlusFacts
  <2>2. CatOk([d EXCEPT ![n] = Plus(d[n], a, TRUE)])
    BY <2>1, <1>6, <1>7, ReplaceFacts
  <2> QED BY <2>2, <1>6, <1>8
<1>10. HeapOk(app', reg', all) /\ app'[a] # NULL
  BY <1>2, <1>3, ConstructFacts
<1>11. ASSUME forced = FALSE PROVE Ownership(cat', app', reg', all)
  <2>1. PICK p, r, l : p = app' /\ r = reg' /\ l = all
    OBVIOUS
  <2>2. /\ Ownership(c, p, r, l) /\ \A m \in DOMAIN c : a \notin c[m].appender
        /\ \A m \in DOMAIN l : l[m] # a
    BY <2>1, <1>1, <1>2, <1>3, <1>11, ConstructFacts
  <2>3. Ownership(d, p, r, l)
    BY <2>2, <1>1, <1>2, <1>5, OwnershipWith
  <2>4. \A m \in DOMAIN d : a \notin d[m].appender
    BY <2>2, <1>6
  <2>5. Ownership([d EXCEPT ![n] = Plus(d[n], a, TRUE)], p, r, l)
    BY <2>1, <2>2, <2>3, <2>4, <1>6, <1>10, OwnershipGive
  <2> QED BY <2>1, <2>3, <2>5, <1>8
<1>12. BuiltInKept'
  BY DEF LogInv, BuiltInKept
<1>13. fault' \in {"none", "memory"} /\ fault' # "memory"
  BY <1>3
<1> QED BY <1>1, <1>3, <1>6, <1>9, <1>10, <1>11, <1>12, <1>13, HeapStep

\* SimpleConfigurator: a priority line.
LEMMA SimplePriorityKeeps ==
    ASSUME LogInv, fault = "none", NEW n \in Cats, NEW p \in Levels,
           SimplePriority(n, p), UNCHANGED creators
    PROVE  LogInv'
<1>1. PICK c, d : c = cat /\ d = Completed(c, n)
  OBVIOUS
<1>2. n \in Seq(STRING) /\ p \in Nat /\ (n = << >> => p < NOTSET)
  BY HierarchyAssumption DEF SimplePriority, PriorityAccepted
<1>3. CatOk(c)
  BY <1>1 DEF LogInv
<1>4. CatOk(d) /\ n \in DOMAIN d /\ DOMAIN c \subseteq DOMAIN d
  BY <1>1, <1>2, <1>3, WithFacts
<1>5. d[n] \in CategoryType
  BY <1>4 DEF CatOk
<1>6. PICK k : /\ cat' = [d EXCEPT ![n] = k]
               /\ k \in CategoryType /\ k.priority = p
               /\ k.appender = d[n].appender /\ k.owns = d[n].owns
  <2>1. cat' = [d EXCEPT ![n] = [d[n] EXCEPT !.priority = p]]
    BY <1>1, <1>4, InstanceIsCompleted DEF SimplePriority
  <2> WITNESS [d[n] EXCEPT !.priority = p]
  <2> QED BY <2>1, <1>2, <1>5 DEF CategoryType
<1>7. CatOk(cat') /\ DOMAIN cat' = DOMAIN d
  BY <1>2, <1>4, <1>6, ReplaceFacts
<1>8. ASSUME forced = FALSE PROVE Ownership(cat', app, reg, all)
  <2>1. PICK q, r, l : q = app /\ r = reg /\ l = all
    OBVIOUS
  <2>2. Ownership(c, q, r, l)
    BY <2>1, <1>1, <1>8 DEF LogInv
  <2>3. Ownership(d, q, r, l)
    BY <2>2, <1>1, <1>2, <1>3, OwnershipWith
  <2>4. d[n].owns \subseteq d[n].appender
    BY <2>3, <1>4 DEF Ownership
  <2>5. Ownership([d EXCEPT ![n] = k], q, r, l)
    BY <2>3, <2>4, <1>4, <1>6, OwnershipLose
  <2> QED BY <2>1, <2>5, <1>6
<1>9. UNCHANGED <<heapVars, logVars, fault, cfgVars, creators>>
  BY DEF SimplePriority
<1> QED BY <1>1, <1>4, <1>7, <1>8, <1>9, CatStep

\* The appenders that the category n owns are deleted and the category becomes
\* k, which shares appenders that nobody owns.
LEMMA OwnershipConfigure ==
    ASSUME NEW c, CatOk(c), NEW p, NEW r, NEW l, Ownership(c, p, r, l), HeapOk(p, r, l),
           NEW n \in DOMAIN c, NEW k \in CategoryType, k.owns = {},
           \A a \in k.appender : p[a] # NULL /\ \A m \in DOMAIN c : a \notin c[m].owns
    PROVE  /\ Ownership([c EXCEPT ![n] = k], Less(p, c[n].owns), Deregistered(p, r, c[n].owns), l)
           /\ \A a \in c[n].owns : p[a] # NULL
<1>1. PICK d : d = [c EXCEPT ![n] = k]
  OBVIOUS
<1>2. DOMAIN d = DOMAIN c /\ \A m \in DOMAIN c : d[m] = IF m = n THEN k ELSE c[m]
  BY <1>1
<1>3. Ownership(d, p, r, l)
  <2>1. k.owns \subseteq k.appender
    OBVIOUS
  <2>2. \A a \in k.appender : \A m \in DOMAIN c : a \in c[m].owns => m = n
    OBVIOUS
  <2>3. \A a \in k.owns : \A m \in DOMAIN c : a \in c[m].appender => m = n
    OBVIOUS
  <2>4. \A a \in k.owns : \A m \in DOMAIN l : l[m] # a
    OBVIOUS
  <2>5. Ownership([c EXCEPT ![n] = k], p, r, l)
    BY <2>1, <2>2, <2>3, <2>4, OwnershipAttach
  <2> QED BY <2>5, <1>1
<1>4. PICK S : S = c[n].owns
  OBVIOUS
<1>5. c[n] \in CategoryType /\ \A m \in DOMAIN c : c[m] \in CategoryType
  BY DEF CatOk
<1>6. S \subseteq Apps
  BY <1>4, <1>5 DEF CategoryType
<1>7. /\ \A a \in S : p[a] # NULL
      /\ \A a \in S : \A m \in DOMAIN c : a \in c[m].appender => m = n
      /\ \A a \in S : \A m \in DOMAIN l : l[m] # a
  BY <1>4 DEF Ownership
<1>8. \A a \in S : \A m \in DOMAIN d : a \notin d[m].appender
  BY <1>2, <1>4, <1>7
<1>9. \A m \in DOMAIN d : d[m] \in CategoryType
  BY <1>2, <1>5
<1>10. Ownership(d, Less(p, S), Deregistered(p, r, S), l)
  BY <1>3, <1>6, <1>7, <1>8, <1>9, OwnershipFree
<1> QED BY <1>1, <1>4, <1>7, <1>10

\* The root category of BasicConfigurator.
LEMMA RootFacts ==
    ASSUME NEW k \in CategoryType, NEW a \in Apps,
           NEW e, e = [k EXCEPT !.priority = INFO, !.appender = {a}, !.owns = {a}]
    PROVE  e \in CategoryType /\ e.appender = {a} /\ e.owns = {a} /\ e.priority < NOTSET
<1>1. INFO \in Nat /\ INFO < NOTSET
  BY DEF INFO, NOTSET
<1> QED BY <1>1 DEF CategoryType

\* BasicConfigurator: the root loses its appenders and gets a new one.
LEMMA BasicKeeps ==
    ASSUME LogInv, fault = "none", NEW a \in Apps, BasicConfigure(a), UNCHANGED creators
    PROVE  LogInv'
<1>1. PICK c, d, p, r, l, n, u, S :
        /\ c = cat /\ n = << >> /\ d = Completed(c, n) /\ p = app /\ r = reg /\ l = all
        /\ u = BasicName /\ S = d[n].owns
  OBVIOUS
<1>2. n \in Seq(STRING) /\ u # NULL
  BY <1>1, FilesAssumption
<1>3. CatOk(c) /\ HeapOk(p, r, l)
  BY <1>1 DEF LogInv
<1>4. CatOk(d) /\ n \in DOMAIN d /\ DOMAIN c \subseteq DOMAIN d
  BY <1>1, <1>2, <1>3, WithFacts
<1>5. d[n] \in CategoryType
  BY <1>4 DEF CatOk
<1>6. PICK e, k :
        /\ e = Emptied(d[n])
        /\ k = [d[n] EXCEPT !.priority = INFO, !.appender = {a}, !.owns = {a}]
  OBVIOUS
<1>7. /\ e \in CategoryType /\ e.appender = {} /\ e.owns = {} /\ e.priority = d[n].priority
      /\ k \in CategoryType /\ k.appender = {a} /\ k.owns = {a} /\ k.priority < NOTSET
  BY <1>5, <1>6, EmptiedFacts, RootFacts
<1>8. PICK x, q, t : x = [d EXCEPT ![n] = e] /\ q = Less(p, S) /\ t = Deregistered(p, r, S)
  OBVIOUS
<1>9. /\ p[a] = NULL
      /\ cat' = [d EXCEPT ![n] = k]
      /\ fault' = IF \A b \in S : p[b] # NULL THEN fault ELSE "memory"
      /\ UNCHANGED <<all, forced, logVars, cfgVars>>
  BY <1>1, <1>4, <1>6, InstanceIsCompleted DEF BasicConfigure, Live
<1>10. app' = [q EXCEPT ![a] = u]
  BY <1>1, <1>8, InstanceIsCompleted DEF BasicConfigure, Freed, Less
<1>11. reg' = Entered(t, u, a)
  <2>1. Unregister(S) = t
    BY <1>1, <1>8 DEF Unregister, Deregistered, Restrict
  <2>2. WithInstance(<< >>)[<< >>].owns = S
    BY <1>1, InstanceIsCompleted
  <2>3. reg' = [m \in (DOMAIN t) \cup {u} |-> IF m = u THEN a ELSE r[m]]
    BY <2>1, <2>2, <1>1 DEF BasicConfigure
  <2>4. \A m \in DOMAIN t : t[m] = r[m]
    BY <1>8 DEF Deregistered
  <2> QED BY <2>3, <2>4 DEF Entered
<1>12. CatOk(cat') /\ DOMAIN cat' = DOMAIN d
  BY <1>4, <1>7, <1>9, ReplaceFacts
<1>13. HeapOk(q, t, l) /\ q[a] = NULL
  BY <1>3, <1>8, <1>9, HeapFree DEF Less
<1>14. HeapOk(app', reg', all)
  BY <1>1, <1>2, <1>10, <1>11, <1>13, HeapConstruct
<1>15. ASSUME forced = FALSE PROVE Ownership(cat', app', reg', all) /\ fault' # "memory"
  <2>1. Ownership(c, p, r, l)
    BY <1>1, <1>15 DEF LogInv
  <2>2. Ownership(d, p, r, l)
    BY <2>1, <1>1, <1>2, <1>3, OwnershipWith
  <2>3. Ownership(x, q, t, l) /\ \A b \in S : p[b] # NULL
    <3>1. \A b \in e.appender : p[b] # NULL /\ \A m \in DOMAIN d : b \notin d[m].owns
      BY <1>7
    <3>2. /\ Ownership([d EXCEPT ![n] = e], Less(p, d[n].owns), Deregistered(p, r, d[n].owns), l)
          /\ \A b \in d[n].owns : p[b] # NULL
      BY <3>1, <2>2, <1>3, <1>4, <1>7, OwnershipConfigure
    <3>3. S = d[n].owns
      BY <1>1
    <3> QED BY <3>2, <3>3, <1>8
  <2>4. CatOk(x) /\ n \in DOMAIN x /\ x[n] = e
    <3>1. n = << >> => e.priority < NOTSET
      BY <1>4, <1>7 DEF CatOk
    <3> QED BY <3>1, <1>4, <1>7, <1>8, ReplaceFacts
  <2>5. \A m \in DOMAIN x : x[m] \in CategoryType
    BY <2>4 DEF CatOk
  <2>6. /\ Ownership(x, app', reg', l)
        /\ \A m \in DOMAIN x : a \notin x[m].appender /\ a \notin x[m].owns
        /\ \A m \in DOMAIN l : l[m] # a
    BY <2>3, <2>5, <1>2, <1>10, <1>11, <1>13, OwnershipConstruct
  <2>7. Ownership([x EXCEPT ![n] = k], app', reg', l)
    <3>1. PICK q2, t2 : q2 = app' /\ t2 = reg'
      OBVIOUS
    <3>2. q2[a] # NULL
      BY <3>1, <1>2, <1>10, <1>13 DEF HeapOk
    <3>3. Ownership(x, q2, t2, l)
      BY <3>1, <2>6
    <3>4. k.owns \subseteq k.appender /\ \A b \in k.appender : q2[b] # NULL
      BY <3>2, <1>7
    <3>5. \A b \in k.appender : \A m \in DOMAIN x : b \in x[m].owns => m = n
      BY <2>6, <1>7
    <3>6. \A b \in k.owns : \A m \in DOMAIN x : b \in x[m].appender => m = n
      BY <2>6, <1>7
    <3>7. \A b \in k.owns : \A m \in DOMAIN l : l[m] # b
      BY <2>6, <1>7
    <3>8. Ownership([x EXCEPT ![n] = k], q2, t2, l)
      BY <3>3, <3>4, <3>5, <3>6, <3>7, <2>4, OwnershipAttach
    <3> QED BY <3>1, <3>8
  <2>8. [x EXCEPT ![n] = k] = cat'
    BY <1>8, <1>9
  <2> QED BY <2>3, <2>7, <2>8, <1>1, <1>9
<1>16. BuiltInKept'
  BY DEF LogInv, BuiltInKept
<1>17. fault' \in {"none", "memory"}
  BY <1>9
<1> QED BY <1>1, <1>4, <1>9, <1>12, <1>14, <1>15, <1>16, <1>17, HeapStep
-----------------------------------------------------------------------------
(***************************************************************************)
(* Logging.                                                                *)
(***************************************************************************)

\* Every category finds a priority in its chain.
LEMMA ChainFound ==
    ASSUME LogInv, NEW n \in DOMAIN cat PROVE ChainedPriority(n) \in Nat
<1>1. PICK c : c = cat
  OBVIOUS
<1>2. CatOk(c) /\ n \in DOMAIN c
  BY <1>1 DEF LogInv
<1>3. PICK set : set = {m \in Prefixes(n) : c[m].priority < NOTSET}
  OBVIOUS
<1>4. set # {} /\ c[CHOOSE m \in set : \A k \in set : Len(k) <= Len(m)].priority \in Nat
  BY <1>2, <1>3, PriorityFound
<1> QED BY <1>1, <1>3, <1>4 DEF ChainedPriority

\* log with a priority that was found.
LEMMA LogWithFacts ==
    ASSUME LogInv, fault = "none", NEW n \in DOMAIN cat, NEW q \in Nat, NEW p, LogWith(n, q, p)
    PROVE  fault' = "none" /\ (log' # NULL => log'.at \in DOMAIN cat)
<1>1. q # NULL
  BY HierarchyAssumption
<1>2. fault' = "none"
  BY <1>1 DEF LogWith
<1>3. log # NULL => log.at \in DOMAIN cat
  BY DEF LogInv, Progress
<1>4. log' = [at |-> n] \/ log' = log
  BY DEF LogWith
<1> QED BY <1>2, <1>3, <1>4

\* Category::log, by priority, by method and through a FixedContextCategory.
LEMMA LogKeeps ==
    ASSUME LogInv, fault = "none", NEW n \in DOMAIN cat,
           \/ \E p : Log(n, p)
           \/ \E q, p \in Levels : FixedContextLog(n, q, p),
           UNCHANGED <<cfgVars, creators>>
    PROVE  LogInv'
<1>1. PICK q \in Nat : \E p : LogWith(n, q, p)
  <2>1. ChainedPriority(n) \in Nat
    BY ChainFound
  <2>2. CASE \E p : Log(n, p)
    BY <2>1, <2>2 DEF Log
  <2>3. CASE \E q, p \in Levels : FixedContextLog(n, q, p)
    <3>1. PICK q \in Levels, p \in Levels : FixedContextLog(n, q, p)
      BY <2>3
    <3>2. q \in Nat
      BY HierarchyAssumption
    <3>3. CASE q = NOTSET
      BY <3>1, <3>3, <2>1 DEF FixedContextLog
    <3>4. CASE q # NOTSET
      BY <3>1, <3>2, <3>4 DEF FixedContextLog
    <3> QED BY <3>3, <3>4
  <2> QED BY <2>2, <2>3
<1>2. UNCHANGED <<cat, heapVars, stream>>
  BY DEF Log, FixedContextLog
<1>3. fault' = "none" /\ (log' # NULL => log'.at \in DOMAIN cat)
  BY <1>1, LogWithFacts
<1>4. stream' # NULL => stream' \in StreamType
  BY <1>2 DEF LogInv, Progress
<1>5. fault' \in {"none", "memory", "width"} /\ (forced = FALSE => fault' # "memory")
  BY <1>3
<1> QED BY <1>2, <1>3, <1>4, <1>5, LogStep

\* The priorities of the methods.
LEMMA MethodFacts == \A m \in Called : Methods[m] \in Nat
<1>1. \A m \in DOMAIN MinorMethods : MinorMethods[m] \in Nat
  BY DEF MinorMethods, INFO
<1>2. \A m \in DOMAIN MajorMethods : MajorMethods[m] \in Nat
  BY DEF MajorMethods
<1>3. DOMAIN Methods = DOMAIN MinorMethods \cup DOMAIN MajorMethods
      /\ \A m \in DOMAIN Methods :
           Methods[m] = IF m \in DOMAIN MinorMethods THEN MinorMethods[m] ELSE MajorMethods[m]
  BY DEF Methods
<1> QED BY <1>1, <1>2, <1>3, MethodsAssumption

\* getStream.
LEMMA GetStreamKeeps ==
    ASSUME LogInv, fault = "none", NEW n \in DOMAIN cat, NEW p \in Nat, GetStream(n, p),
           UNCHANGED <<cfgVars, creators>>
    PROVE  LogInv'
<1>1. PICK q \in Nat : q = ChainedPriority(n)
  BY ChainFound
<1>2. q # NULL
  BY HierarchyAssumption
<1>3. fault' = "none"
  BY <1>1, <1>2 DEF GetStream
<1>4. stream' = [cat |-> n, buffer |-> FALSE, priority |-> IF Enabled(q, p) THEN p ELSE NOTSET]
  BY <1>1 DEF GetStream
<1>5. stream' \in StreamType
  <2>1. PICK x \in Nat : x = IF Enabled(q, p) THEN p ELSE NOTSET
    BY DEF NOTSET
  <2>2. stream' = [cat |-> n, buffer |-> FALSE, priority |-> x]
    BY <2>1, <1>4
  <2> QED BY <2>2 DEF StreamType
<1>6. UNCHANGED <<cat, heapVars, log>>
  BY DEF GetStream
<1>7. log' # NULL => log'.at \in DOMAIN cat
  BY <1>6 DEF LogInv, Progress
<1>8. fault' \in {"none", "memory", "width"} /\ (forced = FALSE => fault' # "memory")
  BY <1>3
<1> QED BY <1>5, <1>6, <1>7, <1>8, LogStep

\* The other operations of a stream.
LEMMA StreamKeeps ==
    ASSUME LogInv, fault = "none",
           \/ StreamIn \/ StreamWidth \/ \E end \in BOOLEAN : StreamFlush(end),
           UNCHANGED <<cfgVars, creators>>
    PROVE  LogInv'
<1>1. UNCHANGED <<cat, heapVars>> /\ stream # NULL
  BY DEF StreamIn, StreamWidth, StreamFlush
<1>2. stream \in StreamType /\ (log # NULL => log.at \in DOMAIN cat)
  BY <1>1 DEF LogInv, Progress
<1>3. /\ [stream EXCEPT !.buffer = TRUE] \in StreamType
      /\ [stream EXCEPT !.buffer = FALSE] \in StreamType
      /\ stream.cat \in DOMAIN cat
  BY <1>2 DEF StreamType
<1>4. stream' # NULL => stream' \in StreamType
  <2>1. CASE StreamIn
    BY <2>1, <1>3 DEF StreamIn
  <2>2. CASE StreamWidth
    BY <2>2, <1>2 DEF StreamWidth, logVars
  <2>3. CASE \E end \in BOOLEAN : StreamFlush(end)
    BY <2>3, <1>3 DEF StreamFlush
  <2> QED BY <2>1, <2>2, <2>3
<1>5. fault' \in {"none", "width"} /\ (log' # NULL => log'.at \in DOMAIN cat)
  <2>1. CASE StreamIn
    BY <2>1, <1>2 DEF StreamIn
  <2>2. CASE StreamWidth
    BY <2>2, <1>2 DEF StreamWidth, logVars
  <2>3. CASE \E end \in BOOLEAN : StreamFlush(end)
    <3>1. (\E q \in Nat : \E p : LogWith(stream.cat, q, p)) \/ (log' = log /\ fault' = fault)
      <4>1. ChainedPriority(stream.cat) \in Nat
        BY <1>3, ChainFound
      <4> QED BY <4>1, <2>3 DEF StreamFlush
    <3> QED BY <3>1, <1>2, <1>3, LogWithFacts
  <2> QED BY <2>1, <2>2, <2>3
<1>6. fault' \in {"none", "memory", "width"} /\ fault' # "memory"
  BY <1>5
<1> QED BY <1>1, <1>4, <1>5, <1>6, LogStep

\* callAppenders at one category.
LEMMA CallAppendersKeeps ==
    ASSUME LogInv, fault = "none", CallAppenders, UNCHANGED <<cfgVars, creators>>
    PROVE  LogInv'
<1>1. PICK c, n : c = cat /\ n = log.at
  OBVIOUS
<1>2. CatOk(c) /\ n \in DOMAIN c
  BY <1>1 DEF LogInv, Progress, CallAppenders
<1>3. n \in Seq(STRING) /\ Prefixes(n) \subseteq DOMAIN c
  BY <1>2 DEF CatOk
<1>4. n # << >> => Parent(n) \in DOMAIN c
  BY <1>3, PrefixFacts
<1>5. log' # NULL => log'.at \in DOMAIN cat
  BY <1>1, <1>4 DEF CallAppenders
<1>6. UNCHANGED <<cat, heapVars, stream>>
  BY DEF CallAppenders
<1>7. stream' # NULL => stream' \in StreamType
  BY <1>6 DEF LogInv, Progress
<1>8. fault' \in {"none", "memory", "width"}
  BY DEF CallAppenders
<1>9. ASSUME forced = FALSE PROVE fault' # "memory"
  <2>1. Ownership(cat, app, reg, all)
    BY <1>9 DEF LogInv
  <2>2. \A a \in cat[log.at].appender : Live(a)
    BY <2>1, <1>1, <1>2 DEF Ownership, Live
  <2> QED BY <2>2 DEF CallAppenders
<1> QED BY <1>5, <1>6, <1>7, <1>8, <1>9, LogStep
-----------------------------------------------------------------------------
(***************************************************************************)
(* PropertyConfigurator and the factories.                                 *)
(***************************************************************************)

\* Lines are left to be configured.
Pending(g) == g.apps \in Seq(AppenderLines) /\ g.cats \in Seq(CategoryLines)

\* Steps of doConfigure.
LEMMA RunStep ==
    ASSUME LogInv, fault = "none", CatOk(cat'), HeapOk(app', reg', all'),
           DOMAIN cat \subseteq DOMAIN cat', cfg' = NULL \/ Pending(cfg'),
           failed' \in BOOLEAN, NullEntries',
           forced = FALSE => Ownership(cat', app', reg', all') /\ fault' # "memory",
           UNCHANGED <<forced, logVars, creators>>
    PROVE  LogInv'
<1>1. forced' = forced /\ log' = log /\ stream' = stream /\ creators' = creators
  BY DEF logVars
<1>2. Progress'
  <2>1. Progress
    BY DEF LogInv
  <2>2. stream # NULL => stream \in StreamType'
    <3>1. stream # NULL => stream \in StreamType
      BY <2>1 DEF Progress
    <3> QED BY <3>1 DEF StreamType
  <2>3. cfg' # NULL => cfg'.apps \in Seq(AppenderLines) /\ cfg'.cats \in Seq(CategoryLines)
    BY DEF Pending
  <2> QED BY <2>1, <2>2, <2>3, <1>1 DEF Progress
<1>3. BuiltInKept'
  BY <1>1 DEF LogInv, BuiltInKept
<1>4. (forced = FALSE => Ownership(cat, app, reg, all) /\ fault # "memory")'
  BY <1>1
<1> QED BY <1>2, <1>3, <1>4 DEF LogInv

\* The beginning and the end of doConfigure.
LEMMA BeginEndKeep ==
    ASSUME LogInv, fault = "none", (\E f \in Files : DoConfigure(f)) \/ ConfigureDone,
           UNCHANGED creators
    PROVE  LogInv'
<1>1. UNCHANGED <<cat, heapVars, logVars, fault, failed>>
  BY DEF DoConfigure, ConfigureDone
<1>2. /\ cat' = cat /\ app' = app /\ reg' = reg /\ all' = all /\ forced' = forced
      /\ fault' = fault /\ failed' = failed
  BY <1>1 DEF heapVars
<1>3. cfg' = NULL \/ Pending(cfg')
  <2>1. CASE \E f \in Files : DoConfigure(f)
    <3>1. PICK f \in Files : DoConfigure(f)
      BY <2>1
    <3>2. f.appenders \in Seq(AppenderLines) /\ f.categories \in Seq(CategoryLines)
      BY FilesAssumption
    <3>3. cfg'.apps = f.appenders /\ cfg'.cats = f.categories
      BY <3>1 DEF DoConfigure
    <3> QED BY <3>2, <3>3 DEF Pending
  <2>2. CASE ConfigureDone
    BY <2>2 DEF ConfigureDone
  <2> QED BY <2>1, <2>2
<1>4. CatOk(cat') /\ HeapOk(app', reg', all') /\ failed' \in BOOLEAN
  BY <1>2 DEF LogInv, Progress
<1>5. NullEntries'
  BY <1>2 DEF LogInv, NullEntries
<1>6. forced = FALSE => Ownership(cat', app', reg', all') /\ fault' # "memory"
  BY <1>2 DEF LogInv
<1> QED BY <1>1, <1>2, <1>3, <1>4, <1>5, <1>6, RunStep

\* A null entry, if there is a new one, points to nothing.
LEMMA NullEntryFacts ==
    ASSUME NEW c, CatOk(c), NEW p, NEW r, NEW l, HeapOk(p, r, l), NEW k, NEW n,
           k = l \/ k = Entered(l, n, NULL)
    PROVE  HeapOk(p, r, k) /\ (Ownership(c, p, r, l) => Ownership(c, p, r, k))
<1>1. CASE k = l
  BY <1>1
<1>2. CASE k = Entered(l, n, NULL)
  <2>1. HeapOk(p, r, k)
    BY <1>2 DEF HeapOk, Entered
  <2>2. ASSUME Ownership(c, p, r, l) PROVE Ownership(c, p, r, k)
    <3>1. \A m \in DOMAIN c : c[m] \in CategoryType
      BY DEF CatOk
    <3>2. \A m \in DOMAIN c : NULL \notin c[m].owns
      BY <3>1, HierarchyAssumption DEF CategoryType
    <3>3. PICK a \in Apps \cup {NULL} : a = NULL
      OBVIOUS
    <3>4. Ownership(c, p, r, Entered(l, n, a))
      BY <3>1, <3>2, <3>3, <2>2, OwnershipEntry
    <3> QED BY <3>3, <3>4, <1>2
  <2> QED BY <2>1, <2>2
<1> QED BY <1>1, <1>2

\* The line for the next appender.
LEMMA NextAppenderFacts ==
    ASSUME LogInv, cfg # NULL, cfg.apps # << >>
    PROVE  NextAppender.name # NULL
<1>1. cfg.apps \in Seq(AppenderLines)
  BY DEF LogInv, Progress
<1>2. NextAppender \in AppenderLines
  BY <1>1 DEF NextAppender
<1> QED BY <1>2, HierarchyAssumption DEF AppenderLines

\* The appender lines that fail.
LEMMA FailedAppenderKeeps ==
    ASSUME LogInv, fault = "none",
           \/ InstantiateUnknown
           \/ \E a \in Apps : InstantiateWithoutLayout(a) \/ InstantiateWithoutThreshold(a),
           UNCHANGED creators
    PROVE  LogInv'
<1>1. /\ cfg # NULL /\ cfg.apps # << >>
      /\ MaybeNullEntry(NextAppender.name) /\ Throw
      /\ UNCHANGED <<cat, forced, logVars, fault>>
  BY DEF InstantiateUnknown, InstantiateWithoutLayout, InstantiateWithoutThreshold
<1>2. cfg' = NULL /\ failed' = TRUE /\ cat' = cat /\ fault' = fault /\ forced' = forced
  BY <1>1 DEF Throw
<1>3. PICK c, p, r, l, k, n :
        /\ c = cat /\ p = app' /\ r = reg' /\ l = all /\ k = all' /\ n = NextAppender.name
  OBVIOUS
<1>4. n # NULL
  BY <1>1, <1>3, NextAppenderFacts
<1>5. k = l \/ k = Entered(l, n, NULL)
  BY <1>1, <1>3 DEF MaybeNullEntry, Entered
<1>6. CatOk(c)
  BY <1>3 DEF LogInv
<1>7. HeapOk(p, r, l) /\ (forced = FALSE => Ownership(c, p, r, l))
  <2>1. CASE InstantiateUnknown
    BY <2>1, <1>3 DEF LogInv, InstantiateUnknown
  <2>2. CASE \E a \in Apps : InstantiateWithoutLayout(a)
    <3>1. PICK a \in Apps : Construct(a, n)
      BY <2>2, <1>3 DEF InstantiateWithoutLayout
    <3> QED BY <3>1, <1>3, <1>4, ConstructFacts
  <2>3. CASE \E a \in Apps : InstantiateWithoutThreshold(a)
    <3>1. app' = app /\ reg' = [m \in DOMAIN reg \ {n} |-> reg[m]]
      BY <2>3, <1>3 DEF InstantiateWithoutThreshold, Restrict
    <3>2. HeapOk(app, reg, all) /\ (forced = FALSE => Ownership(cat, app, reg, all))
      BY DEF LogInv
    <3>3. HeapOk(app, reg', all)
      BY <3>1, <3>2 DEF HeapOk
    <3>4. forced = FALSE => Ownership(cat, app, reg', all)
      BY <3>1, <3>2 DEF Ownership
    <3> QED BY <3>1, <3>3, <3>4, <1>3
  <2> QED BY <2>1, <2>2, <2>3
<1>8. HeapOk(p, r, k) /\ (forced = FALSE => Ownership(c, p, r, k))
  BY <1>5, <1>6, <1>7, NullEntryFacts
<1>9. NullEntries' /\ failed' \in BOOLEAN
  BY <1>2 DEF NullEntries
<1>10. CatOk(cat') /\ HeapOk(app', reg', all') /\ DOMAIN cat \subseteq DOMAIN cat'
  BY <1>2, <1>3, <1>6, <1>8
<1>11. forced = FALSE => Ownership(cat', app', reg', all') /\ fault' # "memory"
  BY <1>2, <1>3, <1>8
<1> QED BY <1>1, <1>2, <1>9, <1>10, <1>11, RunStep

\* An appender line that is valid.
LEMMA InstantiateKeeps ==
    ASSUME LogInv, fault = "none", NEW a \in Apps, InstantiateAppender(a), UNCHANGED creators
    PROVE  LogInv'
<1>1. PICK c, p, r, l, n : c = cat /\ p = app' /\ r = reg' /\ l = all /\ n = NextAppender.name
  OBVIOUS
<1>2. /\ Construct(a, n) /\ all' = Entered(l, n, a) /\ cfg # NULL /\ cfg.apps # << >>
      /\ cfg' = [cfg EXCEPT !.apps = Tail(@)]
      /\ UNCHANGED <<cat, forced, logVars, fault, failed>>
  BY <1>1 DEF InstantiateAppender, Entered
<1>3. n # NULL
  BY <1>1, <1>2, NextAppenderFacts
<1>4. CatOk(c) /\ \A m \in DOMAIN c : c[m] \in CategoryType
  BY <1>1 DEF LogInv, CatOk
<1>5. HeapOk(p, r, l) /\ p[a] # NULL
  BY <1>1, <1>2, <1>3, ConstructFacts
<1>6. HeapOk(p, r, all')
  BY <1>2, <1>5 DEF HeapOk, Entered
<1>7. ASSUME forced = FALSE PROVE Ownership(c, p, r, all')
  <2>1. Ownership(c, p, r, l) /\ \A m \in DOMAIN c : a \notin c[m].owns
    BY <1>1, <1>2, <1>3, <1>7, ConstructFacts
  <2>2. Ownership(c, p, r, Entered(l, n, a))
    BY <2>1, <1>4, <1>5, OwnershipEntry
  <2> QED BY <2>2, <1>2
<1>8. Pending(cfg')
  <2>1. cfg.apps \in Seq(AppenderLines) /\ cfg.cats \in Seq(CategoryLines)
    BY <1>2 DEF LogInv, Progress
  <2>2. Tail(cfg.apps) \in Seq(AppenderLines)
    BY <2>1, <1>2
  <2>3. cfg'.cats = cfg.cats /\ (cfg'.apps = Tail(cfg.apps) \/ cfg'.apps = cfg.apps)
    BY <1>2
  <2> QED BY <2>1, <2>2, <2>3 DEF Pending
<1>9. NullEntries'
  <2>1. NullEntries /\ failed' = failed /\ fault' = fault
    BY <1>2 DEF LogInv
  <2>2. a # NULL
    BY HierarchyAssumption
  <2>3. ASSUME NEW m \in DOMAIN all', all'[m] = NULL PROVE m \in DOMAIN all /\ all[m] = NULL
    BY <2>2, <2>3, <1>1, <1>2 DEF Entered
  <2> QED BY <2>1, <2>3 DEF NullEntries
<1>10. CatOk(cat') /\ HeapOk(app', reg', all') /\ DOMAIN cat \subseteq DOMAIN cat'
  BY <1>1, <1>2, <1>4, <1>6
<1>11. forced = FALSE => Ownership(cat', app', reg', all') /\ fault' # "memory"
  BY <1>1, <1>2, <1>7
<1>12. failed' \in BOOLEAN
  BY <1>2 DEF LogInv, Progress
<1> QED BY <1>2, <1>8, <1>9, <1>10, <1>11, <1>12, RunStep

\* The next category line.
LEMMA NextCategoryFacts ==
    ASSUME LogInv, cfg # NULL, cfg.cats # << >>
    PROVE  /\ NextCategory \in CategoryLines
           /\ Tail(cfg.cats) \in Seq(CategoryLines) /\ cfg.apps \in Seq(AppenderLines)
           /\ cfg.cats \in Seq(CategoryLines)
<1>1. cfg.cats \in Seq(CategoryLines) /\ cfg.apps \in Seq(AppenderLines)
  BY DEF LogInv, Progress
<1> QED BY <1>1 DEF NextCategory

\* A file without a line for the root.
LEMMA RootMissingKeeps ==
    ASSUME LogInv, fault = "none", ConfigureRootMissing, UNCHANGED creators
    PROVE  LogInv'
<1>1. UNCHANGED <<cat, heapVars, logVars, fault>> /\ cfg' = NULL /\ failed' = TRUE
  BY DEF ConfigureRootMissing, Throw
<1>2. /\ cat' = cat /\ app' = app /\ reg' = reg /\ all' = all /\ forced' = forced
      /\ fault' = fault
  BY <1>1 DEF heapVars
<1>3. CatOk(cat') /\ HeapOk(app', reg', all')
  BY <1>2 DEF LogInv
<1>4. NullEntries' /\ failed' \in BOOLEAN
  BY <1>1 DEF NullEntries
<1>5. forced = FALSE => Ownership(cat', app', reg', all') /\ fault' # "memory"
  BY <1>2 DEF LogInv
<1> QED BY <1>1, <1>2, <1>3, <1>4, <1>5, RunStep

\* A category line with an invalid priority.
LEMMA PriorityFailsKeeps ==
    ASSUME LogInv, fault = "none", ConfigurePriorityFails, UNCHANGED creators
    PROVE  LogInv'
<1>1. PICK c, n : c = cat /\ n = NextCategory.cat
  OBVIOUS
<1>2. /\ cfg # NULL /\ cfg.cats # << >> /\ cat' = WithInstance(n)
      /\ cfg' = NULL /\ failed' = TRUE
      /\ UNCHANGED <<heapVars, logVars, fault>>
  BY <1>1 DEF ConfigurePriorityFails, Throw
<1>3. n \in Seq(STRING)
  BY <1>1, <1>2, NextCategoryFacts DEF CategoryLines
<1>4. CatOk(c) /\ cat' = Completed(c, n)
  BY <1>1, <1>2, InstanceIsCompleted DEF LogInv
<1>5. CatOk(cat') /\ DOMAIN cat \subseteq DOMAIN cat'
  BY <1>1, <1>3, <1>4, WithFacts
<1>6. app' = app /\ reg' = reg /\ all' = all /\ forced' = forced /\ fault' = fault
  BY <1>2 DEF heapVars
<1>7. HeapOk(app', reg', all')
  BY <1>6 DEF LogInv
<1>8. forced = FALSE => Ownership(cat', app', reg', all') /\ fault' # "memory"
  <2> SUFFICES ASSUME forced = FALSE PROVE Ownership(cat', app, reg, all)
    BY <1>6
  <2>1. Ownership(c, app, reg, all)
    BY <1>1 DEF LogInv
  <2> QED BY <2>1, <1>3, <1>4, OwnershipWith
<1>9. NullEntries' /\ failed' \in BOOLEAN
  BY <1>2 DEF NullEntries
<1> QED BY <1>2, <1>5, <1>6, <1>7, <1>8, <1>9, RunStep

\* A category line.
LEMMA ConfigureKeeps ==
    ASSUME LogInv, fault = "none", ConfigureCategory, UNCHANGED creators
    PROVE  LogInv'
<1>1. PICK c, g, n, d, p, r, l, S, e :
        /\ c = cat /\ g = NextCategory /\ n = g.cat /\ d = Completed(c, n)
        /\ p = app /\ r = reg /\ l = all /\ S = d[n].owns /\ e = Configured(g)
  OBVIOUS
<1>2. /\ cfg # NULL /\ cfg.cats # << >> /\ g.priority # NULL
      /\ PriorityAccepted(n, g.priority)
      /\ UNCHANGED <<all, forced, logVars>>
  BY <1>1 DEF ConfigureCategory
<1>3. g \in CategoryLines
  BY <1>1, <1>2, NextCategoryFacts
<1>4. /\ n \in Seq(STRING) /\ g.priority \in Nat /\ g.additive \in BOOLEAN
      /\ n = << >> => g.priority < NOTSET
  BY <1>1, <1>2, <1>3 DEF CategoryLines, PriorityAccepted
<1>5. CatOk(c) /\ HeapOk(p, r, l)
  BY <1>1 DEF LogInv
<1>6. CatOk(d) /\ n \in DOMAIN d /\ DOMAIN c \subseteq DOMAIN d
  BY <1>1, <1>4, <1>5, WithFacts
<1>7. \A a \in Listed(g) : \E m \in DOMAIN l : a = l[m]
  BY <1>1, <1>3 DEF Listed, Known, CategoryLines
<1>8. /\ e \in CategoryType /\ e.priority = g.priority /\ e.owns = {}
      /\ e.appender = Listed(g) \ {NULL}
  <2>1. e = [priority |-> g.priority, additive |-> g.additive,
             appender |-> Listed(g) \ {NULL}, owns |-> {}]
    BY <1>1 DEF Configured
  <2>2. Listed(g) \ {NULL} \subseteq Apps
    BY <1>5, <1>7 DEF HeapOk
  <2> QED BY <2>1, <2>2, <1>4 DEF CategoryType
<1>9. /\ cat' = [d EXCEPT ![n] = e]
      /\ fault' = IF NULL \in Listed(g) THEN "null"
                  ELSE IF \A a \in S : p[a] # NULL THEN fault ELSE "memory"
  BY <1>1, InstanceIsCompleted DEF ConfigureCategory, Live
<1>10. app' = Less(p, S) /\ reg' = Deregistered(p, r, S)
  BY <1>1, InstanceIsCompleted DEF ConfigureCategory, Freed, Unregister, Less, Deregistered, Restrict
<1>11. \/ cfg' = NULL /\ failed' = TRUE
       \/ cfg' = [cfg EXCEPT !.cats = Tail(@)] /\ failed' = failed
  BY DEF ConfigureCategory, Throw
<1>12. CatOk(cat') /\ DOMAIN cat' = DOMAIN d
  BY <1>4, <1>6, <1>8, <1>9, ReplaceFacts
<1>13. HeapOk(app', reg', all')
  BY <1>1, <1>2, <1>5, <1>10, HeapFree
<1>14. ASSUME forced = FALSE PROVE Ownership(cat', app', reg', all') /\ fault' # "memory"
  <2>1. Ownership(c, p, r, l)
    BY <1>1, <1>14 DEF LogInv
  <2>2. Ownership(d, p, r, l)
    BY <2>1, <1>1, <1>4, <1>5, OwnershipWith
  <2>3. ASSUME NEW a \in e.appender PROVE p[a] # NULL /\ \A m \in DOMAIN d : a \notin d[m].owns
    <3>1. PICK m \in DOMAIN l : a = l[m]
      BY <2>3, <1>7, <1>8
    <3>2. a # NULL
      BY <2>3, <1>8
    <3> QED BY <3>1, <3>2, <2>2 DEF Ownership
  <2>4. /\ Ownership([d EXCEPT ![n] = e], Less(p, d[n].owns), Deregistered(p, r, d[n].owns), l)
        /\ \A a \in d[n].owns : p[a] # NULL
    BY <2>2, <2>3, <1>5, <1>6, <1>8, OwnershipConfigure
  <2>5. S = d[n].owns /\ all' = l
    BY <1>1, <1>2
  <2> QED BY <2>4, <2>5, <1>9, <1>10
<1>15. NULL \in Listed(g) => failed = TRUE
  <2> SUFFICES ASSUME NULL \in Listed(g) PROVE failed = TRUE
    OBVIOUS
  <2>1. PICK m \in DOMAIN all : all[m] = NULL
    BY <1>1, <1>7
  <2> QED BY <2>1 DEF LogInv, NullEntries
<1>16. NullEntries'
  <2>1. failed = TRUE => failed' = TRUE
    BY <1>11
  <2>2. (\E m \in DOMAIN all : all[m] = NULL) => failed = TRUE
    BY DEF LogInv, NullEntries
  <2>3. fault' = "null" => failed = TRUE
    BY <1>9, <1>15
  <2> QED BY <2>1, <2>2, <2>3, <1>2 DEF NullEntries
<1>17. cfg' = NULL \/ Pending(cfg')
  <2>1. /\ Tail(cfg.cats) \in Seq(CategoryLines) /\ cfg.apps \in Seq(AppenderLines)
        /\ cfg.cats \in Seq(CategoryLines)
    BY <1>2, NextCategoryFacts
  <2>2. cfg' = [cfg EXCEPT !.cats = Tail(@)] =>
          cfg'.apps = cfg.apps /\ (cfg'.cats = Tail(cfg.cats) \/ cfg'.cats = cfg.cats)
    OBVIOUS
  <2> QED BY <2>1, <2>2, <1>11 DEF Pending
<1>18. failed' \in BOOLEAN
  BY <1>11 DEF LogInv, Progress
<1> QED BY <1>1, <1>2, <1>6, <1>12, <1>13, <1>14, <1>16, <1>17, <1>18, RunStep

\* The factories: a creator is added, never replaced.
LEMMA FactoriesKeep ==
    ASSUME LogInv, fault = "none", Factories, UNCHANGED cfgVars PROVE LogInv'
<1>1. BuiltInKept
  BY DEF LogInv
<1>2. ASSUME NEW k PROVE /\ DOMAIN BuiltIn(k) \subseteq DOMAIN Registered(k)
                         /\ \A n \in DOMAIN BuiltIn(k) : Registered(k)[n] = BuiltIn(k)[n]
  BY <1>1 DEF BuiltInKept, Registered
<1>3. ASSUME NEW k, NEW f, DOMAIN BuiltIn(k) \subseteq DOMAIN f,
             \A n \in DOMAIN BuiltIn(k) : f[n] = BuiltIn(k)[n],
             creators' = WithFactory(k, f)
      PROVE  BuiltInKept'
  BY <1>1, <1>3 DEF BuiltInKept, WithFactory
<1>4. ASSUME NEW k, NEW n, RegisterCreator(k, n) PROVE LogInv'
  <2>1. PICK f : f = WithCreator(Registered(k), n)
    OBVIOUS
  <2>2. /\ DOMAIN Registered(k) \subseteq DOMAIN f
        /\ \A m \in DOMAIN Registered(k) : f[m] = Registered(k)[m]
    BY <2>1 DEF WithCreator
  <2>3. /\ DOMAIN BuiltIn(k) \subseteq DOMAIN f
        /\ \A m \in DOMAIN BuiltIn(k) : f[m] = BuiltIn(k)[m]
    BY <2>2, <1>2
  <2>4. BuiltInKept'
    BY <2>1, <2>3, <1>3, <1>4 DEF RegisterCreator
  <2>5. UNCHANGED <<cat, heapVars, logVars, fault>>
    BY <1>4 DEF RegisterCreator
  <2>6. /\ cat' = cat /\ app' = app /\ reg' = reg /\ all' = all /\ forced' = forced
        /\ fault' = fault
    BY <2>5 DEF heapVars
  <2>7. CatOk(cat') /\ HeapOk(app', reg', all) /\ fault' \in {"none", "memory"}
    BY <2>6 DEF LogInv
  <2>8. forced = FALSE => Ownership(cat', app', reg', all) /\ fault' # "memory"
    BY <2>6 DEF LogInv
  <2> QED BY <2>4, <2>5, <2>6, <2>7, <2>8, HeapStep
<1>5. ASSUME NEW a \in Apps, NEW n \in AppNames, NEW x, NEW y, FactoryCreate(a, n, x, y)
      PROVE  LogInv'
  <2>1. n # NULL
    BY HierarchyAssumption
  <2>2. /\ Construct(a, n) /\ UNCHANGED <<cat, all, forced, logVars, fault>>
        /\ creators' = WithFactory("appenders", Registered("appenders"))
    BY <1>5 DEF FactoryCreate
  <2>3. BuiltInKept'
    BY <2>2, <1>2, <1>3
  <2> QED BY <2>1, <2>2, <2>3, NewAppenderKeeps
<1> QED BY <1>4, <1>5 DEF Factories
-----------------------------------------------------------------------------
(***************************************************************************)
(* The theorem.                                                            *)
(***************************************************************************)

\* The calls of the application.
LEMMA ApplicationKeeps ==
    ASSUME LogInv, fault = "none", Application, UNCHANGED <<cfgVars, creators>> PROVE LogInv'
<1>1. CASE \E n \in Cats : GetInstance(n)
  <2>1. PICK n \in Cats : GetInstance(n)
    BY <1>1
  <2>2. n \in Seq(STRING)
    BY HierarchyAssumption
  <2> QED BY <2>1, <2>2, GetInstanceKeeps DEF GetInstance
<1>2. CASE \E n \in DOMAIN cat : \E p \in Levels : SetPriority(n, p) \/ Log(n, p) \/ GetStream(n, p)
  <2>1. PICK n \in DOMAIN cat, p \in Levels : SetPriority(n, p) \/ Log(n, p) \/ GetStream(n, p)
    BY <1>2
  <2>2. p \in Nat
    BY HierarchyAssumption
  <2> QED BY <2>1, <2>2, SettersKeep, LogKeeps, GetStreamKeeps
<1>3. CASE \E n \in DOMAIN cat : \E q, p \in Levels : FixedContextLog(n, q, p)
  BY <1>3, LogKeeps
<1>4. CASE \E n \in DOMAIN cat : \E b \in BOOLEAN : SetAdditivity(n, b)
  BY <1>4, SettersKeep
<1>5. CASE \E n \in DOMAIN cat : \E a \in Apps :
             AddAppenderPtr(n, a) \/ AddAppenderRef(n, a) \/ RemoveAppender(n, a)
  BY <1>5, AddKeeps, RemoveKeeps
<1>6. CASE \E n \in DOMAIN cat : \E m \in Called : LogBy(n, m) \/ StreamBy(n, m)
  <2>1. PICK n \in DOMAIN cat, m \in Called : LogBy(n, m) \/ StreamBy(n, m)
    BY <1>6
  <2>2. PICK p \in Nat : p = Methods[m]
    BY MethodFacts
  <2>3. Log(n, p) \/ GetStream(n, p)
    BY <2>1, <2>2 DEF LogBy, StreamBy
  <2> QED BY <2>3, LogKeeps, GetStreamKeeps
<1>7. CASE \E n \in DOMAIN cat :
             RemoveAllAppenders(n) \/ \E a \in Apps \cup {NULL} : SetAppender(n, a)
  BY <1>7, RemoveAllKeeps, AddKeeps DEF SetAppender
<1>8. CASE \E a \in Apps : \E n \in AppNames : NewAppender(a, n)
  <2>1. PICK a \in Apps, n \in AppNames : NewAppender(a, n)
    BY <1>8
  <2>2. n # NULL
    BY HierarchyAssumption
  <2>3. Construct(a, n) /\ UNCHANGED <<cat, all, forced, logVars, fault, cfgVars>>
    BY <2>1 DEF NewAppender
  <2>4. BuiltInKept'
    BY DEF LogInv, BuiltInKept
  <2> QED BY <2>2, <2>3, <2>4, NewAppenderKeeps
<1>9. CASE \E a \in Apps : DeleteAppender(a)
  BY <1>9, DeleteAppenderKeeps
<1>10. CASE StreamIn \/ StreamWidth \/ \E end \in BOOLEAN : StreamFlush(end)
  BY <1>10, StreamKeeps
<1>11. CASE Shutdown \/ ShutdownForced
  BY <1>11, ShutdownKeeps, ShutdownForcedKeeps
<1> QED BY <1>1, <1>2, <1>3, <1>4, <1>5, <1>6, <1>7, <1>8, <1>9, <1>10, <1>11 DEF Application

\* The configurators.
LEMMA ConfiguratorsKeep ==
    ASSUME LogInv, fault = "none", Configurators, UNCHANGED creators PROVE LogInv'
<1>1. CASE (\E f \in Files : DoConfigure(f)) \/ ConfigureDone
  BY <1>1, BeginEndKeep
<1>2. CASE \/ InstantiateUnknown
           \/ \E a \in Apps : InstantiateWithoutLayout(a) \/ InstantiateWithoutThreshold(a)
  BY <1>2, FailedAppenderKeeps
<1>3. CASE \E a \in Apps : InstantiateAppender(a) \/ BasicConfigure(a)
  BY <1>3, InstantiateKeeps, BasicKeeps
<1>4. CASE ConfigureRootMissing \/ ConfigurePriorityFails \/ ConfigureCategory
  BY <1>4, RootMissingKeeps, PriorityFailsKeeps, ConfigureKeeps
<1>5. CASE \E n \in Cats : SimpleCategory(n)
  <2>1. PICK n \in Cats : SimpleCategory(n)
    BY <1>5
  <2>2. n \in Seq(STRING)
    BY HierarchyAssumption
  <2> QED BY <2>1, <2>2, GetInstanceKeeps DEF SimpleCategory, GetInstance
<1>6. CASE \E n \in Cats : \E p \in Levels : SimplePriority(n, p)
  BY <1>6, SimplePriorityKeeps
<1>7. CASE \E n \in Cats : \E a \in Apps : \E ok \in BOOLEAN : SimpleAppender(n, a, ok)
  BY <1>7, SimpleAppenderKeeps
<1> QED BY <1>1, <1>2, <1>3, <1>4, <1>5, <1>6, <1>7 DEF Configurators

\* The invariant holds when the process starts.
LEMMA LogStart == ConfInit => LogInv
<1> SUFFICES ASSUME ConfInit PROVE LogInv
  OBVIOUS
<1>1. /\ cat = << >> /\ reg = << >> /\ all = << >> /\ app = [a \in Apps |-> NULL]
      /\ log = NULL /\ stream = NULL /\ fault = "none" /\ forced = FALSE
      /\ cfg = NULL /\ failed = FALSE /\ creators = << >>
  BY DEF ConfInit, Init
<1>2. CatOk(cat) /\ HeapOk(app, reg, all) /\ Ownership(cat, app, reg, all)
  BY <1>1 DEF CatOk, HeapOk, Ownership
<1>3. Progress
  <2>1. failed \in BOOLEAN /\ forced \in BOOLEAN
    BY <1>1
  <2> QED BY <2>1, <1>1 DEF Progress
<1>4. DOMAIN all = {} /\ DOMAIN creators = {}
  BY <1>1
<1>5. NullEntries
  BY <1>1, <1>4 DEF NullEntries
<1>6. BuiltInKept
  BY <1>4 DEF BuiltInKept
<1> QED BY <1>1, <1>2, <1>3, <1>5, <1>6 DEF LogInv

\* Every step keeps the invariant.
LEMMA LogStepKeeps == LogInv /\ [ConfNext]_confVars => LogInv'
<1> SUFFICES ASSUME LogInv, [ConfNext]_confVars PROVE LogInv'
  OBVIOUS
<1>1. CASE UNCHANGED confVars
  <2>1. /\ cat' = cat /\ app' = app /\ reg' = reg /\ all' = all /\ log' = log
        /\ stream' = stream /\ fault' = fault /\ forced' = forced
        /\ cfg' = cfg /\ failed' = failed /\ creators' = creators
    BY <1>1 DEF confVars, cfgVars
  <2>2. StreamType' = StreamType
    BY <2>1 DEF StreamType
  <2>3. Progress'
    BY <2>1, <2>2 DEF LogInv, Progress
  <2>4. NullEntries' /\ BuiltInKept'
    BY <2>1 DEF LogInv, NullEntries, BuiltInKept
  <2> QED BY <2>1, <2>3, <2>4 DEF LogInv
<1>2. CASE ConfNext
  <2>1. fault = "none"
    BY <1>2 DEF ConfNext
  <2>2. CASE Application /\ UNCHANGED <<cfgVars, creators>>
    BY <2>1, <2>2, ApplicationKeeps
  <2>3. CASE Factories /\ UNCHANGED cfgVars
    BY <2>1, <2>3, FactoriesKeep
  <2>4. CASE CallAppenders /\ UNCHANGED <<cfgVars, creators>>
    BY <2>1, <2>4, CallAppendersKeeps
  <2>5. CASE cfg = NULL /\ Exit /\ UNCHANGED <<cfgVars, creators>>
    BY <2>1, <2>5, ExitKeeps
  <2>6. CASE Configurators /\ UNCHANGED creators
    BY <2>1, <2>6, ConfiguratorsKeep
  <2> QED BY <1>2, <2>2, <2>3, <2>4, <2>5, <2>6 DEF ConfNext
<1> QED BY <1>1, <1>2

\* As long as nobody called shutdownForced on appenders that others still hold,
\* no category, registry entry or configurator follows a pointer to a dead
\* appender (NoDangling), for every set of categories, appenders and files and
\* every order of calls.
THEOREM AppendersAreLive == ConfSpec => []NoDangling
<1>1. LogInv => NoDangling
  <2> SUFFICES ASSUME LogInv PROVE NoDangling
    OBVIOUS
  <2>1. \A c \in DOMAIN cat : cat[c] \in CategoryType
    BY DEF LogInv, CatOk
  <2>2. stream # NULL => stream \in StreamType
    BY DEF LogInv, Progress
  <2>3. \A k \in DOMAIN creators : \A n \in DOMAIN BuiltIn(k) : creators[k][n] = BuiltIn(k)[n]
    BY DEF LogInv, BuiltInKept
  <2>4. ASSUME forced = FALSE
        PROVE  /\ \A c \in DOMAIN cat : \A a \in cat[c].appender : Live(a)
               /\ \A c \in DOMAIN cat : cat[c].owns \subseteq cat[c].appender
               /\ \A c, d \in DOMAIN cat : c # d => cat[c].owns \cap cat[d].owns = {}
               /\ \A n \in DOMAIN reg : app[reg[n]] = n
               /\ \A n \in DOMAIN all : all[n] = NULL \/ Live(all[n])
               /\ fault # "memory"
    BY <2>4 DEF LogInv, Ownership, Live
  <2>5. fault = "null" => failed = TRUE
    BY DEF LogInv, NullEntries
  <2>6. forced \in BOOLEAN
    BY DEF LogInv, Progress
  <2>7. ~forced => forced = FALSE
    BY <2>6
  <2> QED BY <2>1, <2>2, <2>3, <2>4, <2>5, <2>7 DEF NoDangling
<1> QED BY <1>1, LogStart, LogStepKeeps, PTL DEF ConfSpec
-----------------------------------------------------------------------------
(* What the configurators leave behind.                                     *)

\* ConfigApplied in the middle of a run: the first m of the lines L are done,
\* with c for cat and l for all.
Line(c, l, k) ==
    /\ k.cat \in DOMAIN c
    /\ c[k.cat].priority = k.priority /\ c[k.cat].additive = k.additive
    /\ c[k.cat].appender = {l[n] : n \in Range(k.apps)}

Applied(c, l, L, m) ==
    \A i \in 1..m :
        (\A j \in (i + 1)..m : L[j].cat # L[i].cat) => Line(c, l, L[i])

\* The run of doConfigure in progress, and the last complete one.
RunType ==
    [file : Files, apps : Seq(AppenderLines), cats : Seq(CategoryLines), start : Nat]

DoneSoFar(c, l, g) ==
    \E m \in 0..Len(g.file.categories) :
        /\ g.cats = SubSeq(g.file.categories, m + 1, Len(g.file.categories))
        /\ g.apps # << >> => m = 0
        /\ Applied(c, l, g.file.categories, m)

ConfInv ==
    /\ calls \in Nat
    /\ cfg # NULL => cfg \in RunType /\ cfg.start <= calls
    /\ done # NULL => done \in [file : Files, at : Nat] /\ done.at <= calls
    /\ cfg # NULL /\ done # NULL => done.at < calls
    /\ cfg # NULL /\ cfg.start = calls /\ fault = "none" => DoneSoFar(cat, all, cfg)
    /\ done # NULL /\ done.at = calls =>
           Applied(cat, all, done.file.categories, Len(done.file.categories))

\* A file's lines.
LEMMA FileFacts ==
    ASSUME NEW f \in Files
    PROVE  /\ f.appenders \in Seq(AppenderLines) /\ f.categories \in Seq(CategoryLines)
           /\ Len(f.categories) \in Nat
BY FilesAssumption

\* The rest of the lines, from line m + 1 on.
LEMMA RestFacts ==
    ASSUME NEW T, NEW L \in Seq(T), NEW m \in 0..Len(L), NEW s, s = SubSeq(L, m + 1, Len(L))
    PROVE  /\ s = << >> => m = Len(L)
           /\ s # << >> => /\ m + 1 \in 1..Len(L) /\ Head(s) = L[m + 1]
                           /\ Tail(s) = SubSeq(L, m + 2, Len(L))
<1>0. Len(L) \in Nat
  BY LenProperties
<1>1. CASE m = Len(L)
  BY <1>1, <1>0, SubSeqEmpty
<1>2. CASE m # Len(L)
  <2>1. m + 1 \in 1..Len(L) /\ Len(L) \in (m + 1)..Len(L) /\ m + 2 = (m + 1) + 1
    BY <1>0, <1>2
  <2>2. Head(s) = L[m + 1] /\ Tail(s) = SubSeq(L, (m + 1) + 1, Len(L))
    BY <2>1, HeadTailOfSubSeq
  <2>3. s # << >>
    <3>1. s = <<L[m + 1]>> \o SubSeq(L, (m + 1) + 1, Len(L))
      BY <2>1, SubSeqRecursiveFirst
    <3>2. SubSeq(L, (m + 1) + 1, Len(L)) \in Seq(T) /\ <<L[m + 1]>> \in Seq(T)
      BY <2>1, <1>0
    <3>3. <<L[m + 1]>> # << >>
      OBVIOUS
    <3>4. <<L[m + 1]>> \o SubSeq(L, (m + 1) + 1, Len(L)) # << >>
      BY <3>2, <3>3, ConcatEqualIffEmpty
    <3> QED BY <3>1, <3>4
  <2> QED BY <2>1, <2>2, <2>3
<1> QED BY <1>1, <1>2

\* A line is done: the earlier ones stay in force, unless they are of the same
\* category.
LEMMA AppliedNext ==
    ASSUME NEW c, CatOk(c), NEW l, NEW L, NEW m \in Nat, NEW g \in CategoryLines,
           L[m + 1] = g, Applied(c, l, L, m), NEW n, n = g.cat, NEW e,
           e.priority = g.priority, e.additive = g.additive,
           e.appender = {l[x] : x \in Range(g.apps)}
    PROVE  Applied([Completed(c, n) EXCEPT ![n] = e], l, L, m + 1)
<1> DEFINE d == [Completed(c, n) EXCEPT ![n] = e]
<1>1. n \in Seq(STRING)
  BY DEF CategoryLines
<1>a. /\ n \in DOMAIN Completed(c, n) /\ DOMAIN c \subseteq DOMAIN Completed(c, n)
      /\ \A x \in DOMAIN c : Completed(c, n)[x] = c[x]
  BY <1>1, WithFacts
<1>2. n \in DOMAIN d /\ d[n] = e /\ \A x \in DOMAIN c : x \in DOMAIN d /\ (x # n => d[x] = c[x])
  BY <1>a
<1> HIDE DEF d
<1>3. ASSUME NEW i \in 1..(m + 1), \A j \in (i + 1)..(m + 1) : L[j].cat # L[i].cat
      PROVE  Line(d, l, L[i])
  <2>1. CASE i = m + 1
    BY <2>1, <1>2 DEF Line
  <2>2. CASE i # m + 1
    <3>1. i \in 1..m /\ m + 1 \in (i + 1)..(m + 1) /\ \A j \in (i + 1)..m : j \in (i + 1)..(m + 1)
      BY <2>2
    <3>2. Line(c, l, L[i]) /\ L[i].cat # n
      BY <3>1, <1>3 DEF Applied
    <3> QED BY <3>2, <1>2 DEF Line
  <2> QED BY <2>1, <2>2
<1>4. Applied(d, l, L, m + 1)
  BY <1>3 DEF Applied
<1> QED BY <1>4 DEF d

\* A call of the application invalidates what is known of a run.
LEMMA CallStep ==
    ASSUME ConfInv, calls' \in Nat, calls' > calls, UNCHANGED cfgVars
    PROVE  ConfInv'
<1>1. cfg' = cfg /\ done' = done
  BY DEF cfgVars
<1>2. /\ cfg # NULL => cfg \in RunType /\ cfg.start <= calls /\ cfg.start \in Nat
      /\ done # NULL => done \in [file : Files, at : Nat] /\ done.at <= calls /\ done.at \in Nat
      /\ calls \in Nat
  BY DEF ConfInv, RunType
<1> QED BY <1>1, <1>2 DEF ConfInv

\* A run ends with an exception, or nothing happens to it.
LEMMA ThrowStep ==
    ASSUME ConfInv, cfg # NULL, Throw, UNCHANGED calls
    PROVE  ConfInv'
<1>1. cfg' = NULL /\ done' = done /\ calls' = calls
  BY DEF Throw
<1>2. done # NULL => done \in [file : Files, at : Nat] /\ done.at < calls /\ done.at \in Nat
  BY DEF ConfInv
<1>3. calls \in Nat
  BY DEF ConfInv
<1> QED BY <1>1, <1>2, <1>3 DEF ConfInv

LEMMA SameStep ==
    ASSUME ConfInv, fault = "none", UNCHANGED <<cat, all, calls, cfgVars>>
    PROVE  ConfInv'
<1>1. cat' = cat /\ all' = all /\ calls' = calls /\ cfg' = cfg /\ done' = done
  BY DEF cfgVars
<1> QED BY <1>1 DEF ConfInv

\* doConfigure begins: nothing is applied yet.
LEMMA BeginStep ==
    ASSUME ConfInv, NEW f \in Files, DoConfigure(f)
    PROVE  ConfInv'
<1>1. /\ cfg' = [file |-> f, apps |-> f.appenders, cats |-> f.categories, start |-> calls + 1]
      /\ calls' = calls + 1 /\ done' = done /\ cat' = cat /\ all' = all
  BY DEF DoConfigure, Call, heapVars
<1>2. calls \in Nat
  BY DEF ConfInv
<1>3. cfg' \in RunType /\ cfg'.start = calls' /\ cfg'.file = f /\ cfg'.cats = f.categories
  BY <1>1, <1>2, FileFacts DEF RunType
<1>4. DoneSoFar(cat', all', cfg')
  <2>1. 0 \in 0..Len(f.categories)
    BY FileFacts
  <2>2. f.categories = SubSeq(f.categories, 0 + 1, Len(f.categories))
    BY FileFacts, SubSeqFull
  <2>3. Applied(cat', all', f.categories, 0)
    BY DEF Applied
  <2> QED BY <2>1, <2>2, <2>3, <1>3 DEF DoneSoFar
<1>5. done # NULL => done \in [file : Files, at : Nat] /\ done.at <= calls /\ done.at \in Nat
  BY DEF ConfInv
<1> QED BY <1>1, <1>2, <1>3, <1>4, <1>5 DEF ConfInv

\* An appender is made before any line of a category is looked at.
LEMMA AppenderStep ==
    ASSUME LogInv, ConfInv, fault = "none", NEW a \in Apps, InstantiateAppender(a)
    PROVE  ConfInv'
<1>1. /\ cfg # NULL /\ cfg.apps # << >> /\ cfg' = [cfg EXCEPT !.apps = Tail(@)]
      /\ calls' = calls /\ done' = done /\ cat' = cat /\ fault' = fault
  BY DEF InstantiateAppender
<1>2. cfg \in RunType /\ Tail(cfg.apps) \in Seq(AppenderLines)
  BY <1>1 DEF ConfInv, RunType
<1>3. /\ cfg' \in RunType /\ cfg'.file = cfg.file /\ cfg'.cats = cfg.cats
      /\ cfg'.start = cfg.start
  BY <1>1, <1>2 DEF RunType
<1>4. ASSUME cfg.start = calls PROVE DoneSoFar(cat', all', cfg')
  <2>1. DoneSoFar(cat, all, cfg)
    BY <1>1, <1>4 DEF ConfInv
  <2>2. PICK m \in 0..Len(cfg.file.categories) :
          /\ cfg.cats = SubSeq(cfg.file.categories, m + 1, Len(cfg.file.categories))
          /\ m = 0
    BY <2>1, <1>1 DEF DoneSoFar
  <2>3. Applied(cat', all', cfg.file.categories, m)
    BY <2>2 DEF Applied
  <2> QED BY <2>2, <2>3, <1>3 DEF DoneSoFar
<1>5. done # NULL => done \in [file : Files, at : Nat] /\ done.at < calls /\ done.at \in Nat
  BY <1>1 DEF ConfInv
<1>6. calls \in Nat /\ cfg.start <= calls
  BY <1>1 DEF ConfInv
<1>7. cfg # NULL /\ cfg' # NULL => cfg' \in RunType /\ cfg'.start <= calls'
  BY <1>1, <1>3, <1>6
<1> QED BY <1>1, <1>3, <1>4, <1>5, <1>6 DEF ConfInv

\* A line of a category.
LEMMA CategoryStep ==
    ASSUME LogInv, ConfInv, fault = "none", ConfigureCategory
    PROVE  ConfInv'
<1>1. PICK c, g, n, l, e :
        /\ c = cat /\ g = NextCategory /\ n = g.cat /\ l = all /\ e = Configured(g)
  OBVIOUS
<1>2. /\ cfg # NULL /\ cfg.apps = << >> /\ cfg.cats # << >>
      /\ calls' = calls /\ all' = all
      /\ cat' = [Completed(c, n) EXCEPT ![n] = e]
  BY <1>1, InstanceIsCompleted DEF ConfigureCategory
<1>3. CASE Throw
  BY <1>2, <1>3, ThrowStep
<1>4. CASE ~Throw
  <2>1. /\ Known(g.apps) = 1..Len(g.apps)
        /\ cfg' = [cfg EXCEPT !.cats = Tail(@)] /\ done' = done
        /\ fault' = "none" => NULL \notin Listed(g)
    BY <1>1, <1>4 DEF ConfigureCategory
  <2>2. cfg \in RunType /\ g \in CategoryLines /\ Tail(cfg.cats) \in Seq(CategoryLines) /\ CatOk(c)
    BY <1>1, <1>2, NextCategoryFacts DEF ConfInv, LogInv
  <2>3. /\ cfg' \in RunType /\ cfg'.file = cfg.file /\ cfg'.cats = Tail(cfg.cats)
        /\ cfg'.start = cfg.start /\ cfg'.apps = cfg.apps
    BY <2>1, <2>2 DEF RunType
  <2>4. ASSUME cfg.start = calls, fault' = "none" PROVE DoneSoFar(cat', all', cfg')
    <3>1. PICK L, m : /\ L = cfg.file.categories /\ m \in 0..Len(L)
                      /\ cfg.cats = SubSeq(L, m + 1, Len(L))
                      /\ Applied(c, l, L, m)
      BY <1>1, <1>2, <2>4 DEF ConfInv, DoneSoFar
    <3>2. L \in Seq(CategoryLines)
      BY <3>1, <2>2, FileFacts DEF RunType
    <3>3. m + 1 \in 1..Len(L) /\ g = L[m + 1] /\ Tail(cfg.cats) = SubSeq(L, m + 2, Len(L))
      BY <1>1, <1>2, <3>1, <3>2, RestFacts DEF NextCategory
    <3>4. e.priority = g.priority /\ e.additive = g.additive /\ e.appender = Listed(g) \ {NULL}
      BY <1>1 DEF Configured
    <3>5. Listed(g) = {l[x] : x \in Range(g.apps)}
      <4>1. g.apps \in Seq(Seq(STRING)) /\ DOMAIN g.apps = 1..Len(g.apps)
        BY <2>2 DEF CategoryLines
      <4>2. Listed(g) = {l[g.apps[i]] : i \in 1..Len(g.apps)}
        BY <1>1, <2>1 DEF Listed
      <4>3. Range(g.apps) = {g.apps[i] : i \in 1..Len(g.apps)}
        BY <4>1 DEF Range
      <4> QED BY <4>2, <4>3
    <3>6. e.appender = {l[x] : x \in Range(g.apps)}
      BY <3>4, <3>5, <2>1, <2>4
    <3>a. m \in Nat /\ n = g.cat /\ L[m + 1] = g
      BY <1>1, <3>1, <3>3
    <3>b. e.priority = g.priority /\ e.additive = g.additive
      BY <3>4
    <3>7. Applied([Completed(c, n) EXCEPT ![n] = e], l, L, m + 1)
      BY <2>2, <3>1, <3>6, <3>a, <3>b, AppliedNext
    <3>8. m + 1 \in 0..Len(L) /\ m + 2 = (m + 1) + 1 /\ cfg'.apps = << >>
      BY <3>1, <3>3, <1>2, <2>3
    <3>9. Applied(cat', all', cfg'.file.categories, m + 1)
      BY <3>1, <3>7, <1>1, <1>2, <2>3
    <3> QED BY <3>1, <3>3, <3>8, <3>9, <2>3 DEF DoneSoFar
  <2>5. done # NULL => done \in [file : Files, at : Nat] /\ done.at < calls /\ done.at \in Nat
    BY <1>2 DEF ConfInv
  <2>6. calls \in Nat /\ cfg.start <= calls
    BY <1>2 DEF ConfInv
  <2> QED BY <1>2, <2>1, <2>3, <2>4, <2>5, <2>6 DEF ConfInv
<1> QED BY <1>3, <1>4

\* The last line is done, and nobody called anything in between.
LEMMA DoneStep ==
    ASSUME LogInv, ConfInv, fault = "none", ConfigureDone
    PROVE  ConfInv'
<1>1. /\ cfg # NULL /\ cfg.cats = << >> /\ cfg' = NULL /\ calls' = calls
      /\ done' = IF cfg.start = calls THEN [file |-> cfg.file, at |-> calls] ELSE NULL
      /\ cat' = cat /\ all' = all
  BY DEF ConfigureDone, heapVars
<1>2. cfg \in RunType /\ calls \in Nat
  BY <1>1 DEF ConfInv
<1>3. cfg.file \in Files
  BY <1>2 DEF RunType
<1>4. ASSUME cfg.start = calls
      PROVE  Applied(cat, all, cfg.file.categories, Len(cfg.file.categories))
  <2>1. PICK L, m : /\ L = cfg.file.categories /\ m \in 0..Len(L)
                    /\ cfg.cats = SubSeq(L, m + 1, Len(L))
                    /\ Applied(cat, all, L, m)
    BY <1>1, <1>4 DEF ConfInv, DoneSoFar
  <2>2. L \in Seq(CategoryLines)
    BY <2>1, <1>3, FileFacts
  <2>3. m = Len(L)
    BY <1>1, <2>1, <2>2, RestFacts
  <2> QED BY <2>1, <2>3
<1>5. CASE cfg.start = calls
  <2>1. done' \in [file : Files, at : Nat] /\ done'.at = calls /\ done'.file = cfg.file
    BY <1>1, <1>2, <1>3, <1>5
  <2>2. Applied(cat', all', done'.file.categories, Len(done'.file.categories))
    BY <2>1, <1>1, <1>4, <1>5
  <2> QED BY <1>1, <1>2, <2>1, <2>2 DEF ConfInv
<1>6. CASE cfg.start # calls
  <2>1. done' = NULL
    BY <1>1, <1>6
  <2> QED BY <1>1, <1>2, <2>1 DEF ConfInv
<1> QED BY <1>5, <1>6

\* Every step keeps ConfInv.
LEMMA ConfStepKeeps == LogInv /\ ConfInv /\ [ConfNext]_confVars => ConfInv'
<1> SUFFICES ASSUME LogInv, ConfInv, [ConfNext]_confVars PROVE ConfInv'
  OBVIOUS
<1>0. calls \in Nat
  BY DEF ConfInv
<1>1. CASE UNCHANGED confVars
  <2>1. cat' = cat /\ all' = all /\ calls' = calls /\ cfg' = cfg /\ done' = done /\ fault' = fault
    BY <1>1 DEF confVars, cfgVars
  <2> QED BY <2>1 DEF ConfInv
<1>2. CASE ConfNext
  <2>1. fault = "none"
    BY <1>2 DEF ConfNext
  <2>2. Call => calls' \in Nat /\ calls' > calls
    BY <1>0 DEF Call
  <2>3. CASE Application /\ UNCHANGED <<cfgVars, creators>>
    <3>1. Call
      BY <2>3 DEF Application, GetInstance, SetPriority, Log, GetStream, FixedContextLog, SetAdditivity,
                  AddAppenderPtr, AddAppenderRef, RemoveAppender, LogBy, StreamBy, RemoveAllAppenders,
                  SetAppender, NewAppender, DeleteAppender, StreamIn, StreamWidth, StreamFlush,
                  Shutdown, ShutdownForced
    <3> QED BY <3>1, <2>2, <2>3, CallStep
  <2>4. CASE Factories /\ UNCHANGED cfgVars
    <3>1. Call
      BY <2>4 DEF Factories, RegisterCreator, FactoryCreate
    <3> QED BY <3>1, <2>2, <2>4, CallStep
  <2>5. CASE CallAppenders /\ UNCHANGED <<cfgVars, creators>>
    BY <2>1, <2>5, SameStep DEF CallAppenders, heapVars
  <2>6. CASE cfg = NULL /\ Exit /\ UNCHANGED <<cfgVars, creators>>
    <3>1. calls' \in Nat /\ calls' > calls
      BY <2>6, <1>0, HierarchyAssumption DEF Exit
    <3> QED BY <3>1, <2>6, CallStep
  <2>7. CASE Configurators /\ UNCHANGED creators
    <3>1. CASE \E f \in Files : DoConfigure(f)
      BY <3>1, BeginStep
    <3>2. CASE \/ InstantiateUnknown
               \/ \E a \in Apps : InstantiateWithoutLayout(a) \/ InstantiateWithoutThreshold(a)
               \/ ConfigureRootMissing \/ ConfigurePriorityFails
      <4>1. cfg # NULL /\ Throw /\ UNCHANGED calls
        BY <3>2 DEF InstantiateUnknown, InstantiateWithoutLayout, InstantiateWithoutThreshold,
                    ConfigureRootMissing, ConfigurePriorityFails
      <4> QED BY <4>1, ThrowStep
    <3>3. CASE \E a \in Apps : InstantiateAppender(a)
      BY <2>1, <3>3, AppenderStep
    <3>4. CASE ConfigureCategory
      BY <2>1, <3>4, CategoryStep
    <3>5. CASE ConfigureDone
      BY <2>1, <3>5, DoneStep
    <3>6. CASE \/ \E a \in Apps : BasicConfigure(a)
               \/ \E n \in Cats : SimpleCategory(n)
               \/ \E n \in Cats : \E p \in Levels : SimplePriority(n, p)
               \/ \E n \in Cats : \E a \in Apps : \E ok \in BOOLEAN : SimpleAppender(n, a, ok)
      <4>1. Call /\ UNCHANGED cfgVars
        BY <3>6 DEF BasicConfigure, SimpleCategory, GetInstance, SimplePriority, SimpleAppender
      <4> QED BY <4>1, <2>2, CallStep
    <3> QED BY <2>7, <3>1, <3>2, <3>3, <3>4, <3>5, <3>6 DEF Configurators
  <2> QED BY <1>2, <2>3, <2>4, <2>5, <2>6, <2>7 DEF ConfNext
<1> QED BY <1>1, <1>2

\* A configuration that ran to its end without another call in between is in
\* force (ConfigApplied), for every file, whatever the categories and the
\* configurator's map held before.
THEOREM ConfigurationsApply == ConfSpec => []ConfigApplied
<1>1. ConfInv => ConfigApplied
  <2> SUFFICES ASSUME ConfInv, done # NULL, done.at = calls,
                      NEW i \in 1..Len(done.file.categories),
                      \A j \in (i + 1)..Len(done.file.categories) :
                          done.file.categories[j].cat # done.file.categories[i].cat
               PROVE  InForce(done.file.categories[i])
    BY DEF ConfigApplied
  <2>1. Applied(cat, all, done.file.categories, Len(done.file.categories))
    BY DEF ConfInv
  <2>2. Line(cat, all, done.file.categories[i])
    BY <2>1 DEF Applied
  <2> QED BY <2>2 DEF Line, InForce
<1>2. ConfInit => ConfInv
  BY DEF ConfInit, Init, ConfInv
<1>3. LogInv /\ ConfInv /\ [ConfNext]_confVars => (LogInv /\ ConfInv)'
  BY LogStepKeeps, ConfStepKeeps
<1> QED BY <1>1, <1>2, <1>3, LogStart, PTL DEF ConfSpec
-----------------------------------------------------------------------------
(* vsnprintf, vform and the asprintf family.                               *)

\* The length l after n more characters.
Add(l, n) == (l + n) % SizeMod

\* The characters of s are in a buffer of size b.
Inside(s, b) == \A i \in DOMAIN s : i \in Int /\ i >= 0 /\ i < b

\* str_l after the conversion c, and after an item, from the length l.
ConvertedLength(l, c) ==
    LET left == IF JustifyLeft(c) THEN l ELSE Add(l, Fill(c))
        body == IF ZerosToPad(c) = 0 THEN Add(left, Len(Prefix(c) \o Digits(c)))
                ELSE Add(Add(Add(left, Len(Prefix(c))), ZerosToPad(c)), Len(Digits(c)))
    IN  IF JustifyLeft(c) THEN Add(body, Fill(c)) ELSE body

OutputLength(l, item) ==
    IF item.spec = "literal" THEN Add(l, Len(item.arg.text)) ELSE ConvertedLength(l, item)

\* h[i] is the length before item i of the format f, for the first n items.
Course(h, f, n) ==
    /\ h[1] = 0
    /\ \A i \in 1..n : h[i + 1] = OutputLength(h[i], f[i])

\* The second pass follows the course of the first.
PassOk ==
    /\ pass = "measure" =>
           /\ str_m = 0 /\ measured = -1
           /\ \E h : Course(h, fmt, pos - 1) /\ h[pos] = str_l
    /\ pass = "print" /\ measured >= 0 =>
           \E h : Course(h, fmt, Len(fmt)) /\ h[pos] = str_l /\ h[Len(fmt) + 1] = measured
    /\ pass = "done" /\ measured >= 0 /\ str_m > 0 => str_l = measured

BufferInv ==
    /\ fmt \in Seq(Items) /\ pos \in 1..(Len(fmt) + 1)
    /\ str_m \in Nat /\ str_l \in Nat /\ measured \in Nat \cup {-1}
    /\ limit \in Nat \cup {-1}
    /\ pass \in {"print", "measure", "done"}
    /\ Inside(str, str_m)
    /\ pass = "done" /\ str_m > 0 => \E i \in DOMAIN str : str[i] = "end"
    /\ PassOk

\* size_t arithmetic stays in its range.
LEMMA AddFacts ==
    ASSUME NEW l \in Int, NEW n \in Int PROVE Add(l, n) \in Nat
BY FormatsAssumption DEF Add

\* Putting text at the end of what is there: nothing outside the buffer is
\* written, and the length grows whether or not the text fits.
LEMMA PutFacts ==
    ASSUME NEW o, o.l \in Nat, str_m \in Nat, Inside(o.s, str_m), NEW t, Len(t) \in Nat
    PROVE  /\ Put(o, t).l = Add(o.l, Len(t)) /\ Put(o, t).l \in Nat
           /\ Inside(Put(o, t).s, str_m)
<1> DEFINE k == IF o.l < str_m THEN Least(Len(t), str_m - o.l) ELSE 0
<1>1. k \in Nat /\ (k > 0 => o.l + k <= str_m)
  BY DEF Least
<1>2. /\ Put(o, t).l = (o.l + Len(t)) % SizeMod
      /\ DOMAIN Put(o, t).s = DOMAIN o.s \cup (o.l .. (o.l + k - 1))
  BY DEF Put
<1> HIDE DEF k
<1>3. \A i \in o.l .. (o.l + k - 1) : i \in Int /\ i >= 0 /\ i < str_m
  BY <1>1
<1>4. Inside(Put(o, t).s, str_m)
  BY <1>2, <1>3 DEF Inside
<1> QED BY <1>2, <1>4, AddFacts DEF Add

LEMMA PutFillFacts ==
    ASSUME NEW o, o.l \in Nat, str_m \in Nat, Inside(o.s, str_m), NEW n \in Nat, NEW ch
    PROVE  /\ PutFill(o, n, ch).l = Add(o.l, n) /\ PutFill(o, n, ch).l \in Nat
           /\ Inside(PutFill(o, n, ch).s, str_m)
<1> DEFINE t == [i \in 1..n |-> ch]
<1>1. t \in Seq({ch}) /\ Len(t) = n
  OBVIOUS
<1> HIDE DEF t
<1> QED BY <1>1, PutFacts DEF PutFill, t

\* The parts of a conversion have lengths, and the fill is a size_t.
LEMMA PartFacts ==
    ASSUME NEW c \in Items
    PROVE  /\ Len(Prefix(c)) \in Nat /\ Len(Digits(c)) \in Nat
           /\ Len(Prefix(c) \o Digits(c)) \in Nat
           /\ ZerosToPad(c) \in Nat /\ Fill(c) \in Nat
<1>0. /\ c.arg.text \in Seq(STRING) /\ c.width \in Int /\ c.precision \in Int
      /\ Len(c.arg.text) \in Nat
  BY DEF Items
<1>1. \E S : Prefix(c) \in Seq(S) /\ Digits(c) \in Seq(S)
  <2>1. Prefix(c) \in Seq({"-", "+", Space, "0", "x"} \cup STRING)
    <3> DEFINE S == {"-", "+", Space, "0", "x"} \cup STRING
    <3>1. "-" \in S /\ "+" \in S /\ Space \in S /\ "0" \in S /\ "x" \in S
      OBVIOUS
    <3> HIDE DEF S
    <3>2. /\ <<"-">> \in Seq(S) /\ <<"+">> \in Seq(S) /\ <<Space>> \in Seq(S)
          /\ <<"0", "x">> \in Seq(S) /\ << >> \in Seq(S)
      BY <3>1
    <3>3. Prefix(c) \in {<<"-">>, <<"+">>, <<Space>>, <<"0", "x">>, << >>}
      BY DEF Prefix
    <3>4. Prefix(c) \in Seq(S)
      BY <3>2, <3>3
    <3> QED BY <3>4 DEF S
  <2>2. Digits(c) \in Seq({"-", "+", Space, "0", "x"} \cup STRING)
    <3>1. c.arg.text \in Seq({"-", "+", Space, "0", "x"} \cup STRING)
      BY <1>0, SeqMonotonic
    <3>2. \A n \in Int : n <= Len(c.arg.text) =>
              SubSeq(c.arg.text, 1, n) \in Seq({"-", "+", Space, "0", "x"} \cup STRING)
      <4> SUFFICES ASSUME NEW n \in Int, n <= Len(c.arg.text)
                   PROVE  SubSeq(c.arg.text, 1, n) \in Seq({"-", "+", Space, "0", "x"} \cup STRING)
        OBVIOUS
      <4>1. \A i \in 1..n : c.arg.text[i] \in {"-", "+", Space, "0", "x"} \cup STRING
        BY <1>0, <3>1, ElementOfSeq
      <4> QED BY <4>1, SubSeqProperties
    <3>3. Least(c.precision, Len(c.arg.text)) \in Int /\ Least(c.precision, Len(c.arg.text)) <= Len(c.arg.text)
      BY <1>0 DEF Least
    <3> QED BY <3>1, <3>2, <3>3 DEF Digits
  <2> QED BY <2>1, <2>2
<1>2. Len(Prefix(c)) \in Nat /\ Len(Digits(c)) \in Nat /\ Len(Prefix(c) \o Digits(c)) \in Nat
  BY <1>1, ConcatProperties, LenProperties
<1>3. MinFieldWidth(c) \in Nat /\ ArgLen(c) \in Nat
  BY <1>0, <1>2 DEF MinFieldWidth, ArgLen
<1>4. Precision(c) \in Int
  BY <1>0, <1>2 DEF Precision
<1>5. PrecisionZeros(c) \in Nat
  BY <1>2, <1>4 DEF PrecisionZeros
<1>6. \A a, b \in Int : Minus(a, b) \in Nat
  BY FormatsAssumption DEF Minus
<1>7. \A a \in Int : a % SizeMod \in Nat
  BY FormatsAssumption
<1>8. ZerosToPad(c) \in Nat
  <2>1. Minus(MinFieldWidth(c), ArgLen(c) + PrecisionZeros(c)) \in Nat
    <3>1. ArgLen(c) + PrecisionZeros(c) \in Int /\ MinFieldWidth(c) \in Int
      BY <1>3, <1>5
    <3> QED BY <3>1, <1>6
  <2>2. (PrecisionZeros(c) + Minus(MinFieldWidth(c), ArgLen(c) + PrecisionZeros(c))) % SizeMod \in Nat
    BY <2>1, <1>5, <1>7
  <2> QED BY <2>2, <1>5 DEF ZerosToPad
<1>9. Fill(c) \in Nat
  <2>1. (ArgLen(c) + ZerosToPad(c)) % SizeMod \in Int
    BY <1>3, <1>7, <1>8
  <2> QED BY <2>1, <1>3, <1>6 DEF Fill
<1> QED BY <1>2, <1>8, <1>9

\* An item: the buffer is kept, and the length does not depend on it.
LEMMA OutputFacts ==
    ASSUME NEW o, o.l \in Nat, str_m \in Nat, Inside(o.s, str_m), NEW c \in Items
    PROVE  /\ Output(o, c).l = OutputLength(o.l, c) /\ Output(o, c).l \in Nat
           /\ Inside(Output(o, c).s, str_m)
<1>1. CASE c.spec = "literal"
  <2>1. Len(c.arg.text) \in Nat
    BY DEF Items
  <2> QED BY <1>1, <2>1, PutFacts DEF Output, OutputLength
<1>2. CASE c.spec # "literal"
  <2> DEFINE left == IF JustifyLeft(c) THEN o ELSE PutFill(o, Fill(c), Space)
             body == IF ZerosToPad(c) = 0 THEN Put(left, Prefix(c) \o Digits(c))
                     ELSE Put(PutFill(Put(left, Prefix(c)), ZerosToPad(c), "0"), Digits(c))
             leftL == IF JustifyLeft(c) THEN o.l ELSE Add(o.l, Fill(c))
             bodyL == IF ZerosToPad(c) = 0 THEN Add(leftL, Len(Prefix(c) \o Digits(c)))
                      ELSE Add(Add(Add(leftL, Len(Prefix(c))), ZerosToPad(c)), Len(Digits(c)))
  <2>1. left.l = leftL /\ left.l \in Nat /\ Inside(left.s, str_m)
    BY PartFacts, PutFillFacts
  <2>2. Converted(o, c) = IF JustifyLeft(c) THEN PutFill(body, Fill(c), Space) ELSE body
    BY DEF Converted
  <2>3. ConvertedLength(o.l, c) = IF JustifyLeft(c) THEN Add(bodyL, Fill(c)) ELSE bodyL
    BY DEF ConvertedLength
  <2> HIDE DEF left, leftL
  <2>4. body.l = bodyL /\ body.l \in Nat /\ Inside(body.s, str_m)
    <3>1. CASE ZerosToPad(c) = 0
      BY <3>1, <2>1, PartFacts, PutFacts
    <3>2. CASE ZerosToPad(c) # 0
      <4> DEFINE p == Put(left, Prefix(c))
                 z == PutFill(p, ZerosToPad(c), "0")
      <4>1. p.l = Add(leftL, Len(Prefix(c))) /\ p.l \in Nat /\ Inside(p.s, str_m)
        BY <2>1, PartFacts, PutFacts
      <4> HIDE DEF p
      <4>2. z.l = Add(p.l, ZerosToPad(c)) /\ z.l \in Nat /\ Inside(z.s, str_m)
        BY <4>1, PartFacts, PutFillFacts
      <4> HIDE DEF z
      <4>3. /\ Put(z, Digits(c)).l = Add(z.l, Len(Digits(c)))
            /\ Put(z, Digits(c)).l \in Nat /\ Inside(Put(z, Digits(c)).s, str_m)
        BY <4>2, PartFacts, PutFacts
      <4> QED BY <3>2, <4>1, <4>2, <4>3 DEF p, z
    <3> QED BY <3>1, <3>2
  <2> HIDE DEF body, bodyL
  <2>5. /\ Converted(o, c).l = ConvertedLength(o.l, c) /\ Converted(o, c).l \in Nat
        /\ Inside(Converted(o, c).s, str_m)
    <3>1. CASE JustifyLeft(c)
      <4>1. /\ PutFill(body, Fill(c), Space).l = Add(body.l, Fill(c))
            /\ PutFill(body, Fill(c), Space).l \in Nat
            /\ Inside(PutFill(body, Fill(c), Space).s, str_m)
        BY <2>4, PartFacts, PutFillFacts
      <4> QED BY <3>1, <2>2, <2>3, <2>4, <4>1
    <3>2. CASE ~JustifyLeft(c)
      BY <3>2, <2>2, <2>3, <2>4
    <3> QED BY <3>1, <3>2
  <2> QED BY <1>2, <2>5 DEF Output, OutputLength
<1> QED BY <1>1, <1>2

\* One more item of the measuring pass.
LEMMA CourseNext ==
    ASSUME NEW h, NEW f, NEW p \in Nat, p > 0, Course(h, f, p - 1)
    PROVE  \E g : Course(g, f, p) /\ g[p + 1] = OutputLength(h[p], f[p])
<1> DEFINE g == [i \in 1..(p + 1) |-> IF i <= p THEN h[i] ELSE OutputLength(h[p], f[p])]
<1>1. g[p + 1] = OutputLength(h[p], f[p]) /\ \A i \in 1..p : g[i] = h[i]
  OBVIOUS
<1>2. g[1] = 0
  BY <1>1 DEF Course
<1> HIDE DEF g
<1>3. ASSUME NEW i \in 1..p PROVE g[i + 1] = OutputLength(g[i], f[i])
  <2>1. CASE i = p
    BY <2>1, <1>1
  <2>2. CASE i # p
    <3>1. i \in 1..(p - 1) /\ i + 1 \in 1..p
      BY <2>2
    <3>2. h[i + 1] = OutputLength(h[i], f[i])
      BY <3>1 DEF Course
    <3> QED BY <3>1, <3>2, <1>1
  <2> QED BY <2>1, <2>2
<1> QED BY <1>1, <1>2, <1>3 DEF Course

LEMMA ItemKeeps == ASSUME BufferInv, Item PROVE BufferInv'
<1>1. PICK o, c : o = [l |-> str_l, s |-> str] /\ c = fmt[pos]
  OBVIOUS
<1>2. /\ pass # "done" /\ pos <= Len(fmt) /\ pos' = pos + 1
      /\ str_l' = Output(o, c).l /\ str' = Output(o, c).s
      /\ fmt' = fmt /\ str_m' = str_m /\ pass' = pass /\ measured' = measured /\ limit' = limit
  BY <1>1 DEF Item
<1>3. /\ fmt \in Seq(Items) /\ pos \in 1..(Len(fmt) + 1) /\ Len(fmt) \in Nat
      /\ str_m \in Nat /\ str_l \in Nat /\ measured \in Nat \cup {-1} /\ limit \in Nat \cup {-1}
      /\ pass \in {"print", "measure", "done"} /\ Inside(str, str_m)
  BY DEF BufferInv
<1>4. c \in Items /\ pos \in Nat /\ pos > 0 /\ pos + 1 \in 1..(Len(fmt) + 1)
  BY <1>1, <1>2, <1>3
<1>5. o.l = str_l /\ o.s = str
  BY <1>1
<1>6. str_l' = OutputLength(str_l, c) /\ str_l' \in Nat /\ Inside(str', str_m)
  BY <1>2, <1>3, <1>4, <1>5, OutputFacts
<1>7. PassOk'
  <2>0. PassOk
    BY DEF BufferInv
  <2>1. CASE pass = "measure"
    <3>1. str_m = 0 /\ measured = -1
      BY <2>0, <2>1 DEF PassOk
    <3>2. PICK h : Course(h, fmt, pos - 1) /\ h[pos] = str_l
      BY <2>0, <2>1 DEF PassOk
    <3>3. PICK g : Course(g, fmt, pos) /\ g[pos + 1] = OutputLength(h[pos], fmt[pos])
      BY <3>2, <1>4, CourseNext
    <3>4. Course(g, fmt', pos' - 1) /\ g[pos'] = str_l'
      <4>1. pos' - 1 = pos
        BY <1>2, <1>4
      <4>2. Course(g, fmt', pos' - 1)
        BY <4>1, <3>3, <1>2
      <4> QED BY <4>2, <3>2, <3>3, <1>1, <1>2, <1>6
    <3> QED BY <2>1, <3>1, <3>4, <1>2 DEF PassOk
  <2>2. CASE pass = "print"
    <3> SUFFICES ASSUME measured >= 0
                 PROVE  \E h : Course(h, fmt, Len(fmt)) /\ h[pos + 1] = str_l' /\ h[Len(fmt) + 1] = measured
      BY <2>2, <1>2 DEF PassOk
    <3>1. PICK h : Course(h, fmt, Len(fmt)) /\ h[pos] = str_l /\ h[Len(fmt) + 1] = measured
      BY <2>0, <2>2 DEF PassOk
    <3>2. pos \in 1..Len(fmt)
      BY <1>2, <1>3
    <3>3. h[pos + 1] = OutputLength(h[pos], fmt[pos])
      BY <3>1, <3>2 DEF Course
    <3> QED BY <3>1, <3>3, <1>1, <1>6
  <2> QED BY <2>1, <2>2, <1>2, <1>3
<1> QED BY <1>2, <1>3, <1>4, <1>6, <1>7 DEF BufferInv

LEMMA ReturnKeeps == ASSUME BufferInv, Return PROVE BufferInv'
<1>1. /\ pass = "print" /\ pos > Len(fmt) /\ pass' = "done"
      /\ fmt' = fmt /\ str_m' = str_m /\ measured' = measured /\ limit' = limit /\ pos' = pos
      /\ str_l' = str_l /\ str' = Terminated([l |-> str_l, s |-> str]).s
  BY DEF Return
<1>2. /\ fmt \in Seq(Items) /\ pos \in 1..(Len(fmt) + 1) /\ Len(fmt) \in Nat
      /\ str_m \in Nat /\ str_l \in Nat /\ measured \in Nat \cup {-1} /\ limit \in Nat \cup {-1}
      /\ Inside(str, str_m) /\ PassOk
  BY DEF BufferInv
<1>3. Inside(str', str_m) /\ (str_m > 0 => \E i \in DOMAIN str' : str'[i] = "end")
  <2>1. CASE str_m = 0
    BY <2>1, <1>1, <1>2 DEF Terminated
  <2>2. CASE str_m # 0
    <3> DEFINE i == Least(str_l, str_m - 1)
    <3>1. i \in Nat /\ i < str_m
      BY <2>2, <1>2 DEF Least
    <3>2. str' = [j \in DOMAIN str \cup {i} |-> IF j = i THEN "end" ELSE str[j]]
      BY <2>2, <1>1 DEF Terminated
    <3> HIDE DEF i
    <3>3. DOMAIN str' = DOMAIN str \cup {i} /\ str'[i] = "end"
      BY <3>2
    <3>4. Inside(str', str_m)
      BY <3>1, <3>3, <1>2 DEF Inside
    <3> QED BY <3>3, <3>4
  <2> QED BY <2>1, <2>2
<1>4. ASSUME measured >= 0 PROVE str_l = measured
  <2>1. PICK h : h[pos] = str_l /\ h[Len(fmt) + 1] = measured
    BY <1>1, <1>2, <1>4 DEF PassOk
  <2>2. pos = Len(fmt) + 1
    BY <1>1, <1>2
  <2> QED BY <2>1, <2>2
<1>5. PassOk'
  BY <1>1, <1>4 DEF PassOk
<1> QED BY <1>1, <1>2, <1>3, <1>5 DEF BufferInv

\* The second pass begins where the first began.
LEMMA AllocateKeeps == ASSUME BufferInv, Allocate PROVE BufferInv'
<1>1. /\ pass = "measure" /\ pos > Len(fmt) /\ measured' = str_l
      /\ str_m' = (IF limit = -1 THEN str_l + 1 ELSE Least(limit, str_l + 1))
      /\ pass' = (IF str_m' = 0 THEN "done" ELSE "print")
      /\ pos' = 1 /\ str_l' = 0 /\ fmt' = fmt /\ str' = str /\ limit' = limit
  BY DEF Allocate
<1>2. /\ fmt \in Seq(Items) /\ pos \in 1..(Len(fmt) + 1) /\ Len(fmt) \in Nat
      /\ str_m \in Nat /\ str_l \in Nat /\ limit \in Nat \cup {-1}
      /\ Inside(str, str_m) /\ PassOk
  BY DEF BufferInv
<1>3. str_m' \in Nat /\ 1 \in 1..(Len(fmt) + 1)
  BY <1>1, <1>2 DEF Least
<1>4. str_m = 0
  BY <1>1, <1>2 DEF PassOk
<1>5. Inside(str', str_m')
  BY <1>1, <1>2, <1>4 DEF Inside
<1>6. PICK h : Course(h, fmt, Len(fmt)) /\ h[Len(fmt) + 1] = str_l
  <2>1. PICK h : Course(h, fmt, pos - 1) /\ h[pos] = str_l
    BY <1>1, <1>2 DEF PassOk
  <2>2. pos = Len(fmt) + 1 /\ pos - 1 = Len(fmt)
    BY <1>1, <1>2
  <2> QED BY <2>1, <2>2
<1>7. PassOk'
  <2>1. h[1] = 0
    BY <1>6 DEF Course
  <2>2. pass' # "measure" /\ (pass' = "done" => ~(str_m' > 0))
    BY <1>1, <1>3
  <2> QED BY <2>1, <2>2, <1>1, <1>6 DEF PassOk
<1> QED BY <1>1, <1>2, <1>3, <1>5, <1>7 DEF BufferInv

\* A retry begins with an empty buffer.
LEMMA RetryKeeps == ASSUME BufferInv, VformRetry \/ ThreadIdRetry PROVE BufferInv'
<1>1. /\ measured = -1 /\ measured' = -1 /\ str' = << >> /\ pos' = 1 /\ str_l' = 0
      /\ fmt' = fmt /\ limit' = limit
      /\ \/ str_m' = str_l + 1 /\ pass' = "print"
         \/ str_m' = 0 /\ pass' = "measure"
  BY DEF VformRetry, ThreadIdRetry
<1>2. /\ fmt \in Seq(Items) /\ Len(fmt) \in Nat /\ str_l \in Nat /\ limit \in Nat \cup {-1}
  BY DEF BufferInv
<1>3. str_m' \in Nat /\ 1 \in 1..(Len(fmt) + 1) /\ DOMAIN str' = {}
  BY <1>1, <1>2
<1>4. \E h : Course(h, fmt', pos' - 1) /\ h[pos'] = str_l'
  <2>1. Course(<<0>>, fmt, 0)
    BY DEF Course
  <2>2. <<0>>[1] = 0
    OBVIOUS
  <2>3. pos' - 1 = 0
    BY <1>1
  <2>4. Course(<<0>>, fmt', pos' - 1)
    BY <2>1, <2>3, <1>1
  <2> QED BY <2>2, <2>4, <1>1
<1>5. PassOk'
  BY <1>1, <1>4 DEF PassOk
<1> QED BY <1>1, <1>2, <1>3, <1>5 DEF BufferInv, Inside

LEMMA PrintStart == SnprintfInit => BufferInv
<1> SUFFICES ASSUME SnprintfInit PROVE BufferInv
  OBVIOUS
<1>1. /\ fmt \in Formats /\ pos = 1 /\ str_l = 0 /\ str = << >> /\ measured = -1
      /\ \/ pass = "print" /\ str_m \in BufferSizes /\ limit = -1
         \/ pass = "measure" /\ str_m = 0 /\ limit \in {-1} \cup BufferSizes
  BY DEF SnprintfInit
<1>a. fmt \in Seq(Items)
  BY <1>1, FormatsAssumption
<1>b. str_m \in Nat /\ limit \in Nat \cup {-1}
  <2>1. CASE str_m \in BufferSizes /\ limit = -1
    <3>1. str_m \in Nat
      BY <2>1, FormatsAssumption
    <3> QED BY <2>1, <3>1
  <2>2. CASE str_m = 0 /\ limit \in {-1} \cup BufferSizes
    <3>1. limit = -1 \/ limit \in Nat
      BY <2>2, FormatsAssumption
    <3> QED BY <2>2, <3>1
  <2> QED BY <1>1, <2>1, <2>2
<1>2. fmt \in Seq(Items) /\ Len(fmt) \in Nat /\ str_m \in Nat /\ limit \in Nat \cup {-1}
  BY <1>a, <1>b, LenProperties
<1>3. 1 \in 1..(Len(fmt) + 1) /\ DOMAIN str = {}
  BY <1>1, <1>2
<1>4. \E h : Course(h, fmt, pos - 1) /\ h[pos] = str_l
  <2>1. Course(<<0>>, fmt, 0) /\ <<0>>[1] = 0
    BY DEF Course
  <2>2. pos - 1 = 0
    BY <1>1
  <2> QED BY <2>1, <2>2, <1>1
<1>5. PassOk
  BY <1>1, <1>4 DEF PassOk
<1> QED BY <1>1, <1>2, <1>3, <1>5 DEF BufferInv, Inside

\* log4cpp's vsnprintf and the functions on top of it write nothing outside the
\* buffer, terminate what they return, and the second pass generates what the
\* first measured (InBuffer), for every format, buffer size and width of
\* size_t, though the lengths wrap around.
THEOREM PrintsInBuffer == SnprintfSpec => []InBuffer
<1>1. BufferInv => InBuffer
  BY DEF BufferInv, InBuffer, Inside, PassOk
<1>2. BufferInv /\ [SnprintfNext]_snprintfVars => BufferInv'
  <2> SUFFICES ASSUME BufferInv, [SnprintfNext]_snprintfVars PROVE BufferInv'
    OBVIOUS
  <2>1. CASE UNCHANGED snprintfVars
    BY <2>1 DEF snprintfVars, BufferInv, PassOk
  <2>2. CASE SnprintfNext
    BY <2>2, ItemKeeps, ReturnKeeps, AllocateKeeps, RetryKeeps DEF SnprintfNext
  <2> QED BY <2>1, <2>2
<1> QED BY <1>1, <1>2, PrintStart, PTL DEF SnprintfSpec
-----------------------------------------------------------------------------
(***************************************************************************)
(* The file appenders.                                                     *)
(***************************************************************************)

\* What an inode holds.
Inodes == [text : Seq(Nat), mtime : Nat]
Msgs(r) == {r.text[i] : i \in DOMAIN r.text}

\* The files under their names: what FilesInOrder speaks of.
ViewOf(dk, dt) == [n \in DOMAIN dk |-> dt[dk[n]]]
View == ViewOf(disk, data)
ViewOk(g) == DOMAIN g \subseteq Nat /\ \A n \in DOMAIN g : g[n] \in Inodes
InFiles(g, m) == \E n \in DOMAIN g : m \in Msgs(g[n])

\* Older, for a given kind.
Before(k, a, b) == IF k = "daily" THEN a # 0 /\ (b = 0 \/ a < b) ELSE a > b

\* Each file is in order, holds messages that were written, and was last
\* written at time t at the latest, after each of its messages was logged.
Whole(g, w, dy, t) ==
    \A n \in DOMAIN g :
        /\ g[n].mtime <= t
        /\ \A i \in DOMAIN g[n].text :
               /\ g[n].text[i] \in w /\ dy[g[n].text[i]] <= g[n].mtime
               /\ \A j \in DOMAIN g[n].text : i < j => g[n].text[i] < g[n].text[j]

\* An older file holds older messages, and was not written later.
Sorted(k, g) ==
    \A a, b \in DOMAIN g : Before(k, a, b) =>
        /\ g[a].mtime <= g[b].mtime
        /\ \A m \in Msgs(g[a]), q \in Msgs(g[b]) : m < q

\* Only the oldest messages are lost.
Upward(g, w) == \A m, q \in w : m < q /\ InFiles(g, m) => InFiles(g, q)

InSequence(k, g, w, dy, t) == Whole(g, w, dy, t) /\ Sorted(k, g) /\ Upward(g, w)

Fresh(t) == [text |-> << >>, mtime |-> t]

LEMMA FreshMsgs == ASSUME NEW t \in Nat PROVE Fresh(t) \in Inodes /\ Msgs(Fresh(t)) = {}
BY DEF Fresh, Inodes, Msgs

LEMMA MsgsAre ==
    ASSUME NEW g, ViewOk(g), NEW w, NEW dy, NEW t, Whole(g, w, dy, t), NEW n \in DOMAIN g
    PROVE  Msgs(g[n]) \subseteq w
BY DEF Whole, Msgs

\* A new empty file under the name 0.
LEMMA NewFile ==
    ASSUME NEW k, NEW g, ViewOk(g), NEW w, NEW dy, NEW t \in Nat, 0 \notin DOMAIN g,
           InSequence(k, g, w, dy, t)
    PROVE  /\ InSequence(k, With(g, 0, Fresh(t)), w, dy, t)
           /\ ViewOk(With(g, 0, Fresh(t)))
           /\ \A m : InFiles(With(g, 0, Fresh(t)), m) <=> InFiles(g, m)
<1> PICK r : r = Fresh(t)
  OBVIOUS
<1>1. r \in Inodes /\ Msgs(r) = {} /\ DOMAIN r.text = {} /\ r.mtime = t
  BY FreshMsgs DEF Fresh
<1> PICK h : h = With(g, 0, r)
  OBVIOUS
<1>2. /\ DOMAIN h = DOMAIN g \cup {0} /\ h[0] = r
      /\ \A n \in DOMAIN g : n # 0 /\ h[n] = g[n]
  BY DEF With
<1>3. ViewOk(h)
  BY <1>1, <1>2 DEF ViewOk
<1>4. \A m : InFiles(h, m) <=> InFiles(g, m)
  BY <1>1, <1>2 DEF InFiles
<1>5. Whole(h, w, dy, t)
  BY <1>1, <1>2 DEF InSequence, Whole
<1>6. Sorted(k, h)
  <2> SUFFICES ASSUME NEW a \in DOMAIN h, NEW b \in DOMAIN h, Before(k, a, b)
               PROVE  /\ h[a].mtime <= h[b].mtime
                      /\ \A m \in Msgs(h[a]), q \in Msgs(h[b]) : m < q
    BY DEF Sorted
  <2>1. a # 0
    BY <1>3 DEF Before, ViewOk
  <2>2. CASE b = 0
    BY <2>1, <2>2, <1>1, <1>2 DEF InSequence, Whole
  <2>3. CASE b # 0
    BY <2>1, <2>3, <1>2 DEF InSequence, Sorted
  <2> QED BY <2>2, <2>3
<1>7. Upward(h, w)
  BY <1>4 DEF InSequence, Upward
<1> QED BY <1>3, <1>4, <1>5, <1>6, <1>7 DEF InSequence

\* A write of m to the file in use, with the files g before and h after it:
\* a message that is later than all of w.
WrittenTo(g, h, m, t) ==
    /\ 0 \in DOMAIN g /\ DOMAIN h = DOMAIN g
    /\ h[0] = [text |-> Append(g[0].text, m), mtime |-> t]
    /\ \A n \in DOMAIN g : n # 0 => h[n] = g[n]

Later(w, dy, m, t) ==
    /\ m \in Nat /\ t \in Nat /\ dy[m] <= t
    /\ \A q \in w : q \in Nat /\ q < m /\ dy[q] \in Nat

LEMMA WriteFile ==
    ASSUME NEW k, NEW g, ViewOk(g), NEW w, NEW dy, NEW t, InSequence(k, g, w, dy, t),
           NEW m, Later(w, dy, m, t), NEW h, WrittenTo(g, h, m, t)
    PROVE  /\ InSequence(k, h, w \cup {m}, dy, t)
           /\ ViewOk(h)
           /\ \A q : InFiles(h, q) <=> InFiles(g, q) \/ q = m
<1>a. PICK r : r = [text |-> Append(g[0].text, m), mtime |-> t]
  OBVIOUS
<1>b. /\ 0 \in DOMAIN g /\ DOMAIN h = DOMAIN g /\ h[0] = r
      /\ \A n \in DOMAIN g : n # 0 => h[n] = g[n]
  BY <1>a DEF WrittenTo
<1>c. /\ w \subseteq Nat /\ m \in Nat /\ t \in Nat /\ dy[m] <= t
      /\ \A q \in w : dy[q] \in Nat
      /\ \A q \in w : q < m
  BY DEF Later
<1> USE <1>a, <1>b, <1>c
<1>1. g[0] \in Inodes /\ g[0].text \in Seq(Nat) /\ g[0].mtime \in Nat
  BY DEF ViewOk, Inodes
<1> PICK s : s = g[0].text
  OBVIOUS
<1>2. /\ r.text \in Seq(Nat) /\ Len(r.text) = Len(s) + 1 /\ Len(s) \in Nat
      /\ \A i \in 1..Len(s) : r.text[i] = s[i]
      /\ r.text[Len(s) + 1] = m /\ r.mtime = t
      /\ DOMAIN r.text = 1..(Len(s) + 1) /\ DOMAIN s = 1..Len(s)
  <2>1. r.text = Append(s, m) /\ r.mtime = t
    OBVIOUS
  <2> QED BY <2>1, <1>1, AppendProperties, LenProperties
<1>3. r \in Inodes
  BY <1>2 DEF Inodes
<1>4. ViewOk(h)
  BY <1>3 DEF ViewOk
<1>5. Msgs(r) = Msgs(g[0]) \cup {m}
  BY <1>2 DEF Msgs
<1>6. \A q : InFiles(h, q) <=> InFiles(g, q) \/ q = m
  BY <1>5 DEF InFiles
<1>7. Whole(h, w \cup {m}, dy, t)
  <2> SUFFICES ASSUME NEW n \in DOMAIN h
               PROVE  /\ h[n].mtime <= t
                      /\ \A i \in DOMAIN h[n].text :
                           /\ h[n].text[i] \in w \cup {m} /\ dy[h[n].text[i]] <= h[n].mtime
                           /\ \A j \in DOMAIN h[n].text : i < j => h[n].text[i] < h[n].text[j]
    BY DEF Whole
  <2>1. CASE n # 0
    BY <2>1 DEF InSequence, Whole
  <2>2. CASE n = 0
    <3>1. \A i \in 1..Len(s) : /\ s[i] \in w /\ dy[s[i]] <= g[0].mtime /\ s[i] < m
                               /\ \A j \in 1..Len(s) : i < j => s[i] < s[j]
      BY <1>2 DEF InSequence, Whole
    <3>2. g[0].mtime <= t /\ t <= t
      BY DEF InSequence, Whole
    <3>3. ASSUME NEW i \in DOMAIN r.text
          PROVE  /\ r.text[i] \in w \cup {m} /\ dy[r.text[i]] <= t
                 /\ \A j \in DOMAIN r.text : i < j => r.text[i] < r.text[j]
      <4>1. CASE i = Len(s) + 1
        BY <4>1, <1>2
      <4>2. CASE i \in 1..Len(s)
        <5>1. r.text[i] = s[i]
          BY <4>2, <1>2
        <5>2. s[i] \in w /\ dy[s[i]] <= g[0].mtime /\ s[i] < m
          BY <4>2, <3>1
        <5>3. \A j \in DOMAIN r.text : i < j => s[i] < r.text[j]
          BY <4>2, <3>1, <1>2, <5>2
        <5>4. dy[s[i]] <= t
          <6>1. g[0].mtime <= t /\ dy[s[i]] <= g[0].mtime /\ dy[s[i]] \in Nat
            BY <3>2, <5>2
          <6> QED BY <6>1, <1>1
        <5> QED BY <5>1, <5>2, <5>3, <5>4
      <4> QED BY <4>1, <4>2, <1>2
    <3> QED BY <2>2, <3>2, <3>3, <1>2
  <2> QED BY <2>1, <2>2
<1>8. Sorted(k, h)
  <2> SUFFICES ASSUME NEW a \in DOMAIN h, NEW b \in DOMAIN h, Before(k, a, b)
               PROVE  /\ h[a].mtime <= h[b].mtime
                      /\ \A p \in Msgs(h[a]), q \in Msgs(h[b]) : p < q
    BY DEF Sorted
  <2>1. a # 0
    BY <1>4 DEF Before, ViewOk
  <2>2. /\ g[a].mtime <= g[b].mtime /\ g[a].mtime <= t
        /\ \A p \in Msgs(g[a]), q \in Msgs(g[b]) : p < q
    BY DEF InSequence, Sorted, Whole
  <2>3. \A p \in Msgs(g[a]) : p < m
    BY MsgsAre DEF InSequence
  <2>4. CASE b = 0
    BY <2>1, <2>2, <2>3, <2>4, <1>2, <1>5
  <2>5. CASE b # 0
    BY <2>1, <2>2, <2>5
  <2> QED BY <2>4, <2>5
<1>9. Upward(h, w \cup {m})
  <2> SUFFICES ASSUME NEW p \in w \cup {m}, NEW q \in w \cup {m}, p < q, InFiles(h, p)
               PROVE  InFiles(h, q)
    BY DEF Upward
  <2>1. CASE q = m
    BY <2>1, <1>6
  <2>2. CASE q # m
    <3>1. q \in w /\ q < m
      BY <2>2
    <3>2. p # m
      BY <3>1
    <3>3. p \in w /\ InFiles(g, p)
      BY <3>2, <1>6
    <3> QED BY <3>1, <3>3, <1>6 DEF InSequence, Upward
  <2> QED BY <2>1, <2>2
<1> QED BY <1>4, <1>5, <1>6, <1>7, <1>8, <1>9 DEF InSequence

\* A rename that keeps the order: b is free and stands where a stood.
LEMMA RenameFile ==
    ASSUME NEW k, NEW g, ViewOk(g), NEW w, NEW dy, NEW t,
           InSequence(k, g, w, dy, t),
           NEW a \in DOMAIN g, NEW b \in Nat, b \notin DOMAIN g,
           \A c \in DOMAIN g \ {a} :
               /\ Before(k, c, b) => Before(k, c, a)
               /\ Before(k, b, c) => Before(k, a, c),
           ~Before(k, b, b)
    PROVE  /\ InSequence(k, With(Without(g, a), b, g[a]), w, dy, t)
           /\ ViewOk(With(Without(g, a), b, g[a]))
           /\ \A m : InFiles(With(Without(g, a), b, g[a]), m) <=> InFiles(g, m)
<1> PICK h : h = With(Without(g, a), b, g[a])
  OBVIOUS
<1>1. /\ DOMAIN h = (DOMAIN g \ {a}) \cup {b} /\ h[b] = g[a] /\ b # a
      /\ \A n \in DOMAIN g \ {a} : n # b /\ h[n] = g[n]
  BY DEF With, Without
<1>2. ViewOk(h)
  BY <1>1 DEF ViewOk
<1>3. \A m : InFiles(h, m) <=> InFiles(g, m)
  BY <1>1 DEF InFiles
<1>4. Whole(h, w, dy, t)
  <2> SUFFICES ASSUME NEW n \in DOMAIN h
               PROVE  \E c \in DOMAIN g : h[n] = g[c]
    BY DEF Whole, InSequence
  <2> QED BY <1>1
<1>5. Sorted(k, h)
  <2> SUFFICES ASSUME NEW c \in DOMAIN h, NEW d \in DOMAIN h, Before(k, c, d)
               PROVE  \E x, y \in DOMAIN g : Before(k, x, y) /\ h[c] = g[x] /\ h[d] = g[y]
    BY DEF Sorted, InSequence
  <2>1. CASE c = b
    <3>1. d # b /\ d \in DOMAIN g \ {a}
      BY <2>1, <1>1
    <3>2. Before(k, a, d)
      BY <2>1, <3>1
    <3>3. h[c] = g[a] /\ h[d] = g[d]
      BY <2>1, <3>1, <1>1
    <3> QED BY <3>1, <3>2, <3>3
  <2>2. CASE c # b /\ d = b
    <3>1. c \in DOMAIN g \ {a}
      BY <2>2, <1>1
    <3>2. Before(k, c, a)
      BY <2>2, <3>1
    <3>3. h[c] = g[c] /\ h[d] = g[a]
      BY <2>2, <3>1, <1>1
    <3> QED BY <3>1, <3>2, <3>3
  <2>3. CASE c # b /\ d # b
    BY <2>3, <1>1
  <2> QED BY <2>1, <2>2, <2>3
<1>6. Upward(h, w)
  BY <1>3 DEF InSequence, Upward
<1> QED BY <1>2, <1>3, <1>4, <1>5, <1>6 DEF InSequence

\* Some of the oldest files go.
LEMMA DropFiles ==
    ASSUME NEW k, NEW g, ViewOk(g), NEW w, w \subseteq Nat, NEW dy, NEW t,
           InSequence(k, g, w, dy, t),
           NEW h, DOMAIN h \subseteq DOMAIN g, \A n \in DOMAIN h : h[n] = g[n],
           \A a \in DOMAIN h, c \in DOMAIN g \ DOMAIN h : Before(k, c, a)
    PROVE  InSequence(k, h, w, dy, t) /\ ViewOk(h)
<1>1. ViewOk(h)
  BY DEF ViewOk
<1>2. Whole(h, w, dy, t)
  BY DEF Whole, InSequence
<1>3. Sorted(k, h)
  BY DEF Sorted, InSequence
<1>4. Upward(h, w)
  <2> SUFFICES ASSUME NEW m \in w, NEW q \in w, m < q, InFiles(h, m)
               PROVE  InFiles(h, q)
    BY DEF Upward
  <2>1. PICK a \in DOMAIN h : m \in Msgs(g[a])
    BY DEF InFiles
  <2>2. InFiles(g, q)
    BY <2>1 DEF InFiles, InSequence, Upward
  <2>3. PICK c \in DOMAIN g : q \in Msgs(g[c])
    BY <2>2 DEF InFiles
  <2>4. CASE c \in DOMAIN h
    BY <2>3, <2>4 DEF InFiles
  <2>5. CASE c \notin DOMAIN h
    <3>1. q < m
      <4>1. Before(k, c, a)
        BY <2>1, <2>3, <2>5
      <4> QED BY <4>1, <2>1, <2>3 DEF InSequence, Sorted
    <3>2. m \in Nat /\ q \in Nat
      OBVIOUS
    <3> QED BY <3>1, <3>2
  <2> QED BY <2>4, <2>5
<1> QED BY <1>1, <1>2, <1>3, <1>4 DEF InSequence

\* Another message is logged, or another day begins.
LEMMA TimePasses ==
    ASSUME NEW k, NEW g, ViewOk(g), NEW w, NEW dy, NEW t \in Nat, NEW u \in Nat, t <= u,
           NEW dz, \A q \in w : dz[q] = dy[q],
           InSequence(k, g, w, dy, t)
    PROVE  InSequence(k, g, w, dz, u)
<1>1. \A n \in DOMAIN g : g[n].mtime \in Nat
  BY DEF ViewOk, Inodes
<1>2. Whole(g, w, dz, u)
  BY <1>1 DEF Whole, InSequence
<1> QED BY <1>2 DEF InSequence
-----------------------------------------------------------------------------
\* The inodes, names and descriptors.
InodesOk(dt, t) == dt \in Seq(Inodes) /\ \A i \in 1..Len(dt) : dt[i].mtime \in 1..t
NamesOk(dk, n) ==
    /\ DOMAIN dk \subseteq Nat
    /\ \A a \in DOMAIN dk : dk[a] \in 1..n
    /\ \A a, b \in DOMAIN dk : dk[a] = dk[b] => a = b
FdsOk(fs, n) ==
    /\ DOMAIN fs \subseteq Nat \ {0} /\ IsFiniteSet(DOMAIN fs)
    /\ \A a \in DOMAIN fs : fs[a] \in 1..n

LEMMA InodeAppended ==
    ASSUME NEW t \in Nat \ {0}, NEW dt, InodesOk(dt, t)
    PROVE  /\ InodesOk(Append(dt, Fresh(t)), t) /\ Len(Append(dt, Fresh(t))) = Len(dt) + 1
           /\ Append(dt, Fresh(t))[Len(dt) + 1] = Fresh(t)
           /\ \A i \in 1..Len(dt) : Append(dt, Fresh(t))[i] = dt[i]
<1>1. Fresh(t) \in Inodes /\ Fresh(t).mtime = t
  BY DEF Fresh, Inodes
<1>2. dt \in Seq(Inodes) /\ Len(dt) \in Nat
  BY LenProperties DEF InodesOk
<1> PICK e : e = Fresh(t)
  OBVIOUS
<1>3. /\ Append(dt, e) \in Seq(Inodes) /\ Len(Append(dt, e)) = Len(dt) + 1
      /\ \A i \in 1..Len(dt) : Append(dt, e)[i] = dt[i]
      /\ Append(dt, e)[Len(dt) + 1] = e
  BY <1>1, <1>2, AppendProperties
<1>4. \A i \in 1..(Len(dt) + 1) : Append(dt, e)[i].mtime \in 1..t
  BY <1>1, <1>2, <1>3 DEF InodesOk
<1> QED BY <1>3, <1>4 DEF InodesOk

LEMMA InodeReplaced ==
    ASSUME NEW t \in Nat \ {0}, NEW dt, InodesOk(dt, t), NEW j \in 1..Len(dt),
           NEW r \in Inodes, r.mtime \in 1..t
    PROVE  /\ InodesOk([dt EXCEPT ![j] = r], t) /\ Len([dt EXCEPT ![j] = r]) = Len(dt)
           /\ \A i \in 1..Len(dt) : [dt EXCEPT ![j] = r][i] = IF i = j THEN r ELSE dt[i]
<1>1. /\ [dt EXCEPT ![j] = r] \in Seq(Inodes) /\ Len([dt EXCEPT ![j] = r]) = Len(dt)
      /\ \A i \in 1..Len(dt) : [dt EXCEPT ![j] = r][i] = IF i = j THEN r ELSE dt[i]
  BY ExceptSeq DEF InodesOk
<1> QED BY <1>1 DEF InodesOk

LEMMA InodesLater ==
    ASSUME NEW t \in Nat, NEW dt, InodesOk(dt, t)
    PROVE  InodesOk(dt, t + 1)
BY DEF InodesOk

\* A name that is new, or renamed; and less names.
LEMMA NamesWith ==
    ASSUME NEW n \in Nat, NEW dk, NamesOk(dk, n), 0 \notin DOMAIN dk
    PROVE  NamesOk(With(dk, 0, n + 1), n + 1)
BY DEF NamesOk, With

LEMMA NamesSame ==
    ASSUME NEW n \in Nat, NEW dk, NamesOk(dk, n), 0 \in DOMAIN dk
    PROVE  NamesOk(With(dk, 0, dk[0]), n)
BY DEF NamesOk, With

LEMMA NamesRenamed ==
    ASSUME NEW n \in Nat, NEW dk, NamesOk(dk, n), NEW a \in DOMAIN dk, NEW b \in Nat
    PROVE  NamesOk(With(Without(dk, a), b, dk[a]), n)
BY DEF NamesOk, With, Without

LEMMA NamesLess ==
    ASSUME NEW n \in Nat, NEW dk, NamesOk(dk, n), NEW dl, DOMAIN dl \subseteq DOMAIN dk,
           \A a \in DOMAIN dl : dl[a] = dk[a]
    PROVE  NamesOk(dl, n)
BY DEF NamesOk

LEMMA FdsWith ==
    ASSUME NEW n \in Nat, NEW fs, FdsOk(fs, n), NEW m \in Nat, n <= m,
           NEW f \in Nat \ {0}, NEW i \in 1..m
    PROVE  FdsOk(With(fs, f, i), m)
<1>1. IsFiniteSet(DOMAIN fs \cup {f})
  BY FS_AddElement DEF FdsOk
<1> QED BY <1>1 DEF FdsOk, With

LEMMA FdsWithout ==
    ASSUME NEW n \in Nat, NEW fs, FdsOk(fs, n), NEW f
    PROVE  FdsOk(Without(fs, f), n)
<1>1. IsFiniteSet(DOMAIN fs \ {f})
  BY FS_RemoveElement DEF FdsOk
<1> QED BY <1>1 DEF FdsOk, Without

LEMMA FdsOne ==
    ASSUME NEW n \in Nat, NEW i \in 1..n
    PROVE  FdsOk([a \in {1} |-> i], n)
<1>1. IsFiniteSet({1})
  BY FS_Singleton
<1> QED BY <1>1 DEF FdsOk

\* open finds a descriptor that is not in use.
LEMMA FreeIsFree ==
    ASSUME NEW n, FdsOk(fds, n)
    PROVE  Free \in Nat \ {0} /\ Free \notin DOMAIN fds
<1> DEFINE c == Cardinality(DOMAIN fds)
           T == {i \in 1..(c + 1) : i \notin DOMAIN fds}
<1>1. IsFiniteSet(DOMAIN fds) /\ c \in Nat
  BY FS_CardinalityType DEF FdsOk
<1>2. T # {}
  <2> SUFFICES ASSUME 1..(c + 1) \subseteq DOMAIN fds PROVE FALSE
    OBVIOUS
  <2>1. Cardinality(1..(c + 1)) = c + 1
    BY <1>1, FS_Interval
  <2>2. Cardinality(1..(c + 1)) <= c
    BY <1>1, FS_Subset
  <2> QED BY <1>1, <2>1, <2>2
<1>3. T \subseteq Nat
  OBVIOUS
<1>4. PICK x \in T : \A y \in T : ~(<<y, x>> \in OpToRel(<, Nat))
  <2> HIDE DEF T
  <2> QED BY <1>2, <1>3, NatLessThanWellFounded, WFMin
<1>5. \A y \in T : ~(y < x)
  BY <1>3, <1>4 DEF OpToRel
<1>6. \A k \in 1..(x - 1) : k \in DOMAIN fds
  BY <1>1, <1>5
<1>7. \E i \in 1..(c + 1) : i \notin DOMAIN fds /\ \A k \in 1..(i - 1) : k \in DOMAIN fds
  BY <1>6
<1>8. Free \in 1..(c + 1) /\ Free \notin DOMAIN fds
  BY <1>7 DEF Free
<1> QED BY <1>1, <1>8
-----------------------------------------------------------------------------
\* What open, rename and write do to the files under their names.

LEMMA ViewTyped ==
    ASSUME NEW t, NEW dt, InodesOk(dt, t), NEW dk, NamesOk(dk, Len(dt))
    PROVE  ViewOk(ViewOf(dk, dt)) /\ DOMAIN ViewOf(dk, dt) = DOMAIN dk
<1>1. \A i \in 1..Len(dt) : dt[i] \in Inodes
  BY ElementOfSeq DEF InodesOk
<1> QED BY <1>1 DEF ViewOk, ViewOf, NamesOk

LEMMA ViewNew ==
    ASSUME NEW t \in Nat \ {0}, NEW dt, InodesOk(dt, t), NEW dk, NamesOk(dk, Len(dt)),
           0 \notin DOMAIN dk
    PROVE  ViewOf(With(dk, 0, Len(dt) + 1), Append(dt, Fresh(t)))
               = With(ViewOf(dk, dt), 0, Fresh(t))
<1> PICK du, e : du = Append(dt, e) /\ e = Fresh(t)
  OBVIOUS
<1>1. /\ du[Len(dt) + 1] = e
      /\ \A i \in 1..Len(dt) : du[i] = dt[i]
  BY InodeAppended
<1> QED BY <1>1 DEF ViewOf, With, NamesOk

LEMMA ViewSame ==
    ASSUME NEW dt, NEW dk, 0 \in DOMAIN dk
    PROVE  ViewOf(With(dk, 0, dk[0]), dt) = ViewOf(dk, dt)
BY DEF ViewOf, With

LEMMA ViewRenamed ==
    ASSUME NEW dt, NEW dk, NEW a \in DOMAIN dk, NEW b
    PROVE  ViewOf(With(Without(dk, a), b, dk[a]), dt)
               = With(Without(ViewOf(dk, dt), a), b, ViewOf(dk, dt)[a])
BY DEF ViewOf, With, Without

LEMMA ViewWritten ==
    ASSUME NEW t \in Nat \ {0}, NEW dt, InodesOk(dt, t), NEW dk, NamesOk(dk, Len(dt)),
           0 \in DOMAIN dk, NEW r \in Inodes, r.mtime \in 1..t
    PROVE  LET h == ViewOf(dk, [dt EXCEPT ![dk[0]] = r])
           IN  /\ DOMAIN h = DOMAIN dk /\ h[0] = r
               /\ \A n \in DOMAIN dk : n # 0 => h[n] = ViewOf(dk, dt)[n]
<1> PICK du, j : du = [dt EXCEPT ![j] = r] /\ j = dk[0]
  OBVIOUS
<1>1. j \in 1..Len(dt)
  BY DEF NamesOk
<1>2. \A i \in 1..Len(dt) : du[i] = IF i = j THEN r ELSE dt[i]
  BY <1>1, InodeReplaced
<1> QED BY <1>1, <1>2 DEF ViewOf, NamesOk
-----------------------------------------------------------------------------
\* The inductive invariant.
Steps ==
    [at : {"idle", "close", "remove", "rename", "date", "open", "expire", "write"},
     now : Nat, to : Nat]

FilesTyped ==
    /\ kind \in {"plain", "rolling", "daily"}
    /\ time \in 1..MaxTime /\ logsDay \in 1..Today
    /\ InodesOk(data, time) /\ NamesOk(disk, Len(data)) /\ FdsOk(fds, Len(data))
    /\ fd \in Nat /\ reo \in {0} \cup DOMAIN fds
    /\ conf \in ConfType(0)
    /\ step \in Steps
    /\ sent \in Nat /\ written \subseteq 1..sent
    /\ timeOf \in Seq(1..MaxTime) /\ Len(timeOf) = sent
    /\ gap \in BOOLEAN /\ hand \in BOOLEAN /\ ctl \in Nat

\* But in the middle of a roll-over _fd is open or -1, and not the descriptor
\* of a reopen in progress.
Descriptors ==
    step.at \in {"idle", "close", "expire", "write"} =>
        fd \in {0} \cup DOMAIN fds /\ (reo # 0 => reo # fd)

\* The message that a daily appender has still to write is of day d.
ToBeDated(d) ==
    sent > 0 /\ sent \notin written /\ timeOf[sent] <= time /\ LocalDay[timeOf[sent]] = d

\* The steps of the kinds, and what a daily roll-over is for.
RollSteps ==
    /\ kind = "plain" => step.at = "idle"
    /\ kind = "rolling" => step.at \notin {"date", "expire", "write"}
    /\ kind = "daily" => step.at \notin {"remove", "rename"}
    /\ step.at \in {"remove", "rename"} => step.to > 0
    /\ step.at = "write" => ToBeDated(logsDay)
    /\ kind = "daily" /\ step.at \in {"close", "date", "open", "expire"} =>
           \/ step.now = 0 /\ hand
           \/ logsDay < step.now /\ step.now <= Today /\ ToBeDated(step.now)

\* _fd is the file in use.
InUse ==
    step.at \in {"idle", "expire", "write"} /\ fd \in DOMAIN fds =>
        0 \in DOMAIN disk /\ fds[fd] = disk[0]

\* A plain file loses nothing.
PlainFile(k, g, w) == k = "plain" => DOMAIN g = {0} /\ \A m \in w : InFiles(g, m)

\* With b for _maxBackupIndex: no backup is above it, nor overwritten.
Rolled(k, g, b, s) ==
    k = "rolling" =>
        /\ \A n \in DOMAIN g : n <= b
        /\ s.at = "remove" => s.to > 0 /\ s.to <= b /\ \A n \in DOMAIN g : n <= s.to
        /\ s.at = "rename" => s.to > 0 /\ s.to <= b /\ s.to \notin DOMAIN g

\* The messages of r are of day d, or of earlier ones if the program was not
\* left alone.
DatedBy(r, d, dy, alone) ==
    \A i \in DOMAIN r.text :
        LocalDay[dy[r.text[i]]] <= d /\ (alone => LocalDay[dy[r.text[i]]] = d)

\* With l for _logsTime: backups have its day or earlier ones, and so will
\* the file in use when it becomes one.
Dated(k, g, l, dy, s, alone) ==
    k = "daily" =>
        /\ \A d \in DOMAIN g \ {0} : d <= l /\ DatedBy(g[d], d, dy, alone)
        /\ s.at \in {"idle", "close", "date", "write"} /\ 0 \in DOMAIN g =>
               LocalDay[g[0].mtime] >= l /\ DatedBy(g[0], l, dy, alone)
        /\ s.at \in {"open", "expire"} /\ 0 \in DOMAIN g =>
               /\ LocalDay[g[0].mtime] >= s.now /\ LocalDay[g[0].mtime] >= l
               /\ g[0].text = << >>

\* There is no backup of that day yet, unless somebody rolled over.
Undated(k, g, l, s, h) ==
    k = "daily" /\ s.at \in {"idle", "close", "date", "write"} /\ ~h => l \notin DOMAIN g

\* Without calls from elsewhere: what a rolling file of size c.size and
\* c.backups backups has lost after n messages, and where the others are.
Moved(g, b, c, s) ==
    CASE s.at = "idle" -> IF 0 \in DOMAIN g THEN Len(g[0].text) ELSE 0
      [] s.at \in {"close", "remove"} \/ (s.at = "rename" /\ b < s.to) -> c.size
      [] OTHER -> 0

RoomFor(b, c) == b * c.size

RolledDue(g, c, s, n, w) ==
    /\ w = 1..n
    /\ \A b \in DOMAIN g \ {0} : \A q \in Msgs(g[b]) :
           q + RoomFor(b - 1, c) + Moved(g, b, c, s) <= n
    /\ \A m \in w : ~InFiles(g, m) => m + RoomFor(c.backups, c) <= n
    /\ s.at = "remove" => s.to = c.backups
    /\ s.at = "open" => 0 \notin DOMAIN g

KeptDue(g, c, w) ==
    \A m \in w : Cardinality({q \in w : q > m}) < c.backups * c.size => InFiles(g, m)

RollingKept(k, g, c, s, n, w, open) ==
    k = "rolling" => IF s.at # "idle" \/ open THEN RolledDue(g, c, s, n, w) ELSE KeptDue(g, c, w)

DailyKept(k, g, c, w, dy, t) ==
    k = "daily" => \A m \in w : ~InFiles(g, m) => dy[m] < t - c.days * DayLength

Logged ==
    /\ InSequence(kind, View, written, timeOf, time)
    /\ InUse
    /\ PlainFile(kind, View, written)
    /\ Rolled(kind, View, conf.backups, step)
    /\ Dated(kind, View, logsDay, timeOf, step, ctl = 0)
    /\ Undated(kind, View, logsDay, step, hand)

Alone ==
    /\ reo = 0 /\ conf \in Confs
    /\ RollingKept(kind, View, conf, step, sent, written, fd \in DOMAIN fds)
    /\ DailyKept(kind, View, conf, written, timeOf, time)

FilesInv ==
    /\ FilesTyped /\ Descriptors /\ RollSteps
    /\ ~gap => Logged
    /\ ~gap /\ ctl = 0 => Alone
-----------------------------------------------------------------------------
\* The days that the times belong to.
LEMMA DaysOfTimes ==
    /\ \A t \in 1..MaxTime : LocalDay[t] \in Nat \ {0}
    /\ \A t, u \in 1..MaxTime : t <= u => LocalDay[t] <= LocalDay[u]
    /\ MaxTime \in Nat
BY FileAppendersAssumption

LEMMA TimeNow ==
    ASSUME FilesInv
    PROVE  /\ time \in 1..MaxTime /\ time \in Nat \ {0}
           /\ Today \in Nat \ {0} /\ logsDay \in 1..Today /\ logsDay \in Nat \ {0}
           /\ LocalDay[time] = Today
<1>1. time \in 1..MaxTime /\ logsDay \in 1..Today
  BY DEF FilesInv, FilesTyped
<1>2. LocalDay[time] \in Nat \ {0}
  BY <1>1, DaysOfTimes
<1> QED BY <1>1, <1>2 DEF Today

\* Dated after a call from elsewhere.
LEMMA DatedStill ==
    ASSUME NEW k, NEW g, NEW l, NEW dy, NEW s, NEW x, NEW y, y => x, Dated(k, g, l, dy, s, x)
    PROVE  Dated(k, g, l, dy, s, y)
<1>1. ASSUME NEW r, NEW d, DatedBy(r, d, dy, x) PROVE DatedBy(r, d, dy, y)
  BY <1>1 DEF DatedBy
<1> QED BY <1>1 DEF Dated

\* The calls that touch neither a file nor the appending thread.
LEMMA CallKeeps ==
    ASSUME FilesInv,
           UNCHANGED <<kind, disk, data, logsDay, time, step, sent, written, timeOf, hand>>,
           FdsOk(fds', Len(data)), fd' \in Nat, reo' \in {0} \cup DOMAIN fds', Descriptors',
           conf' \in ConfType(0), gap' \in BOOLEAN, gap => gap', ctl' \in Nat,
           ~gap' => ctl' # 0 /\ InUse' /\ (kind = "rolling" => conf.backups <= conf'.backups)
    PROVE  FilesInv'
<1>1. FilesTyped'
  BY DEF FilesInv, FilesTyped, Today
<1>2. RollSteps'
  BY DEF FilesInv, RollSteps, ToBeDated, Today
<1>3. View' = View
  BY DEF View
<1>4. ASSUME ~gap' PROVE Logged'
  <2>1. Logged /\ InUse'
    BY <1>4 DEF FilesInv
  <2>2. InSequence(kind, View, written, timeOf, time)' /\ PlainFile(kind, View, written)'
    BY <2>1, <1>3 DEF Logged
  <2>3. Rolled(kind, View, conf.backups, step)'
    <3> SUFFICES ASSUME kind = "rolling" PROVE Rolled(kind, View, conf'.backups, step)
      BY <1>3 DEF Rolled
    <3>1. conf.backups <= conf'.backups /\ conf.backups \in Nat /\ conf'.backups \in Nat
      BY <1>4 DEF FilesInv, FilesTyped, ConfType
    <3>2. step.to \in Nat /\ DOMAIN View \subseteq Nat
      BY ViewTyped DEF FilesInv, FilesTyped, Steps, View, ViewOk
    <3> QED BY <3>1, <3>2, <2>1 DEF Logged, Rolled
  <2>4. Dated(kind, View, logsDay, timeOf, step, ctl = 0)'
    <3>1. Dated(kind, View, logsDay, timeOf, step, ctl' = 0)
      <4>1. (ctl' = 0) => (ctl = 0)
        BY <1>4
      <4> QED BY <4>1, <2>1, DatedStill DEF Logged
    <3> QED BY <3>1, <1>3
  <2>5. Undated(kind, View, logsDay, step, hand)'
    BY <2>1, <1>3 DEF Logged, Undated
  <2> QED BY <2>1, <2>2, <2>3, <2>4, <2>5 DEF Logged
<1>5. ~gap' => ctl' # 0
  OBVIOUS
<1> QED BY <1>1, <1>2, <1>4, <1>5 DEF FilesInv

LEMMA CtlCounts == ASSUME FilesInv, Ctl PROVE ctl' \in Nat /\ ctl' # 0
BY DEF FilesInv, FilesTyped, Ctl

LEMMA SetAppendKeeps ==
    ASSUME FilesInv, NEW b \in BOOLEAN, SetAppend(b)
    PROVE  FilesInv'
<1>1. conf' \in ConfType(0) /\ conf'.backups = conf.backups /\ conf.backups \in Nat
  BY DEF FilesInv, FilesTyped, SetAppend, ConfType
<1>2. Descriptors' /\ (Logged => InUse')
  BY DEF FilesInv, Descriptors, SetAppend, InUse, Logged
<1> QED BY <1>1, <1>2, CtlCounts, CallKeeps DEF SetAppend, FilesInv, FilesTyped

LEMMA SetMaxBackupIndexKeeps ==
    ASSUME FilesInv, NEW n \in Settings, SetMaxBackupIndex(n)
    PROVE  FilesInv'
<1>0. n \in Nat /\ conf.backups \in Nat
  BY FileAppendersAssumption DEF FilesInv, FilesTyped, ConfType
<1>1. conf' \in ConfType(0) /\ conf'.backups = n
  <2>1. conf \in ConfType(0) /\ conf' = [conf EXCEPT !.backups = n]
    BY DEF FilesInv, FilesTyped, SetMaxBackupIndex
  <2> QED BY <2>1, <1>0 DEF ConfType
<1>2. Descriptors' /\ (Logged => InUse')
  BY DEF FilesInv, Descriptors, SetMaxBackupIndex, InUse, Logged
<1>3. gap' \in BOOLEAN /\ (gap => gap')
  BY DEF SetMaxBackupIndex, FilesInv, FilesTyped
<1>4. ~gap' => ~gap /\ (kind = "rolling" => conf.backups <= n)
  <2>1. gap' = (gap \/ LeavesBehind(n))
    BY DEF SetMaxBackupIndex
  <2>2. ~gap' => ~gap /\ ~LeavesBehind(n)
    BY <2>1
  <2>3. ~LeavesBehind(n) => (kind = "rolling" => ~(n < conf.backups))
    BY Zenon DEF LeavesBehind
  <2> QED BY <2>2, <2>3, <1>0
<1> QED BY <1>1, <1>2, <1>3, <1>4, CtlCounts, CallKeeps DEF SetMaxBackupIndex, FilesInv, FilesTyped

LEMMA SetMaximumFileSizeKeeps ==
    ASSUME FilesInv, NEW n \in Settings, SetMaximumFileSize(n)
    PROVE  FilesInv'
<1>0. n \in Nat
  BY FileAppendersAssumption
<1>1. conf' \in ConfType(0) /\ conf'.backups = conf.backups /\ conf.backups \in Nat
  BY <1>0 DEF FilesInv, FilesTyped, SetMaximumFileSize, ConfType
<1>2. Descriptors' /\ (Logged => InUse')
  BY DEF FilesInv, Descriptors, SetMaximumFileSize, InUse, Logged
<1> QED BY <1>1, <1>2, CtlCounts, CallKeeps DEF SetMaximumFileSize, FilesInv, FilesTyped

LEMMA SetMaxDaysToKeepKeeps ==
    ASSUME FilesInv, NEW n \in Settings, SetMaxDaysToKeep(n)
    PROVE  FilesInv'
<1>0. n \in Nat
  BY FileAppendersAssumption
<1>1. conf' \in ConfType(0) /\ conf'.backups = conf.backups /\ conf.backups \in Nat
  BY <1>0 DEF FilesInv, FilesTyped, SetMaxDaysToKeep, ConfType
<1>2. Descriptors' /\ (Logged => InUse')
  BY DEF FilesInv, Descriptors, SetMaxDaysToKeep, InUse, Logged
<1> QED BY <1>1, <1>2, CtlCounts, CallKeeps DEF SetMaxDaysToKeep, FilesInv, FilesTyped

LEMMA CloseKeeps ==
    ASSUME FilesInv, Close
    PROVE  FilesInv'
<1>1. FdsOk(fds', Len(data)) /\ fd' = 0 /\ reo' = 0
  <2>1. Len(data) \in Nat
    BY LenProperties DEF FilesInv, FilesTyped, InodesOk
  <2> QED BY <2>1, FdsWithout DEF Close, FilesInv, FilesTyped
<1>2. fd' \notin DOMAIN fds'
  BY <1>1 DEF FdsOk
<1>3. Descriptors' /\ InUse'
  BY <1>1, <1>2 DEF Descriptors, InUse
<1>4. conf' \in ConfType(0) /\ conf'.backups = conf.backups /\ conf.backups \in Nat
  BY DEF FilesInv, FilesTyped, Close, ConfType
<1> QED BY <1>1, <1>3, <1>4, CtlCounts, CallKeeps DEF Close, FilesInv, FilesTyped

LEMMA ReopenEndKeeps ==
    ASSUME FilesInv, ReopenEnd
    PROVE  FilesInv'
<1>1. FdsOk(fds', Len(data)) /\ fd' = reo /\ reo' = 0 /\ reo \in DOMAIN fds /\ fd' \in Nat
  <2>1. Len(data) \in Nat
    BY LenProperties DEF FilesInv, FilesTyped, InodesOk
  <2>2. reo \in DOMAIN fds /\ reo \in Nat
    BY DEF FilesInv, FilesTyped, ReopenEnd, FdsOk
  <2> QED BY <2>1, <2>2, FdsWithout DEF ReopenEnd, FilesInv, FilesTyped
<1>2. DOMAIN fds' = DOMAIN fds \ {fd} /\ \A f \in DOMAIN fds' : fds'[f] = fds[f]
  BY DEF ReopenEnd, Without
<1>3. Descriptors'
  BY <1>1, <1>2 DEF Descriptors, ReopenEnd, FilesInv
<1>4. gap' \in BOOLEAN /\ (gap => gap')
  BY DEF ReopenEnd, FilesInv, FilesTyped
<1>5. ~gap' => InUse' /\ ctl' # 0
  <2> SUFFICES ASSUME ~gap' PROVE InUse' /\ ctl' # 0
    OBVIOUS
  <2>1. ~gap /\ 0 \in DOMAIN disk /\ fds[reo] = disk[0]
    BY DEF ReopenEnd
  <2>2. ctl # 0
    BY <2>1 DEF FilesInv, Alone, ReopenEnd
  <2>3. fd' \in DOMAIN fds' => fds'[fd'] = disk'[0] /\ 0 \in DOMAIN disk'
    BY <2>1, <1>1, <1>2 DEF ReopenEnd
  <2> QED BY <2>2, <2>3 DEF InUse, ReopenEnd
<1>6. conf' \in ConfType(0) /\ conf'.backups = conf.backups /\ conf.backups \in Nat /\ ctl' \in Nat
  BY DEF FilesInv, FilesTyped, ReopenEnd, ConfType
<1>7. UNCHANGED <<kind, disk, data, logsDay, time, step, sent, written, timeOf, hand>>
  BY DEF ReopenEnd
<1> QED BY <1>1, <1>3, <1>4, <1>5, <1>6, <1>7, CallKeeps
-----------------------------------------------------------------------------
\* open, with the files g before and h after it.
Opened(g, h, t) ==
    IF 0 \in DOMAIN g THEN h = g ELSE h = With(g, 0, Fresh(t))

LEMMA OpenedFacts ==
    ASSUME NEW g, ViewOk(g), NEW h, NEW t \in Nat, Opened(g, h, t)
    PROVE  /\ ViewOk(h) /\ DOMAIN h = DOMAIN g \cup {0}
           /\ \A n \in DOMAIN g : h[n] = g[n]
           /\ 0 \notin DOMAIN g => h[0].mtime = t /\ h[0].text = << >>
           /\ \A m : InFiles(h, m) <=> InFiles(g, m)
<1>1. CASE 0 \in DOMAIN g
  BY <1>1 DEF Opened, ViewOk
<1>2. CASE 0 \notin DOMAIN g
  <2> PICK r : r = Fresh(t)
    OBVIOUS
  <2>1. r \in Inodes /\ Msgs(r) = {} /\ r.mtime = t /\ r.text = << >>
    BY FreshMsgs DEF Fresh
  <2>2. DOMAIN h = DOMAIN g \cup {0} /\ h[0] = r /\ \A n \in DOMAIN g : h[n] = g[n]
    BY <1>2 DEF Opened, With
  <2>3. ViewOk(h)
    BY <2>1, <2>2 DEF ViewOk
  <2>4. \A m : InFiles(h, m) <=> InFiles(g, m)
    BY <2>1, <2>2 DEF InFiles
  <2> QED BY <2>1, <2>2, <2>3, <2>4, <1>2
<1> QED BY <1>1, <1>2

LEMMA OpenedInSequence ==
    ASSUME NEW k, NEW g, ViewOk(g), NEW h, NEW t \in Nat, NEW w, NEW dy,
           Opened(g, h, t), InSequence(k, g, w, dy, t)
    PROVE  InSequence(k, h, w, dy, t)
BY NewFile DEF Opened

LEMMA OpenedPlain ==
    ASSUME NEW k, NEW g, ViewOk(g), NEW h, NEW t \in Nat, NEW w, Opened(g, h, t),
           PlainFile(k, g, w)
    PROVE  PlainFile(k, h, w)
BY DEF Opened, PlainFile

LEMMA OpenedRolled ==
    ASSUME NEW k, NEW g, ViewOk(g), NEW h, NEW t \in Nat, Opened(g, h, t),
           NEW b \in Nat, NEW s \in Steps, Rolled(k, g, b, s)
    PROVE  Rolled(k, h, b, s)
<1>1. DOMAIN h = DOMAIN g \cup {0} /\ s.to \in Nat /\ DOMAIN g \subseteq Nat
  BY OpenedFacts DEF Steps, ViewOk
<1> QED BY <1>1 DEF Rolled

LEMMA OpenedDated ==
    ASSUME NEW k, NEW g, ViewOk(g), NEW h, NEW t \in Nat, Opened(g, h, t),
           NEW l \in Nat, l <= LocalDay[t], NEW dy, NEW s \in Steps, NEW x,
           k = "daily" /\ s.at \in {"open", "expire"} => s.now <= LocalDay[t],
           Dated(k, g, l, dy, s, x), LocalDay[t] \in Nat
    PROVE  Dated(k, h, l, dy, s, x)
<1> SUFFICES ASSUME k = "daily" PROVE Dated(k, h, l, dy, s, x)
  BY DEF Dated
<1>1. /\ DOMAIN h = DOMAIN g \cup {0} /\ DOMAIN g \subseteq Nat
      /\ \A n \in DOMAIN g : h[n] = g[n]
      /\ 0 \notin DOMAIN g => h[0].mtime = t /\ h[0].text = << >>
  BY OpenedFacts DEF ViewOk
<1>2. \A d \in DOMAIN h \ {0} : d <= l /\ DatedBy(h[d], d, dy, x)
  BY <1>1 DEF Dated
<1>3. ASSUME s.at \in {"idle", "close", "date", "write"}
      PROVE  LocalDay[h[0].mtime] >= l /\ DatedBy(h[0], l, dy, x)
  <2>2. CASE 0 \in DOMAIN g
    BY <2>2, <1>1, <1>3 DEF Dated
  <2>3. CASE 0 \notin DOMAIN g
    <3>1. LocalDay[h[0].mtime] >= l /\ DOMAIN h[0].text = {}
      BY <2>3, <1>1
    <3> QED BY <3>1 DEF DatedBy
  <2> QED BY <2>2, <2>3
<1>4. ASSUME s.at \in {"open", "expire"}
      PROVE  /\ LocalDay[h[0].mtime] >= s.now /\ LocalDay[h[0].mtime] >= l
             /\ h[0].text = << >>
  <2>1. s.now \in Nat /\ s.now <= LocalDay[t]
    BY <1>4 DEF Steps
  <2> QED BY <2>1, <1>1, <1>4 DEF Dated
<1> QED BY <1>2, <1>3, <1>4 DEF Dated

LEMMA OpenedUndated ==
    ASSUME NEW k, NEW g, ViewOk(g), NEW h, NEW t \in Nat, Opened(g, h, t),
           NEW l \in Nat \ {0}, NEW s, NEW y, Undated(k, g, l, s, y)
    PROVE  Undated(k, h, l, s, y)
<1>1. DOMAIN h = DOMAIN g \cup {0}
  BY OpenedFacts
<1> QED BY <1>1 DEF Undated

\* The program starts again on the file 0 of h: its day is the day it was
\* last written.
LEMMA RestartedDated ==
    ASSUME NEW k, NEW h, ViewOk(h), 0 \in DOMAIN h,
           NEW l \in Nat \ {0}, NEW dy, NEW s \in Steps, NEW x,
           k = "daily" => s.at \notin {"remove", "rename"},
           \A n \in DOMAIN h : \A i \in DOMAIN h[n].text : LocalDay[dy[h[n].text[i]]] \in Nat,
           LocalDay[h[0].mtime] \in Nat,
           Dated(k, h, l, dy, s, x)
    PROVE  Dated(k, h, LocalDay[h[0].mtime], dy, Idle, FALSE)
<1> SUFFICES ASSUME k = "daily" PROVE Dated(k, h, LocalDay[h[0].mtime], dy, Idle, FALSE)
  BY DEF Dated
<1> PICK u : u = LocalDay[h[0].mtime]
  OBVIOUS
<1>0. DOMAIN h \subseteq Nat /\ s.now \in Nat
  BY DEF ViewOk, Steps
<1>1. \A d \in DOMAIN h \ {0} : d <= l
  BY DEF Dated
<1>2. \A d \in DOMAIN h \ {0} : DatedBy(h[d], d, dy, FALSE)
  BY DEF Dated, DatedBy
<1>3. u >= l
  BY DEF Dated, Steps
<1>4. \A d \in DOMAIN h \ {0} : d <= u
  BY <1>0, <1>1, <1>3
<1>5. DatedBy(h[0], u, dy, FALSE)
  <2>1. CASE s.at \in {"idle", "close", "date", "write"}
    <3>1. DatedBy(h[0], l, dy, x)
      BY <2>1 DEF Dated
    <3>2. ASSUME NEW i \in DOMAIN h[0].text PROVE LocalDay[dy[h[0].text[i]]] <= u
      <4>1. LocalDay[dy[h[0].text[i]]] <= l /\ LocalDay[dy[h[0].text[i]]] \in Nat
        BY <3>1 DEF DatedBy
      <4> QED BY <4>1, <1>3
    <3> QED BY <3>2 DEF DatedBy
  <2>2. CASE s.at \in {"open", "expire"}
    <3>1. DOMAIN h[0].text = {}
      BY <2>2 DEF Dated
    <3> QED BY <3>1 DEF DatedBy
  <2> QED BY <2>1, <2>2 DEF Steps
<1>6. LocalDay[h[0].mtime] >= u
  OBVIOUS
<1>7. ~(Idle.at \in {"open", "expire"})
  BY DEF Idle
<1> QED BY <1>2, <1>4, <1>5, <1>6, <1>7 DEF Dated

LEMMA RestartedUndated ==
    ASSUME NEW k, NEW h, ViewOk(h), 0 \in DOMAIN h,
           NEW l \in Nat \ {0}, NEW dy, NEW s \in Steps, NEW x,
           k = "daily" => s.at \notin {"remove", "rename"},
           k = "daily" /\ s.at \in {"open", "expire"} => l < s.now,
           LocalDay[h[0].mtime] \in Nat \ {0},
           Dated(k, h, l, dy, s, x), Undated(k, h, l, s, FALSE)
    PROVE  Undated(k, h, LocalDay[h[0].mtime], Idle, FALSE)
<1> SUFFICES ASSUME k = "daily" PROVE LocalDay[h[0].mtime] \notin DOMAIN h
  BY DEF Undated
<1> PICK u : u = LocalDay[h[0].mtime]
  OBVIOUS
<1>0. DOMAIN h \subseteq Nat /\ s.now \in Nat
  BY DEF ViewOk, Steps
<1>1. \A d \in DOMAIN h \ {0} : d <= l
  BY DEF Dated
<1>2. CASE s.at \in {"idle", "close", "date", "write"}
  <2>1. l \notin DOMAIN h /\ u >= l
    BY <1>2 DEF Undated, Dated
  <2>2. \A d \in DOMAIN h \ {0} : d < l
    BY <2>1, <1>0, <1>1
  <2> QED BY <2>1, <2>2, <1>0
<1>3. CASE s.at \in {"open", "expire"}
  <2>1. l < s.now /\ u >= s.now
    BY <1>3 DEF Dated
  <2>2. \A d \in DOMAIN h \ {0} : d < u
    BY <2>1, <1>0, <1>1
  <2> QED BY <2>2, <1>0
<1> QED BY <1>2, <1>3 DEF Steps

LEMMA DataLength == ASSUME FilesInv PROVE Len(data) \in Nat
BY LenProperties DEF FilesInv, FilesTyped, InodesOk

LEMMA ViewNow ==
    ASSUME FilesInv
    PROVE  ViewOk(View) /\ DOMAIN View = DOMAIN disk
BY ViewTyped DEF FilesInv, FilesTyped, View

\* The times of the messages and their days are numbers.
LEMMA DaysNow ==
    ASSUME FilesInv
    PROVE  \A m \in 1..sent :
               /\ timeOf[m] \in 1..MaxTime /\ timeOf[m] \in Nat
               /\ LocalDay[timeOf[m]] \in Nat
<1>1. \A m \in 1..sent : timeOf[m] \in 1..MaxTime
  BY ElementOfSeq DEF FilesInv, FilesTyped
<1>2. \A m \in 1..sent : LocalDay[timeOf[m]] \in Nat
  BY <1>1, DaysOfTimes
<1> QED BY <1>1, <1>2

\* How long the files of a daily appender are kept.
LEMMA KeepsLong ==
    ASSUME FilesInv
    PROVE  conf.days * DayLength \in Nat
<1>1. conf.days \in Nat /\ DayLength \in Nat
  BY FileAppendersAssumption DEF FilesInv, FilesTyped, ConfType
<1> QED BY <1>1

LEMMA OpenStep ==
    ASSUME FilesInv, NEW trunc, Open(trunc)
    PROVE  /\ OpenedInode \in 1..Len(data') /\ Len(data') \in Nat /\ Len(data) <= Len(data')
           /\ InodesOk(data', time) /\ NamesOk(disk', Len(data'))
           /\ DOMAIN disk' = DOMAIN disk \cup {0} /\ disk'[0] = OpenedInode
           /\ 0 \in DOMAIN disk => disk'[0] = disk[0]
           /\ ~Truncates(trunc) => Opened(View, View', time)
<1>0. Len(data) \in Nat /\ DOMAIN View = DOMAIN disk
  BY DataLength, ViewNow
<1>1. /\ time \in Nat \ {0} /\ InodesOk(data, time) /\ NamesOk(disk, Len(data))
  BY TimeNow DEF FilesInv, FilesTyped
<1>2. /\ disk' = With(disk, 0, OpenedInode)
      /\ data' = IF 0 \notin DOMAIN disk THEN Append(data, Fresh(time))
                 ELSE IF Truncates(trunc) THEN [data EXCEPT ![disk[0]] = Fresh(time)] ELSE data
  BY DEF Open, Fresh
<1>3. DOMAIN disk' = DOMAIN disk \cup {0} /\ disk'[0] = OpenedInode
  BY <1>2 DEF With
<1>4. CASE 0 \notin DOMAIN disk
  <2>1. /\ data' = Append(data, Fresh(time)) /\ OpenedInode = Len(data) + 1
        /\ disk' = With(disk, 0, Len(data) + 1)
    BY <1>2, <1>4 DEF OpenedInode
  <2>2. InodesOk(data', time) /\ Len(data') = Len(data) + 1
    BY <1>1, <2>1, InodeAppended
  <2>3. NamesOk(disk', Len(data'))
    BY <1>0, <1>1, <1>4, <2>1, <2>2, NamesWith
  <2>4. View' = With(View, 0, Fresh(time))
    BY <1>1, <1>4, <2>1, ViewNew DEF View
  <2>5. OpenedInode \in 1..Len(data') /\ Len(data') \in Nat /\ Len(data) <= Len(data')
    BY <2>1, <2>2, <1>0
  <2> QED BY <1>0, <1>3, <1>4, <2>2, <2>3, <2>4, <2>5 DEF Opened
<1>5. CASE 0 \in DOMAIN disk
  <2>1. disk[0] \in 1..Len(data) /\ OpenedInode = disk[0] /\ disk' = With(disk, 0, disk[0])
    BY <1>1, <1>2, <1>5 DEF NamesOk, OpenedInode
  <2>2. Fresh(time) \in Inodes /\ Fresh(time).mtime \in 1..time
    BY <1>1 DEF Fresh, Inodes
  <2>3. InodesOk(data', time) /\ Len(data') = Len(data)
    <3>1. CASE Truncates(trunc)
      <4>1. PICK r, j : r = Fresh(time) /\ j = disk[0]
        OBVIOUS
      <4>2. data' = [data EXCEPT ![j] = r]
        BY <1>2, <1>5, <3>1, <4>1
      <4>3. r \in Inodes /\ r.mtime \in 1..time /\ j \in 1..Len(data)
        BY <2>1, <2>2, <4>1
      <4>4. InodesOk([data EXCEPT ![j] = r], time) /\ Len([data EXCEPT ![j] = r]) = Len(data)
        BY <1>1, <4>3, InodeReplaced
      <4> QED BY <4>2, <4>4
    <3>2. CASE ~Truncates(trunc)
      BY <1>1, <1>2, <1>5, <3>2
    <3> QED BY <3>1, <3>2
  <2>4. NamesOk(disk', Len(data'))
    BY <1>0, <1>1, <1>5, <2>1, <2>3, NamesSame
  <2>5. ~Truncates(trunc) => View' = View
    BY <1>2, <1>5, <2>1, ViewSame DEF View
  <2>6. OpenedInode \in 1..Len(data') /\ Len(data') \in Nat /\ Len(data) <= Len(data')
    BY <1>0, <2>1, <2>3
  <2> QED BY <1>0, <1>3, <1>5, <2>1, <2>3, <2>4, <2>5, <2>6 DEF Opened
<1> QED BY <1>4, <1>5

\* What open leaves as it was.
LEMMA OpenLogged ==
    ASSUME FilesInv, ~gap, NEW trunc, Open(trunc), ~Truncates(trunc)
    PROVE  /\ InSequence(kind, View', written, timeOf, time)
           /\ PlainFile(kind, View', written)
           /\ Rolled(kind, View', conf.backups, step)
           /\ Dated(kind, View', logsDay, timeOf, step, ctl = 0)
           /\ Undated(kind, View', logsDay, step, hand)
           /\ ViewOk(View') /\ 0 \in DOMAIN View'
           /\ \A m : InFiles(View', m) <=> InFiles(View, m)
<1>1. PICK g, h : g = View /\ h = View'
  OBVIOUS
<1>2. /\ Opened(g, h, time) /\ ViewOk(g) /\ time \in Nat
      /\ logsDay \in Nat \ {0} /\ logsDay <= LocalDay[time] /\ LocalDay[time] \in Nat
  BY <1>1, OpenStep, ViewNow, TimeNow
<1>3. conf.backups \in Nat /\ step \in Steps
  BY DEF FilesInv, FilesTyped, ConfType
<1>4. kind = "daily" /\ step.at \in {"open", "expire"} => step.now <= LocalDay[time]
  BY TimeNow DEF FilesInv, RollSteps
<1>5. /\ InSequence(kind, g, written, timeOf, time) /\ PlainFile(kind, g, written)
      /\ Rolled(kind, g, conf.backups, step) /\ Dated(kind, g, logsDay, timeOf, step, ctl = 0)
      /\ Undated(kind, g, logsDay, step, hand)
  BY <1>1 DEF FilesInv, Logged
<1>6. InSequence(kind, h, written, timeOf, time) /\ PlainFile(kind, h, written)
  BY <1>2, <1>5, OpenedInSequence, OpenedPlain
<1>7. Rolled(kind, h, conf.backups, step)
  BY <1>2, <1>3, <1>5, OpenedRolled
<1>8. Dated(kind, h, logsDay, timeOf, step, ctl = 0)
  <2>1. PICK l, dy, s, t : l = logsDay /\ dy = timeOf /\ s = step /\ t = time
    OBVIOUS
  <2>2. /\ l \in Nat /\ t \in Nat /\ s \in Steps /\ l <= LocalDay[t] /\ LocalDay[t] \in Nat
        /\ Opened(g, h, t) /\ Dated(kind, g, l, dy, s, ctl = 0)
        /\ kind = "daily" /\ s.at \in {"open", "expire"} => s.now <= LocalDay[t]
    BY <2>1, <1>2, <1>3, <1>4, <1>5
  <2>3. Dated(kind, h, l, dy, s, ctl = 0)
    BY <2>2, <1>2, OpenedDated
  <2> QED BY <2>1, <2>3
<1>10. Undated(kind, h, logsDay, step, hand)
  BY <1>2, <1>5, OpenedUndated
<1>9. ViewOk(h) /\ 0 \in DOMAIN h /\ \A m : InFiles(h, m) <=> InFiles(g, m)
  <2>1. time \in Nat
    BY <1>2
  <2>2. ViewOk(h) /\ DOMAIN h = DOMAIN g \cup {0} /\ \A m : InFiles(h, m) <=> InFiles(g, m)
    BY <1>2, <2>1, OpenedFacts
  <2> QED BY <2>2
<1> QED BY <1>1, <1>6, <1>7, <1>8, <1>9, <1>10

LEMMA ReopenBeginKeeps ==
    ASSUME FilesInv, ReopenBegin
    PROVE  FilesInv'
<1>1. ctl' \in Nat /\ ctl' # 0
  BY CtlCounts DEF ReopenBegin
<1>2. Open(conf.trunc) /\ gap' = (gap \/ Truncates(conf.trunc))
  BY DEF ReopenBegin
<1>3. Free \in Nat \ {0} /\ Free \notin DOMAIN fds
  BY FreeIsFree DEF FilesInv, FilesTyped
<1>4. FdsOk(fds', Len(data')) /\ reo' \in DOMAIN fds'
  <2>1. FdsOk(fds', Len(data'))
    BY <1>2, <1>3, OpenStep, DataLength, FdsWith DEF ReopenBegin, FilesInv, FilesTyped
  <2> QED BY <2>1 DEF ReopenBegin, With
<1>5. DOMAIN fds' = DOMAIN fds \cup {Free} /\ \A f \in DOMAIN fds : fds'[f] = fds[f]
  BY <1>3 DEF ReopenBegin, With
<1>6. gap' \in BOOLEAN
  BY <1>2
<1>7. FilesTyped'
  BY <1>1, <1>2, <1>4, <1>6, OpenStep DEF FilesInv, FilesTyped, ReopenBegin, Today
<1>8. Descriptors'
  BY <1>3, <1>5 DEF Descriptors, ReopenBegin, FilesInv, FilesTyped
<1>9. RollSteps'
  BY DEF FilesInv, RollSteps, ReopenBegin, ToBeDated, Today
<1>10. ASSUME ~gap' PROVE Logged'
  <2>1. ~gap /\ ~Truncates(conf.trunc) /\ Logged
    BY <1>2, <1>10 DEF FilesInv
  <2>2. UNCHANGED <<kind, fd, conf, logsDay, time, step, sent, written, timeOf, hand>>
    BY DEF ReopenBegin
  <2>3. /\ InSequence(kind, View', written, timeOf, time)
        /\ PlainFile(kind, View', written)
        /\ Rolled(kind, View', conf.backups, step)
        /\ Dated(kind, View', logsDay, timeOf, step, ctl = 0)
        /\ Undated(kind, View', logsDay, step, hand)
    BY <1>2, <2>1, OpenLogged
  <2>4. Dated(kind, View', logsDay, timeOf, step, ctl' = 0)
    <3>1. (ctl' = 0) => (ctl = 0)
      BY <1>1
    <3> QED BY <2>3, <3>1, DatedStill
  <2>5. InUse'
    <3> SUFFICES ASSUME step.at \in {"idle", "expire", "write"}, fd \in DOMAIN fds'
                 PROVE  0 \in DOMAIN disk' /\ fds'[fd] = disk'[0]
      BY <2>2 DEF InUse
    <3>1. fd \in DOMAIN fds
      BY <1>3, <1>5 DEF FilesInv, Descriptors
    <3>2. 0 \in DOMAIN disk /\ fds[fd] = disk[0]
      BY <3>1, <2>1 DEF Logged, InUse
    <3> QED BY <3>1, <3>2, <1>2, <1>5, OpenStep
  <2> QED BY <2>2, <2>3, <2>4, <2>5 DEF Logged
<1> QED BY <1>1, <1>7, <1>8, <1>9, <1>10 DEF FilesInv

LEMMA RestartKeeps ==
    ASSUME FilesInv, NEW c \in Confs, Restart(c)
    PROVE  FilesInv'
<1>1. ctl' \in Nat /\ ctl' # 0
  BY CtlCounts DEF Restart
<1>2. Open(c.trunc) /\ gap' = (gap \/ Truncates(c.trunc) \/ LeavesBehind(c.backups))
  BY DEF Restart
<1>3. c \in ConfType(0) /\ conf' = c /\ c.backups \in Nat /\ conf.backups \in Nat
  BY FileAppendersAssumption DEF Restart, ConfType, FilesInv, FilesTyped
<1>4. /\ OpenedInode \in 1..Len(data') /\ Len(data') \in Nat
      /\ InodesOk(data', time) /\ NamesOk(disk', Len(data'))
      /\ DOMAIN disk' = DOMAIN disk \cup {0} /\ disk'[0] = OpenedInode
  BY <1>2, OpenStep
<1>5. FdsOk(fds', Len(data')) /\ DOMAIN fds' = {1} /\ fds'[1] = OpenedInode
  <2>1. fds' = [n \in {1} |-> OpenedInode]
    BY DEF Restart
  <2> QED BY <1>4, <2>1, FdsOne
<1>6. /\ logsDay' = LocalDay[data'[OpenedInode].mtime]
      /\ logsDay' \in 1..Today /\ logsDay' \in Nat \ {0}
  <2>1. data'[OpenedInode].mtime \in 1..time
    BY <1>4 DEF InodesOk
  <2>2. logsDay' = LocalDay[data'[OpenedInode].mtime]
    BY DEF Restart
  <2> QED BY <2>1, <2>2, TimeNow, DaysOfTimes
<1>7. fd' = 1 /\ reo' = 0 /\ step' = Idle /\ Idle \in Steps /\ Idle.at = "idle"
  BY DEF Restart, Idle, Steps
<1>8. gap' \in BOOLEAN
  BY <1>2
<1>9. UNCHANGED <<kind, time, sent, written, timeOf, hand>>
  BY DEF Restart
<1>10. FilesTyped'
  BY <1>1, <1>3, <1>4, <1>5, <1>6, <1>7, <1>8, <1>9 DEF FilesInv, FilesTyped, Today
<1>11. Descriptors' /\ RollSteps'
  BY <1>5, <1>7, <1>9 DEF Descriptors, RollSteps
<1>12. ASSUME ~gap' PROVE Logged'
  <2>1. ~gap /\ ~Truncates(c.trunc) /\ ~LeavesBehind(c.backups)
    BY <1>2, <1>12
  <2>2. PICK h : h = View'
    OBVIOUS
  <2>3. /\ InSequence(kind, h, written, timeOf, time) /\ PlainFile(kind, h, written)
        /\ Rolled(kind, h, conf.backups, step)
        /\ Dated(kind, h, logsDay, timeOf, step, ctl = 0)
        /\ Undated(kind, h, logsDay, step, hand)
        /\ ViewOk(h) /\ 0 \in DOMAIN h
    BY <1>2, <2>1, <2>2, OpenLogged
  <2>4. Rolled(kind, h, c.backups, Idle)
    <3>1. kind = "rolling" => ~(c.backups < conf.backups)
      BY <2>1, Zenon DEF LeavesBehind
    <3>2. DOMAIN h \subseteq Nat
      BY <2>3 DEF ViewOk
    <3> QED BY <3>1, <3>2, <2>3, <1>3, <1>7 DEF Rolled
  <2>5. LocalDay[h[0].mtime] = logsDay'
    <3>1. h[0] = data'[OpenedInode]
      BY <2>2, <1>4 DEF View, ViewOf
    <3> QED BY <3>1, <1>6
  <2>6. Dated(kind, h, logsDay', timeOf, Idle, FALSE) /\ Undated(kind, h, logsDay', Idle, hand)
    <3>1. logsDay \in Nat \ {0} /\ step \in Steps /\ hand \in BOOLEAN
      BY TimeNow DEF FilesInv, FilesTyped
    <3>2. /\ kind = "daily" => step.at \notin {"remove", "rename"}
          /\ kind = "daily" /\ step.at \in {"open", "expire"} /\ ~hand => logsDay < step.now
      BY DEF FilesInv, RollSteps
    <3>3. \A n \in DOMAIN h : \A i \in DOMAIN h[n].text : LocalDay[timeOf[h[n].text[i]]] \in Nat
      <4>1. \A n \in DOMAIN h : \A i \in DOMAIN h[n].text : h[n].text[i] \in written
        BY <2>3 DEF InSequence, Whole
      <4>2. written \subseteq 1..sent
        BY DEF FilesInv, FilesTyped
      <4> QED BY <4>1, <4>2, DaysNow
    <3>4. LocalDay[h[0].mtime] \in Nat \ {0}
      BY <2>5, <1>6
    <3>5. Dated(kind, h, LocalDay[h[0].mtime], timeOf, Idle, FALSE)
      BY <3>1, <3>2, <3>3, <3>4, <2>3, RestartedDated
    <3>6. ASSUME ~hand PROVE Undated(kind, h, LocalDay[h[0].mtime], Idle, FALSE)
      <4>1. Undated(kind, h, logsDay, step, FALSE)
        BY <3>6, <2>3 DEF Undated
      <4> QED BY <3>1, <3>2, <3>4, <3>6, <4>1, <2>3, RestartedUndated
    <3>7. Undated(kind, h, LocalDay[h[0].mtime], Idle, hand)
      BY <3>6 DEF Undated
    <3> QED BY <3>5, <3>7, <2>5
  <2>7. (ctl' = 0) = FALSE
    BY <1>1
  <2>8. InUse'
    BY <1>4, <1>5, <1>7 DEF InUse
  <2> QED BY <2>2, <2>3, <2>4, <2>6, <2>7, <2>8, <1>3, <1>7, <1>9 DEF Logged
<1> QED BY <1>1, <1>10, <1>11, <1>12 DEF FilesInv

LEMMA TickKeeps ==
    ASSUME FilesInv, Tick
    PROVE  FilesInv'
<1>1. /\ kind = "daily" /\ time \in Nat \ {0} /\ time' = time + 1 /\ time' \in 1..MaxTime
      /\ UNCHANGED <<kind, disk, data, fds, fd, conf, logsDay, step, reo, sent, written, timeOf,
                     gap, hand, ctl>>
  <2>1. time \in 1..MaxTime /\ time < MaxTime /\ MaxTime \in Nat
    BY DaysOfTimes DEF Tick, FilesInv, FilesTyped
  <2> QED BY <2>1 DEF Tick
<1>0. Today \in Nat /\ Today' \in Nat /\ Today <= Today' /\ logsDay \in 1..Today
  <2>1. time \in 1..MaxTime /\ time <= time'
    BY <1>1, TimeNow
  <2> QED BY <2>1, <1>1, DaysOfTimes, TimeNow DEF Today
<1>2. FilesTyped'
  <2>1. logsDay' \in 1..Today'
    BY <1>0, <1>1
  <2> QED BY <2>1, <1>1, InodesLater DEF FilesInv, FilesTyped
<1>3. Descriptors' /\ RollSteps'
  <2>1. Descriptors'
    BY <1>1 DEF FilesInv, Descriptors
  <2>2. step.now \in Nat
    BY DEF FilesInv, FilesTyped, Steps
  <2>3. \A d : ToBeDated(d) => ToBeDated(d)'
    <3> SUFFICES ASSUME NEW d, ToBeDated(d) PROVE ToBeDated(d)'
      OBVIOUS
    <3>1. timeOf[sent] \in Nat
      BY DaysNow DEF FilesInv, FilesTyped, ToBeDated
    <3> QED BY <3>1, <1>1 DEF ToBeDated
  <2> QED BY <1>0, <1>1, <2>1, <2>2, <2>3 DEF FilesInv, RollSteps
<1>4. View' = View /\ ViewOk(View)
  BY <1>1, ViewNow DEF View
<1>5. ASSUME ~gap' PROVE Logged'
  <2>1. Logged
    BY <1>1, <1>5 DEF FilesInv
  <2>2. InSequence(kind, View, written, timeOf, time + 1)
    BY <2>1, <1>1, <1>4, TimePasses DEF Logged
  <2>3. InUse'
    BY <2>1, <1>1 DEF Logged, InUse
  <2> QED BY <2>1, <2>2, <2>3, <1>1, <1>4 DEF Logged
<1>6. ASSUME ~gap', ctl' = 0 PROVE Alone'
  <2>1. Alone
    BY <1>1, <1>6 DEF FilesInv
  <2>2. DailyKept(kind, View, conf, written, timeOf, time + 1)
    <3>1. \A m \in written : timeOf[m] \in Nat
      BY DaysNow DEF FilesInv, FilesTyped
    <3>2. conf.days * DayLength \in Nat
      BY KeepsLong
    <3> QED BY <3>1, <3>2, <2>1, <1>1 DEF Alone, DailyKept
  <2> QED BY <2>1, <2>2, <1>1, <1>4 DEF Alone
<1> QED BY <1>2, <1>3, <1>5, <1>6 DEF FilesInv

LEMMA RollCloseKeeps ==
    ASSUME FilesInv, RollClose
    PROVE  FilesInv'
<1>1. /\ step.at = "close" /\ fds' = Without(fds, fd)
      /\ UNCHANGED <<kind, disk, data, fd, conf, logsDay, time, reo, sent, written, timeOf, gap,
                     hand, ctl>>
  BY DEF RollClose
<1>2. FdsOk(fds', Len(data)) /\ reo \in {0} \cup DOMAIN fds'
  <2>1. FdsOk(fds', Len(data))
    BY <1>1, DataLength, FdsWithout DEF FilesInv, FilesTyped
  <2>2. DOMAIN fds' = DOMAIN fds \ {fd}
    BY <1>1 DEF Without
  <2>3. reo \in {0} \cup DOMAIN fds /\ (reo # 0 => reo # fd)
    BY <1>1 DEF FilesInv, FilesTyped, Descriptors
  <2> QED BY <2>1, <2>2, <2>3
<1>3. kind \in {"rolling", "daily"} /\ step \in Steps /\ conf.backups \in Nat
  BY <1>1 DEF FilesInv, FilesTyped, RollSteps, ConfType
<1>4. /\ step' \in Steps
      /\ kind = "rolling" =>
           \/ conf.backups > 0 /\ step'.at = "remove" /\ step'.to = conf.backups
           \/ conf.backups = 0 /\ step'.at = "open"
      /\ kind = "daily" => step'.at = "date" /\ step'.now = step.now
  <2>1. CASE kind = "rolling" /\ conf.backups > 0
    <3>1. step' = [at |-> "remove", now |-> 0, to |-> conf.backups]
      BY <2>1 DEF RollClose, Idle
    <3> QED BY <2>1, <3>1, <1>3 DEF Steps
  <2>2. CASE kind = "rolling" /\ ~(conf.backups > 0)
    <3>1. step' = [at |-> "open", now |-> 0, to |-> 0] /\ conf.backups = 0
      BY <2>2, <1>3 DEF RollClose, Idle
    <3> QED BY <2>2, <3>1, <1>3 DEF Steps
  <2>3. CASE kind = "daily"
    <3>1. step' = [step EXCEPT !.at = "date"]
      BY <2>3 DEF RollClose
    <3> QED BY <2>3, <3>1, <1>3 DEF Steps
  <2> QED BY <2>1, <2>2, <2>3, <1>3
<1>5. FilesTyped'
  BY <1>1, <1>2, <1>4 DEF FilesInv, FilesTyped, Today
<1>6. Descriptors' /\ RollSteps'
  BY <1>1, <1>3, <1>4 DEF FilesInv, Descriptors, RollSteps, ToBeDated, Today
<1>7. View' = View
  BY <1>1 DEF View
<1>8. ASSUME ~gap' PROVE Logged'
  <2>1. Logged
    BY <1>1, <1>8 DEF FilesInv
  <2>2. InUse'
    BY <1>3, <1>4 DEF InUse
  <2>3. Rolled(kind, View, conf.backups, step')
    BY <1>3, <1>4, <2>1 DEF Logged, Rolled
  <2>4. Dated(kind, View, logsDay, timeOf, step', ctl = 0)
    BY <1>1, <1>3, <1>4, <2>1 DEF Logged, Dated
  <2>5. Undated(kind, View, logsDay, step', hand)
    BY <1>1, <2>1 DEF Logged, Undated
  <2> QED BY <2>1, <2>2, <2>3, <2>4, <2>5, <1>1, <1>7 DEF Logged
<1>9. ASSUME ~gap', ctl' = 0 PROVE Alone'
  <2>1. Alone
    BY <1>1, <1>9 DEF FilesInv
  <2>2. RollingKept(kind, View, conf, step', sent, written, fd' \in DOMAIN fds')
    <3> SUFFICES ASSUME kind = "rolling"
                 PROVE  step'.at # "idle" /\ RolledDue(View, conf, step', sent, written)
      BY DEF RollingKept
    <3>1. conf.backups > 0
      BY <2>1, <1>3, FileAppendersAssumption DEF Alone, ConfType
    <3>2. step'.at = "remove" /\ step'.to = conf.backups
      BY <3>1, <1>3, <1>4
    <3>3. RolledDue(View, conf, step, sent, written)
      BY <2>1, <1>1 DEF Alone, RollingKept
    <3>4. \A b : Moved(View, b, conf, step') = Moved(View, b, conf, step)
      BY <3>2, <1>1 DEF Moved
    <3> QED BY <3>2, <3>3, <3>4 DEF RolledDue
  <2> QED BY <2>1, <2>2, <1>1, <1>7 DEF Alone
<1> QED BY <1>5, <1>6, <1>8, <1>9 DEF FilesInv

\* The next name, and the room behind it.
LEMMA RoomNext ==
    ASSUME NEW c \in ConfType(0), NEW b \in Nat \ {0}
    PROVE  RoomFor(b, c) = RoomFor(b - 1, c) + c.size /\ RoomFor(b - 1, c) \in Nat /\ c.size \in Nat
           /\ RoomFor(0, c) = 0
BY DEF RoomFor, ConfType

LEMMA RollRemoveKeeps ==
    ASSUME FilesInv, RollRemove
    PROVE  FilesInv'
<1>1. /\ step.at = "remove" /\ disk' = Without(disk, step.to)
      /\ UNCHANGED <<kind, data, fds, fd, conf, logsDay, time, reo, sent, written, timeOf, gap,
                     hand, ctl>>
  BY DEF RollRemove
<1>2. kind = "rolling" /\ step \in Steps /\ conf.backups \in Nat /\ step.to \in Nat
  BY <1>1 DEF FilesInv, FilesTyped, RollSteps, ConfType, Steps
<1>3. step' \in Steps /\ step'.at = "rename" /\ step'.to = step.to
  BY <1>2 DEF RollRemove, Steps
<1>4. NamesOk(disk', Len(data))
  <2>1. DOMAIN disk' \subseteq DOMAIN disk /\ \A a \in DOMAIN disk' : disk'[a] = disk[a]
    BY <1>1 DEF Without
  <2> QED BY <2>1, DataLength, NamesLess DEF FilesInv, FilesTyped
<1>5. FilesTyped'
  BY <1>1, <1>3, <1>4 DEF FilesInv, FilesTyped, Today
<1>6. Descriptors' /\ RollSteps'
  BY <1>1, <1>2, <1>3 DEF FilesInv, Descriptors, RollSteps
<1>7. PICK g, h : g = View /\ h = View'
  OBVIOUS
<1>8. /\ DOMAIN h = DOMAIN g \ {step.to} /\ \A n \in DOMAIN h : h[n] = g[n]
      /\ ViewOk(g) /\ DOMAIN g \subseteq Nat
  BY <1>1, <1>7, ViewNow DEF View, ViewOf, Without, ViewOk
<1>9. ASSUME ~gap' PROVE Logged'
  <2>1. Logged
    BY <1>1, <1>9 DEF FilesInv
  <2>2. step.to > 0 /\ step.to <= conf.backups /\ \A n \in DOMAIN g : n <= step.to
    BY <2>1, <1>1, <1>2, <1>7 DEF Logged, Rolled
  <2>3. InSequence(kind, h, written, timeOf, time)
    <3>1. written \subseteq Nat
      BY DEF FilesInv, FilesTyped
    <3>2. \A a \in DOMAIN h, c \in DOMAIN g \ DOMAIN h : Before(kind, c, a)
      BY <2>2, <1>2, <1>8 DEF Before
    <3>3. InSequence(kind, g, written, timeOf, time)
      BY <2>1, <1>7 DEF Logged
    <3> QED BY <3>1, <3>2, <3>3, <1>8, DropFiles
  <2>4. /\ InUse' /\ PlainFile(kind, h, written) /\ Dated(kind, h, logsDay, timeOf, step', ctl = 0)
        /\ Undated(kind, h, logsDay, step', hand)
    BY <1>2, <1>3 DEF InUse, PlainFile, Dated, Undated
  <2>5. Rolled(kind, h, conf.backups, step')
    BY <2>2, <1>2, <1>3, <1>8 DEF Rolled
  <2> QED BY <2>3, <2>4, <2>5, <1>1, <1>7 DEF Logged
<1>10. ASSUME ~gap', ctl' = 0 PROVE Alone'
  <2>1. Alone /\ Logged
    BY <1>1, <1>10 DEF FilesInv
  <2>2. RolledDue(g, conf, step, sent, written)
    BY <2>1, <1>1, <1>2, <1>7 DEF Alone, RollingKept
  <2>3. step.to = conf.backups /\ step.to > 0 /\ \A n \in DOMAIN g : n <= step.to
    BY <2>1, <2>2, <1>1, <1>2, <1>7 DEF RolledDue, Logged, Rolled
  <2>4. conf \in ConfType(0) /\ sent \in Nat /\ written = 1..sent
    BY <2>2 DEF FilesInv, FilesTyped, RolledDue
  <2>5. \A b \in DOMAIN g : Moved(g, b, conf, step) = conf.size
    BY <1>1 DEF Moved
  <2>6. \A b \in DOMAIN h : Moved(h, b, conf, step') = conf.size
    BY <1>2, <1>3, <1>8, <2>3 DEF Moved
  <2>7. \A b \in DOMAIN h \ {0} : \A q \in Msgs(h[b]) :
            q + RoomFor(b - 1, conf) + Moved(h, b, conf, step') <= sent
    BY <2>2, <2>5, <2>6, <1>8 DEF RolledDue
  <2>8. ASSUME NEW m \in written, ~InFiles(h, m)
        PROVE  m + RoomFor(conf.backups, conf) <= sent
    <3>1. CASE InFiles(g, m)
      <4>1. m \in Msgs(g[step.to]) /\ step.to \in DOMAIN g \ {0}
        BY <3>1, <2>8, <2>3, <1>8 DEF InFiles
      <4>2. m + RoomFor(step.to - 1, conf) + conf.size <= sent
        BY <4>1, <2>2, <2>5 DEF RolledDue
      <4>3. conf.backups \in Nat \ {0}
        BY <2>3, <1>2
      <4>4. RoomFor(conf.backups, conf) = RoomFor(conf.backups - 1, conf) + conf.size
            /\ RoomFor(conf.backups - 1, conf) \in Nat /\ conf.size \in Nat
        BY <4>3, <2>4, RoomNext
      <4>5. m \in Nat
        BY <2>4
      <4> QED BY <4>2, <4>4, <4>5, <2>3, <2>4
    <3>2. CASE ~InFiles(g, m)
      BY <3>2, <2>2 DEF RolledDue
    <3> QED BY <3>1, <3>2
  <2>9. RolledDue(h, conf, step', sent, written)
    BY <2>4, <2>7, <2>8, <1>3 DEF RolledDue
  <2>10. RollingKept(kind, h, conf, step', sent, written, fd \in DOMAIN fds)
    BY <2>9, <1>3 DEF RollingKept
  <2>11. DailyKept(kind, h, conf, written, timeOf, time)
    BY <1>2 DEF DailyKept
  <2> QED BY <2>1, <2>10, <2>11, <1>1, <1>7 DEF Alone
<1> QED BY <1>5, <1>6, <1>9, <1>10 DEF FilesInv

\* rename, with the files g before and h after it.
RenamedTo(g, h, a, b) ==
    IF a \in DOMAIN g THEN h = With(Without(g, a), b, g[a]) ELSE h = g

LEMMA RenameStep ==
    ASSUME FilesInv, NEW a, NEW b \in Nat, Rename(a, b), data' = data
    PROVE  NamesOk(disk', Len(data)) /\ RenamedTo(View, View', a, b)
<1>1. CASE a \in DOMAIN disk
  <2>1. disk' = With(Without(disk, a), b, disk[a])
    BY <1>1 DEF Rename
  <2>2. NamesOk(disk', Len(data))
    BY <1>1, <2>1, DataLength, NamesRenamed DEF FilesInv, FilesTyped
  <2>3. View' = With(Without(View, a), b, View[a])
    BY <1>1, <2>1, ViewRenamed DEF View
  <2> QED BY <1>1, <2>2, <2>3, ViewNow DEF RenamedTo
<1>2. CASE a \notin DOMAIN disk
  <2>1. disk' = disk /\ View' = View
    BY <1>2 DEF Rename, View
  <2> QED BY <1>2, <2>1, ViewNow DEF RenamedTo, FilesInv, FilesTyped
<1> QED BY <1>1, <1>2

LEMMA RenamedFacts ==
    ASSUME NEW g, NEW h, NEW a, NEW b, b # a, b \notin DOMAIN g, RenamedTo(g, h, a, b)
    PROVE  /\ a \in DOMAIN g =>
                /\ DOMAIN h = (DOMAIN g \ {a}) \cup {b} /\ h[b] = g[a]
                /\ \A n \in DOMAIN g \ {a} : h[n] = g[n]
           /\ a \notin DOMAIN g => h = g
           /\ a \notin DOMAIN h
BY DEF RenamedTo, With, Without

LEMMA RenamedInSequence ==
    ASSUME NEW k, NEW g, ViewOk(g), NEW h, NEW a, NEW b \in Nat, b \notin DOMAIN g,
           RenamedTo(g, h, a, b), NEW w, NEW dy, NEW t, InSequence(k, g, w, dy, t),
           \A c \in DOMAIN g \ {a} :
               /\ Before(k, c, b) => Before(k, c, a)
               /\ Before(k, b, c) => Before(k, a, c),
           ~Before(k, b, b)
    PROVE  InSequence(k, h, w, dy, t) /\ \A m : InFiles(h, m) <=> InFiles(g, m)
<1>1. CASE a \in DOMAIN g
  BY <1>1, RenameFile DEF RenamedTo
<1>2. CASE a \notin DOMAIN g
  BY <1>2 DEF RenamedTo
<1> QED BY <1>1, <1>2

\* One rename of a rolling file that was left alone.
LEMMA RenamedDue ==
    ASSUME NEW g, ViewOk(g), NEW h, NEW s \in Steps, s.at = "rename", s.to > 0,
           s.to \notin DOMAIN g, RenamedTo(g, h, s.to - 1, s.to),
           NEW z \in Steps,
           IF s.to = 1 THEN z.at = "open" ELSE z.at = "rename" /\ z.to = s.to - 1,
           NEW c \in ConfType(0), NEW n \in Nat, NEW w,
           \A a \in DOMAIN g : Msgs(g[a]) \subseteq w,
           \A m : InFiles(h, m) <=> InFiles(g, m),
           RolledDue(g, c, s, n, w)
    PROVE  RolledDue(h, c, z, n, w)
<1>1. s.to \in Nat \ {0} /\ DOMAIN g \subseteq Nat /\ c.size \in Nat /\ w = 1..n
  BY DEF Steps, ViewOk, ConfType, RolledDue
<1>2. PICK to, fr : to = s.to /\ fr = s.to - 1
  OBVIOUS
<1>3. to \in Nat \ {0} /\ fr \in Nat /\ fr = to - 1 /\ fr # to
  BY <1>1, <1>2
<1>4. /\ fr \in DOMAIN g =>
           /\ DOMAIN h = (DOMAIN g \ {fr}) \cup {to} /\ h[to] = g[fr]
           /\ \A x \in DOMAIN g \ {fr} : h[x] = g[x]
      /\ fr \notin DOMAIN g => h = g
      /\ fr \notin DOMAIN h
  <2>1. RenamedTo(g, h, fr, to) /\ to # fr /\ to \notin DOMAIN g
    BY <1>2, <1>3
  <2> QED BY <2>1, RenamedFacts
<1>5. ASSUME NEW b \in DOMAIN h \ {0}, NEW q \in Msgs(h[b])
      PROVE  q + RoomFor(b - 1, c) + Moved(h, b, c, z) <= n
  <2>1. CASE b = to
    <3>1. fr \in DOMAIN g /\ q \in Msgs(g[fr])
      BY <2>1, <1>2, <1>4
    <3>2. Moved(h, b, c, z) = 0
      BY <2>1, <1>2, <1>3 DEF Moved
    <3>3. q \in 1..n
      BY <3>1, <1>1
    <3>4. CASE fr = 0
      <4>1. RoomFor(b - 1, c) = 0
        BY <2>1, <3>4, <1>3, RoomNext
      <4> QED BY <3>2, <3>3, <4>1
    <3>5. CASE fr # 0
      <4>1. Moved(g, fr, c, s) = c.size
        BY <1>2, <1>3 DEF Moved
      <4>2. q + RoomFor(fr - 1, c) + c.size <= n
        BY <3>1, <3>5, <4>1 DEF RolledDue
      <4>3. fr \in Nat \ {0} /\ b - 1 = fr
        BY <2>1, <3>5, <1>3
      <4>4. RoomFor(fr, c) = RoomFor(fr - 1, c) + c.size /\ RoomFor(fr - 1, c) \in Nat
        BY <4>3, RoomNext
      <4> QED BY <3>2, <3>3, <4>2, <4>3, <4>4, <1>1
    <3> QED BY <3>4, <3>5
  <2>2. CASE b # to
    <3>1. b \in DOMAIN g \ {fr} /\ h[b] = g[b] /\ b \in Nat
      BY <2>2, <1>1, <1>4
    <3>2. q + RoomFor(b - 1, c) + Moved(g, b, c, s) <= n
      BY <3>1 DEF RolledDue
    <3>3. Moved(h, b, c, z) = Moved(g, b, c, s)
      <4>1. CASE to = 1
        <5>1. ~(b < to) /\ z.at = "open"
          BY <4>1, <3>1, <1>2
        <5> QED BY <5>1, <1>2 DEF Moved
      <4>2. CASE to # 1
        <5>1. z.at = "rename" /\ z.to = fr /\ (b < to <=> b < fr)
          BY <4>2, <3>1, <2>2, <1>2, <1>3
        <5> QED BY <5>1, <1>2 DEF Moved
      <4> QED BY <4>1, <4>2
    <3> QED BY <3>2, <3>3
  <2> QED BY <2>1, <2>2
<1>6. z.at = "open" => 0 \notin DOMAIN h
  BY <1>2, <1>3, <1>4
<1>7. z.at # "remove"
  OBVIOUS
<1>8. \A m \in w : ~InFiles(h, m) => m + RoomFor(c.backups, c) <= n
  BY DEF RolledDue
<1> QED BY <1>1, <1>5, <1>6, <1>7, <1>8 DEF RolledDue

LEMMA RollRenameKeeps ==
    ASSUME FilesInv, RollRename
    PROVE  FilesInv'
<1>1. /\ step.at = "rename" /\ Rename(step.to - 1, step.to)
      /\ UNCHANGED <<kind, data, fds, fd, conf, logsDay, time, reo, sent, written, timeOf, gap,
                     hand, ctl>>
  BY DEF RollRename
<1>2. kind = "rolling" /\ step \in Steps /\ conf.backups \in Nat /\ step.to \in Nat
  BY <1>1 DEF FilesInv, FilesTyped, RollSteps, ConfType, Steps
<1>3. IF step.to = 1 THEN step'.at = "open" ELSE step'.at = "rename" /\ step'.to = step.to - 1
  BY <1>1, <1>2 DEF RollRename, Steps, Idle
<1>4. PICK g, h : g = View /\ h = View'
  OBVIOUS
<1>5. NamesOk(disk', Len(data)) /\ RenamedTo(g, h, step.to - 1, step.to) /\ ViewOk(g)
  BY <1>1, <1>2, <1>4, RenameStep, ViewNow
<1>6. step' \in Steps /\ step.to > 0
  <2>0. step.to > 0
    BY <1>1 DEF FilesInv, RollSteps
  <2>1. CASE step.to = 1
    BY <2>1, <2>0 DEF RollRename, Steps, Idle
  <2>2. CASE step.to > 1
    <3>1. step' = [step EXCEPT !.to = step.to - 1]
      BY <2>2, <1>2 DEF RollRename
    <3> QED BY <2>0, <2>2, <3>1, <1>2 DEF Steps
  <2> QED BY <2>0, <2>1, <2>2, <1>2
<1>7. FilesTyped'
  BY <1>1, <1>5, <1>6 DEF FilesInv, FilesTyped, Today
<1>8. Descriptors' /\ RollSteps'
  <2>1. step'.at \in {"open", "rename"} /\ (step'.at = "rename" => step'.to > 0)
    BY <1>2, <1>3, <1>6
  <2> QED BY <2>1, <1>1, <1>2 DEF Descriptors, RollSteps
<1>9. ASSUME ~gap'
      PROVE  Logged' /\ step.to \notin DOMAIN g /\ \A m : InFiles(h, m) <=> InFiles(g, m)
  <2>1. Logged
    BY <1>1, <1>9 DEF FilesInv
  <2>2. /\ step.to <= conf.backups /\ step.to \notin DOMAIN g
        /\ \A n \in DOMAIN g : n <= conf.backups
    BY <2>1, <1>1, <1>2, <1>4 DEF Logged, Rolled
  <2>3. DOMAIN g \subseteq Nat
    BY <1>5 DEF ViewOk
  <2>4. /\ InSequence(kind, h, written, timeOf, time)
        /\ \A m : InFiles(h, m) <=> InFiles(g, m)
    <3>1. InSequence(kind, g, written, timeOf, time)
      BY <2>1, <1>4 DEF Logged
    <3>2. \A c \in DOMAIN g \ {step.to - 1} :
              /\ Before(kind, c, step.to) => Before(kind, c, step.to - 1)
              /\ Before(kind, step.to, c) => Before(kind, step.to - 1, c)
      BY <2>2, <2>3, <1>2, <1>6 DEF Before
    <3>3. ~Before(kind, step.to, step.to)
      BY <1>2 DEF Before
    <3>4. PICK k, a, b : k = kind /\ a = step.to - 1 /\ b = step.to
      OBVIOUS
    <3>5. /\ b \in Nat /\ b \notin DOMAIN g /\ RenamedTo(g, h, a, b)
          /\ InSequence(k, g, written, timeOf, time) /\ ~Before(k, b, b)
      BY <3>1, <3>3, <3>4, <2>2, <1>2, <1>5
    <3>6. \A c \in DOMAIN g \ {a} :
              /\ Before(k, c, b) => Before(k, c, a)
              /\ Before(k, b, c) => Before(k, a, c)
      BY <3>2, <3>4
    <3>7. /\ InSequence(k, h, written, timeOf, time)
          /\ \A m : InFiles(h, m) <=> InFiles(g, m)
      BY <3>5, <3>6, <1>5, RenamedInSequence
    <3> QED BY <3>4, <3>7
  <2>5. /\ InUse' /\ PlainFile(kind, h, written) /\ Dated(kind, h, logsDay, timeOf, step', ctl = 0)
        /\ Undated(kind, h, logsDay, step', hand)
    <3>1. step'.at \in {"open", "rename"}
      BY <1>3
    <3> QED BY <3>1, <1>2 DEF InUse, PlainFile, Dated, Undated
  <2>6. Rolled(kind, h, conf.backups, step')
    <3>1. /\ DOMAIN h \subseteq DOMAIN g \cup {step.to}
          /\ step.to - 1 \notin DOMAIN h
      <4>1. PICK a, b : a = step.to - 1 /\ b = step.to
        OBVIOUS
      <4>2. RenamedTo(g, h, a, b) /\ b # a /\ b \notin DOMAIN g
        BY <4>1, <2>2, <1>2, <1>5
      <4>3. /\ a \in DOMAIN g => DOMAIN h = (DOMAIN g \ {a}) \cup {b}
            /\ a \notin DOMAIN g => h = g
            /\ a \notin DOMAIN h
        BY <4>2, RenamedFacts
      <4> QED BY <4>1, <4>3
    <3>2. \A n \in DOMAIN h : n <= conf.backups
      BY <3>1, <2>2
    <3>3. step'.at = "rename" => step'.to > 0 /\ step'.to <= conf.backups /\ step'.to \notin DOMAIN h
      BY <3>1, <2>2, <1>2, <1>3, <1>6
    <3>4. step'.at # "remove"
      BY <1>3
    <3> QED BY <3>2, <3>3, <3>4 DEF Rolled
  <2> QED BY <2>2, <2>4, <2>5, <2>6, <1>1, <1>4 DEF Logged
<1>10. ASSUME ~gap', ctl' = 0 PROVE Alone'
  <2>1. Alone /\ Logged
    BY <1>1, <1>10 DEF FilesInv
  <2>2. RolledDue(g, conf, step, sent, written)
    BY <2>1, <1>1, <1>2, <1>4 DEF Alone, RollingKept
  <2>3. \A a \in DOMAIN g : Msgs(g[a]) \subseteq written
    BY <2>1, <1>4, <1>5, MsgsAre DEF Logged, InSequence
  <2>4. conf \in ConfType(0) /\ sent \in Nat
    BY DEF FilesInv, FilesTyped
  <2>5. RolledDue(h, conf, step', sent, written)
    BY <2>2, <2>3, <2>4, <1>1, <1>2, <1>3, <1>5, <1>6, <1>9, <1>10, RenamedDue
  <2>6. RollingKept(kind, h, conf, step', sent, written, fd \in DOMAIN fds)
    <3>1. step'.at # "idle"
      BY <1>3
    <3> QED BY <2>5, <3>1 DEF RollingKept
  <2>7. DailyKept(kind, h, conf, written, timeOf, time)
    BY <1>2 DEF DailyKept
  <2> QED BY <2>1, <2>6, <2>7, <1>1, <1>4 DEF Alone
<1> QED BY <1>7, <1>8, <1>9, <1>10 DEF FilesInv

LEMMA RollToDateKeeps ==
    ASSUME FilesInv, RollToDate
    PROVE  FilesInv'
<1>1. /\ step.at = "date" /\ Rename(0, logsDay)
      /\ gap' = (gap \/ (hand /\ {0, logsDay} \subseteq DOMAIN disk))
      /\ UNCHANGED <<kind, data, fds, fd, conf, logsDay, time, reo, sent, written, timeOf,
                     hand, ctl>>
  BY DEF RollToDate
<1>2. kind = "daily" /\ step \in Steps /\ logsDay \in Nat \ {0} /\ hand \in BOOLEAN
  BY <1>1, TimeNow DEF FilesInv, FilesTyped, RollSteps
<1>3. step' \in Steps /\ step'.at = "open" /\ step'.now = step.now
  BY <1>2 DEF RollToDate, Steps
<1>4. PICK g, h, l : g = View /\ h = View' /\ l = logsDay
  OBVIOUS
<1>5. /\ NamesOk(disk', Len(data)) /\ RenamedTo(g, h, 0, l) /\ ViewOk(g) /\ DOMAIN g \subseteq Nat
      /\ DOMAIN g = DOMAIN disk
  BY <1>1, <1>2, <1>4, RenameStep, ViewNow DEF ViewOk
<1>6. FilesTyped'
  <2>1. gap' \in BOOLEAN
    BY <1>1
  <2> QED BY <2>1, <1>1, <1>3, <1>5 DEF FilesInv, FilesTyped, Today
<1>7. Descriptors' /\ RollSteps'
  BY <1>1, <1>2, <1>3 DEF FilesInv, Descriptors, RollSteps, ToBeDated, Today
<1>8. ASSUME ~gap'
      PROVE  Logged' /\ \A m : InFiles(h, m) <=> InFiles(g, m)
  <2>0. ~gap /\ ~(hand /\ {0, logsDay} \subseteq DOMAIN disk)
    BY <1>1, <1>8
  <2>1. Logged
    BY <2>0 DEF FilesInv
  <2>2. /\ \A d \in DOMAIN g \ {0} : d <= l /\ DatedBy(g[d], d, timeOf, ctl = 0)
        /\ 0 \in DOMAIN g => DatedBy(g[0], l, timeOf, ctl = 0)
    BY <2>1, <1>1, <1>2, <1>4 DEF Logged, Dated
  <2>a. 0 \notin DOMAIN g \/ l \notin DOMAIN g
    <3>1. CASE hand
      BY <3>1, <2>0, <1>4, <1>5
    <3>2. CASE ~hand
      BY <3>2, <2>1, <1>1, <1>2, <1>4 DEF Logged, Undated
    <3> QED BY <3>1, <3>2
  <2>b. CASE 0 \notin DOMAIN g
    <3>1. h = g
      BY <2>b, <1>5 DEF RenamedTo
    <3>2. InUse' /\ PlainFile(kind, h, written) /\ Rolled(kind, h, conf.backups, step')
      BY <1>2, <1>3 DEF InUse, PlainFile, Rolled
    <3>3. Dated(kind, h, l, timeOf, step', ctl = 0) /\ Undated(kind, h, l, step', hand)
      BY <2>b, <2>2, <3>1, <1>3 DEF Dated, Undated
    <3> QED BY <2>1, <3>1, <3>2, <3>3, <1>1, <1>4 DEF Logged
  <2>c. CASE 0 \in DOMAIN g /\ l \notin DOMAIN g
    <3>1. /\ InSequence(kind, h, written, timeOf, time)
          /\ \A m : InFiles(h, m) <=> InFiles(g, m)
      <4>1. InSequence(kind, g, written, timeOf, time)
        BY <2>1, <1>4 DEF Logged
      <4>2. \A c \in DOMAIN g \ {0} :
                /\ Before(kind, c, l) => Before(kind, c, 0)
                /\ Before(kind, l, c) => Before(kind, 0, c)
        <5> SUFFICES ASSUME NEW c \in DOMAIN g \ {0}
                     PROVE  Before(kind, c, 0) /\ ~Before(kind, l, c)
          OBVIOUS
        <5>1. c <= l /\ c \in Nat
          BY <2>2, <1>5
        <5> QED BY <5>1, <1>2, <1>4 DEF Before
      <4>3. ~Before(kind, l, l) /\ l \in Nat
        BY <1>2, <1>4 DEF Before
      <4> QED BY <4>1, <4>2, <4>3, <2>c, <1>5, RenamedInSequence
    <3>2. InUse' /\ PlainFile(kind, h, written) /\ Rolled(kind, h, conf.backups, step')
      BY <1>2, <1>3 DEF InUse, PlainFile, Rolled
    <3>3. Dated(kind, h, l, timeOf, step', ctl = 0)
      <4>1. /\ DOMAIN h = (DOMAIN g \ {0}) \cup {l} /\ h[l] = g[0]
            /\ \A n \in DOMAIN g \ {0} : h[n] = g[n]
            /\ 0 \notin DOMAIN h
        <5>1. RenamedTo(g, h, 0, l) /\ l # 0 /\ l \notin DOMAIN g
          BY <2>c, <1>2, <1>4, <1>5
        <5>2. /\ 0 \in DOMAIN g =>
                    /\ DOMAIN h = (DOMAIN g \ {0}) \cup {l} /\ h[l] = g[0]
                    /\ \A n \in DOMAIN g \ {0} : h[n] = g[n]
              /\ 0 \notin DOMAIN g => h = g
              /\ 0 \notin DOMAIN h
          BY <5>1, RenamedFacts
        <5> QED BY <5>2, <2>c
      <4>2. \A d \in DOMAIN h \ {0} : d <= l /\ DatedBy(h[d], d, timeOf, ctl = 0)
        <5>1. l <= l
          BY <1>2, <1>4
        <5> QED BY <5>1, <4>1, <2>2, <2>c
      <4> QED BY <4>1, <4>2, <1>3 DEF Dated
    <3>4. Undated(kind, h, l, step', hand)
      BY <1>3 DEF Undated
    <3> QED BY <3>1, <3>2, <3>3, <3>4, <1>1, <1>4 DEF Logged
  <2> QED BY <2>a, <2>b, <2>c
<1>9. ASSUME ~gap', ctl' = 0 PROVE Alone'
  <2>1. Alone
    BY <1>1, <1>9 DEF FilesInv
  <2>2. DailyKept(kind, h, conf, written, timeOf, time)
    BY <2>1, <1>4, <1>8, <1>9 DEF Alone, DailyKept
  <2>3. RollingKept(kind, h, conf, step', sent, written, fd \in DOMAIN fds)
    BY <1>2 DEF RollingKept
  <2> QED BY <2>1, <2>2, <2>3, <1>1, <1>4 DEF Alone
<1> QED BY <1>6, <1>7, <1>8, <1>9 DEF FilesInv

\* When no file can be opened: what is due is there.
LEMMA DueKept ==
    ASSUME NEW g, NEW c \in ConfType(0), NEW s, NEW n \in Nat, NEW w, RolledDue(g, c, s, n, w)
    PROVE  KeptDue(g, c, w)
<1> SUFFICES ASSUME NEW m \in w, ~InFiles(g, m)
             PROVE  ~(Cardinality({q \in w : q > m}) < c.backups * c.size)
  BY DEF KeptDue
<1>1. w = 1..n /\ m + c.backups * c.size <= n /\ c.backups * c.size \in Nat
  BY DEF RolledDue, RoomFor, ConfType
<1>2. {q \in w : q > m} = (m + 1)..n /\ m \in Nat
  BY <1>1
<1>3. Cardinality((m + 1)..n) = IF m + 1 > n THEN 0 ELSE n - (m + 1) + 1
  BY <1>2, FS_Interval
<1>4. PICK k : k = c.backups * c.size
  OBVIOUS
<1>5. k \in Nat /\ m + k <= n
  BY <1>1, <1>4
<1>6. ~(Cardinality((m + 1)..n) < k)
  BY <1>2, <1>3, <1>5
<1> QED BY <1>2, <1>4, <1>6

LEMMA RollOpenFailsKeeps ==
    ASSUME FilesInv, RollOpenFails
    PROVE  FilesInv'
<1>1. /\ step.at = "open" /\ fd' = 0
      /\ UNCHANGED <<kind, disk, data, fds, conf, logsDay, time, reo, sent, written, timeOf, gap,
                     hand, ctl>>
  BY DEF RollOpenFails
<1>2. kind \in {"rolling", "daily"} /\ step \in Steps /\ 0 \notin DOMAIN fds
  BY <1>1 DEF FilesInv, FilesTyped, RollSteps, FdsOk
<1>3. /\ step' \in Steps
      /\ kind = "rolling" => step'.at = "idle"
      /\ kind = "daily" => step'.at = "expire" /\ step'.now = step.now
  <2>1. CASE kind = "daily"
    BY <1>2, <2>1 DEF RollOpenFails, Steps
  <2>2. CASE kind = "rolling"
    BY <2>2 DEF RollOpenFails, Steps, Idle
  <2> QED BY <1>2, <2>1, <2>2
<1>4. FilesTyped'
  BY <1>1, <1>3 DEF FilesInv, FilesTyped, Today
<1>5. Descriptors' /\ RollSteps'
  <2>1. Descriptors'
    BY <1>1, <1>2 DEF Descriptors, FilesInv, FilesTyped
  <2> QED BY <2>1, <1>1, <1>2, <1>3 DEF FilesInv, RollSteps, ToBeDated, Today
<1>6. View' = View
  BY <1>1 DEF View
<1>7. ASSUME ~gap' PROVE Logged'
  <2>1. Logged
    BY <1>1, <1>7 DEF FilesInv
  <2>2. InUse'
    BY <1>1, <1>2 DEF InUse
  <2>3. Rolled(kind, View, conf.backups, step')
    BY <2>1, <1>2, <1>3 DEF Logged, Rolled
  <2>4. Dated(kind, View, logsDay, timeOf, step', ctl = 0)
    BY <2>1, <1>1, <1>2, <1>3 DEF Logged, Dated
  <2>5. Undated(kind, View, logsDay, step', hand)
    BY <1>2, <1>3 DEF Undated
  <2> QED BY <2>1, <2>2, <2>3, <2>4, <2>5, <1>1, <1>6 DEF Logged
<1>8. ASSUME ~gap', ctl' = 0 PROVE Alone'
  <2>1. Alone
    BY <1>1, <1>8 DEF FilesInv
  <2>2. RollingKept(kind, View, conf, step', sent, written, fd' \in DOMAIN fds')
    <3> SUFFICES ASSUME kind = "rolling" PROVE KeptDue(View, conf, written)
      BY <1>1, <1>2, <1>3 DEF RollingKept
    <3>1. RolledDue(View, conf, step, sent, written)
      BY <2>1, <1>1 DEF Alone, RollingKept
    <3> QED BY <3>1, DueKept DEF FilesInv, FilesTyped
  <2> QED BY <2>1, <2>2, <1>1, <1>6 DEF Alone
<1> QED BY <1>4, <1>5, <1>7, <1>8 DEF FilesInv

LEMMA RollOpenKeeps ==
    ASSUME FilesInv, RollOpen
    PROVE  FilesInv'
<1>1. /\ step.at = "open" /\ Open(conf.trunc) /\ gap' = (gap \/ (ctl # 0 /\ Truncates(conf.trunc)))
      /\ fd' = Free /\ fds' = With(fds, Free, OpenedInode)
      /\ UNCHANGED <<kind, conf, logsDay, time, reo, sent, written, timeOf, hand, ctl>>
  BY DEF RollOpen
<1>2. kind \in {"rolling", "daily"} /\ step \in Steps
  BY <1>1 DEF FilesInv, FilesTyped, RollSteps
<1>3. /\ step' \in Steps
      /\ kind = "rolling" => step'.at = "idle"
      /\ kind = "daily" => step'.at = "expire" /\ step'.now = step.now
  <2>1. CASE kind = "daily"
    BY <1>2, <2>1 DEF RollOpen, Steps
  <2>2. CASE kind = "rolling"
    BY <2>2 DEF RollOpen, Steps, Idle
  <2> QED BY <1>2, <2>1, <2>2
<1>4. Free \in Nat \ {0} /\ Free \notin DOMAIN fds
  BY FreeIsFree DEF FilesInv, FilesTyped
<1>5. FdsOk(fds', Len(data'))
  BY <1>1, <1>4, OpenStep, DataLength, FdsWith DEF FilesInv, FilesTyped
<1>6. DOMAIN fds' = DOMAIN fds \cup {Free} /\ fds'[Free] = OpenedInode
  BY <1>1 DEF With
<1>7. gap' \in BOOLEAN
  BY <1>1
<1>8. reo \in {0} \cup DOMAIN fds
  BY DEF FilesInv, FilesTyped
<1>9. FilesTyped'
  <2>1. InodesOk(data', time) /\ NamesOk(disk', Len(data'))
    BY <1>1, OpenStep
  <2> QED BY <2>1, <1>1, <1>3, <1>4, <1>5, <1>6, <1>7, <1>8 DEF FilesInv, FilesTyped, Today
<1>10. Descriptors' /\ RollSteps'
  <2>1. Descriptors'
    BY <1>1, <1>4, <1>6, <1>8 DEF Descriptors
  <2> QED BY <2>1, <1>1, <1>2, <1>3 DEF FilesInv, RollSteps, ToBeDated, Today
<1>11. PICK g, h : g = View /\ h = View'
  OBVIOUS
<1>14. ASSUME ~gap' PROVE ~gap /\ ~Truncates(conf.trunc)
  <2>1. ~gap /\ (ctl = 0 \/ ~Truncates(conf.trunc))
    BY <1>1, <1>14
  <2>2. DOMAIN g = DOMAIN disk /\ (0 \in DOMAIN disk => g[0] = data[disk[0]])
    BY <1>11, ViewNow DEF View, ViewOf
  <2>3. CASE kind = "daily"
    <3>1. 0 \in DOMAIN g => g[0].text = << >>
      BY <2>1, <2>3, <1>1, <1>11 DEF FilesInv, Logged, Dated
    <3> QED BY <3>1, <2>1, <2>2 DEF Truncates
  <2>4. CASE kind = "rolling" /\ ctl = 0
    <3>1. RolledDue(g, conf, step, sent, written)
      BY <2>1, <2>4, <1>1, <1>11 DEF FilesInv, Alone, RollingKept
    <3>2. 0 \notin DOMAIN g
      BY <3>1, <1>1 DEF RolledDue
    <3> QED BY <3>2, <2>1, <2>2 DEF Truncates
  <2> QED BY <2>1, <2>3, <2>4, <1>2
<1>12. ASSUME ~gap' PROVE Logged' /\ \A m : InFiles(h, m) <=> InFiles(g, m)
  <2>1. ~gap /\ ~Truncates(conf.trunc)
    BY <1>12, <1>14
  <2>2. /\ InSequence(kind, h, written, timeOf, time) /\ PlainFile(kind, h, written)
        /\ Rolled(kind, h, conf.backups, step)
        /\ Dated(kind, h, logsDay, timeOf, step, ctl = 0)
        /\ \A m : InFiles(h, m) <=> InFiles(g, m)
    BY <2>1, <1>1, <1>11, OpenLogged
  <2>3. InUse'
    <3>1. 0 \in DOMAIN disk' /\ disk'[0] = OpenedInode
      <4>1. DOMAIN disk' = DOMAIN disk \cup {0} /\ disk'[0] = OpenedInode
        BY <1>1, OpenStep
      <4> QED BY <4>1
    <3> QED BY <3>1, <1>1, <1>6 DEF InUse
  <2>4. Rolled(kind, h, conf.backups, step')
    BY <2>2, <1>2, <1>3 DEF Rolled
  <2>5. Dated(kind, h, logsDay, timeOf, step', ctl = 0)
    BY <2>2, <1>1, <1>2, <1>3 DEF Dated
  <2>6. Undated(kind, h, logsDay, step', hand)
    BY <1>2, <1>3 DEF Undated
  <2> QED BY <2>2, <2>3, <2>4, <2>5, <2>6, <1>1, <1>11 DEF Logged
<1>13. ASSUME ~gap', ctl' = 0 PROVE Alone'
  <2>1. ~gap /\ ~Truncates(conf.trunc) /\ Alone
    BY <1>1, <1>13, <1>14 DEF FilesInv
  <2>2. DailyKept(kind, h, conf, written, timeOf, time)
    BY <2>1, <1>11, <1>12, <1>13 DEF Alone, DailyKept
  <2>3. ASSUME kind = "rolling" PROVE RolledDue(h, conf, step', sent, written)
    <3>1. RolledDue(g, conf, step, sent, written)
      BY <2>1, <2>3, <1>1, <1>11 DEF Alone, RollingKept
    <3>2. Opened(g, h, time) /\ ViewOk(g) /\ 0 \notin DOMAIN g /\ time \in Nat
      BY <3>1, <2>1, <1>1, <1>11, OpenStep, ViewNow, TimeNow DEF RolledDue
    <3>3. /\ DOMAIN h = DOMAIN g \cup {0} /\ \A b \in DOMAIN g : h[b] = g[b]
          /\ h[0].text = << >>
      BY <3>2, OpenedFacts
    <3>4. step'.at = "idle"
      BY <2>3, <1>3
    <3>5. \A b : Moved(h, b, conf, step') = 0 /\ Moved(g, b, conf, step) = 0
      BY <3>3, <3>4, <1>1 DEF Moved
    <3>6. \A b \in DOMAIN h \ {0} : \A q \in Msgs(h[b]) :
              q + RoomFor(b - 1, conf) + Moved(h, b, conf, step') <= sent
      BY <3>1, <3>3, <3>5 DEF RolledDue
    <3>7. \A m \in written : ~InFiles(h, m) => m + RoomFor(conf.backups, conf) <= sent
      BY <3>1, <1>12, <1>13 DEF RolledDue
    <3>8. written = 1..sent
      BY <3>1 DEF RolledDue
    <3> QED BY <3>4, <3>6, <3>7, <3>8 DEF RolledDue
  <2>4. RollingKept(kind, h, conf, step', sent, written, fd' \in DOMAIN fds')
    BY <2>3, <1>1, <1>6 DEF RollingKept
  <2> QED BY <2>1, <2>2, <2>4, <1>1, <1>11 DEF Alone
<1> QED BY <1>9, <1>10, <1>12, <1>13 DEF FilesInv
-----------------------------------------------------------------------------
\* A message is logged: its time is recorded.
LEMMA AppendDays ==
    ASSUME FilesInv, timeOf' = Append(timeOf, time), sent' = sent + 1
    PROVE  /\ timeOf' \in Seq(1..MaxTime) /\ Len(timeOf') = sent' /\ sent \in Nat
           /\ timeOf'[sent'] = time
           /\ \A q \in written : timeOf'[q] = timeOf[q] /\ timeOf'[q] \in Nat
           /\ written \subseteq 1..sent
           /\ ~gap => /\ InSequence(kind, View, written, timeOf', time)
                      /\ Dated(kind, View, logsDay, timeOf', step, ctl = 0)
           /\ ~gap /\ ctl = 0 => DailyKept(kind, View, conf, written, timeOf', time)
<1>1. /\ timeOf \in Seq(1..MaxTime) /\ Len(timeOf) = sent /\ sent \in Nat /\ written \subseteq 1..sent
      /\ time \in 1..MaxTime /\ time \in Nat
  BY TimeNow DEF FilesInv, FilesTyped
<1>2. /\ timeOf' \in Seq(1..MaxTime) /\ Len(timeOf') = sent' /\ timeOf'[sent'] = time
      /\ \A q \in 1..sent : timeOf'[q] = timeOf[q]
  <2>1. PICK T : T = 1..MaxTime
    OBVIOUS
  <2>2. timeOf \in Seq(T) /\ time \in T
    BY <2>1, <1>1
  <2>3. /\ timeOf' \in Seq(T) /\ Len(timeOf') = sent' /\ timeOf'[sent'] = time
        /\ \A q \in 1..sent : timeOf'[q] = timeOf[q]
    BY <2>2, <1>1, AppendProperties
  <2> QED BY <2>1, <2>3
<1>3. \A q \in written : timeOf'[q] = timeOf[q] /\ timeOf'[q] \in Nat
  BY <1>1, <1>2, DaysNow
<1>4. PICK dz, g : dz = timeOf' /\ g = View
  OBVIOUS
<1>5. ASSUME ~gap
      PROVE  /\ InSequence(kind, g, written, dz, time)
             /\ Dated(kind, g, logsDay, dz, step, ctl = 0)
  <2>1. InSequence(kind, g, written, timeOf, time) /\ Dated(kind, g, logsDay, timeOf, step, ctl = 0)
    BY <1>4, <1>5 DEF FilesInv, Logged
  <2>2. \A q \in written : dz[q] = timeOf[q]
    BY <1>3, <1>4
  <2>3. ViewOk(g) /\ time <= time
    BY <1>1, <1>4, ViewNow
  <2>4. InSequence(kind, g, written, dz, time)
    BY <2>1, <2>2, <2>3, <1>1, TimePasses
  <2>5. \A n \in DOMAIN g : \A i \in DOMAIN g[n].text : g[n].text[i] \in written
    BY <2>1 DEF InSequence, Whole
  <2>6. ASSUME NEW n \in DOMAIN g, NEW d, DatedBy(g[n], d, timeOf, ctl = 0)
        PROVE  DatedBy(g[n], d, dz, ctl = 0)
    <3>1. \A i \in DOMAIN g[n].text : dz[g[n].text[i]] = timeOf[g[n].text[i]]
      BY <2>2, <2>5
    <3> QED BY <2>6, <3>1 DEF DatedBy
  <2>7. Dated(kind, g, logsDay, dz, step, ctl = 0)
    BY <2>1, <2>6 DEF Dated
  <2> QED BY <2>4, <2>7
<1>6. ASSUME ~gap, ctl = 0 PROVE DailyKept(kind, g, conf, written, dz, time)
  BY <1>3, <1>4, <1>6 DEF FilesInv, Alone, DailyKept
<1> QED BY <1>1, <1>2, <1>3, <1>4, <1>5, <1>6

\* A daily appender takes the time, to roll over first or to write.
LEMMA AppendDaily ==
    ASSUME FilesInv, AppendEvent, kind = "daily"
    PROVE  FilesInv'
<1>1. /\ step = Idle /\ sent' = sent + 1 /\ timeOf' = Append(timeOf, time)
      /\ step' = IF Today # logsDay THEN [at |-> "close", now |-> Today, to |-> 0]
                 ELSE [at |-> "write", now |-> 0, to |-> 0]
      /\ UNCHANGED <<kind, data, written, disk, fds, fd, conf, logsDay, time, reo, gap, hand, ctl>>
  BY DEF AppendEvent, Idle
<1>2. /\ timeOf' \in Seq(1..MaxTime) /\ Len(timeOf') = sent' /\ sent \in Nat /\ timeOf'[sent'] = time
      /\ written \subseteq 1..sent
  BY <1>1, AppendDays
<1>3. /\ step.at = "idle" /\ time \in Nat /\ logsDay \in 1..Today /\ Today \in Nat \ {0}
      /\ LocalDay[time] = Today
  BY <1>1, TimeNow DEF Idle
<1>4. /\ step' \in Steps
      /\ \/ step'.at = "close" /\ step'.now = Today /\ logsDay < Today
         \/ step'.at = "write" /\ logsDay = Today
  <2>1. CASE Today # logsDay
    <3>1. step' = [at |-> "close", now |-> Today, to |-> 0] /\ logsDay < Today
      BY <2>1, <1>1, <1>3
    <3> QED BY <3>1, <1>3 DEF Steps
  <2>2. CASE Today = logsDay
    <3>1. step' = [at |-> "write", now |-> 0, to |-> 0]
      BY <2>2, <1>1
    <3> QED BY <2>2, <3>1 DEF Steps
  <2> QED BY <2>1, <2>2
<1>5. FilesTyped'
  BY <1>1, <1>2, <1>3, <1>4 DEF FilesInv, FilesTyped, Today
<1>6. Descriptors'
  BY <1>1, <1>3, <1>4 DEF FilesInv, Descriptors
<1>7. RollSteps'
  <2>1. ToBeDated(Today)'
    <3>1. sent' > 0 /\ sent' \notin written' /\ timeOf'[sent'] <= time' /\ Today' = Today
      BY <1>1, <1>2, <1>3 DEF Today
    <3> QED BY <3>1, <1>2, <1>3 DEF ToBeDated
  <2>2. Today' = Today
    BY <1>1 DEF Today
  <2>3. CASE step'.at = "close"
    <3>1. step'.now = Today /\ logsDay < Today /\ Today <= Today
      BY <2>3, <1>3, <1>4
    <3> QED BY <2>1, <2>2, <2>3, <3>1, <1>1 DEF RollSteps
  <2>4. CASE step'.at = "write"
    <3>1. logsDay' = Today'
      BY <2>2, <2>4, <1>1, <1>4
    <3> QED BY <2>1, <2>4, <3>1, <1>1 DEF RollSteps
  <2> QED BY <2>3, <2>4, <1>4
<1>8. View' = View
  BY <1>1 DEF View
<1>9. ASSUME ~gap' PROVE Logged'
  <2>1. Logged /\ ~gap
    BY <1>1, <1>9 DEF FilesInv
  <2>2. /\ InSequence(kind, View, written, timeOf', time)
        /\ Dated(kind, View, logsDay, timeOf', step, ctl = 0)
    BY <2>1, <1>1, AppendDays
  <2>3. step'.at \in {"close", "write"}
    BY <1>4
  <2>4. Dated(kind, View, logsDay, timeOf', step', ctl = 0) /\ Undated(kind, View, logsDay, step', hand)
    BY <2>1, <2>2, <2>3, <1>3 DEF Dated, Undated, Logged
  <2>5. InUse'
    BY <2>1, <2>3, <1>1, <1>3 DEF InUse, Logged
  <2>6. Rolled(kind, View, conf.backups, step') /\ PlainFile(kind, View, written)
    BY DEF Rolled, PlainFile
  <2> QED BY <2>2, <2>4, <2>5, <2>6, <1>1, <1>8 DEF Logged
<1>10. ASSUME ~gap', ctl' = 0 PROVE Alone'
  <2>1. Alone /\ DailyKept(kind, View, conf, written, timeOf', time)
    BY <1>1, <1>10, AppendDays DEF FilesInv
  <2>2. RollingKept(kind, View, conf, step', sent', written, fd \in DOMAIN fds)
    BY DEF RollingKept
  <2> QED BY <2>1, <2>2, <1>1, <1>8 DEF Alone
<1> QED BY <1>5, <1>6, <1>7, <1>9, <1>10 DEF FilesInv

\* No file is open.
LEMMA AppendFails ==
    ASSUME FilesInv, AppendEvent, kind # "daily", fd \notin DOMAIN fds
    PROVE  FilesInv'
<1>1. /\ step = Idle /\ sent' = sent + 1 /\ timeOf' = Append(timeOf, time) /\ step' = Idle
      /\ UNCHANGED <<kind, data, written, disk, fds, fd, conf, logsDay, time, reo, gap, hand, ctl>>
  BY DEF AppendEvent, Write, AfterWrite
<1>2. /\ timeOf' \in Seq(1..MaxTime) /\ Len(timeOf') = sent' /\ sent \in Nat
      /\ written \subseteq 1..sent
  BY <1>1, AppendDays
<1>3. step.at = "idle"
  BY <1>1 DEF Idle
<1>4. FilesTyped'
  BY <1>1, <1>2 DEF FilesInv, FilesTyped, Today
<1>5. Descriptors' /\ RollSteps'
  BY <1>1, <1>3 DEF FilesInv, Descriptors, RollSteps
<1>6. View' = View
  BY <1>1 DEF View
<1>7. ASSUME ~gap' PROVE Logged'
  <2>1. Logged /\ ~gap
    BY <1>1, <1>7 DEF FilesInv
  <2>2. /\ InSequence(kind, View, written, timeOf', time)
        /\ Dated(kind, View, logsDay, timeOf', step, ctl = 0)
    BY <2>1, <1>1, AppendDays
  <2>3. InUse'
    BY <1>1 DEF InUse
  <2> QED BY <2>1, <2>2, <2>3, <1>1, <1>6 DEF Logged
<1>8. ASSUME ~gap', ctl' = 0 PROVE Alone'
  <2>1. Alone /\ DailyKept(kind, View, conf, written, timeOf', time)
    BY <1>1, <1>8, AppendDays DEF FilesInv
  <2>2. RollingKept(kind, View, conf, step, sent', written, fd \in DOMAIN fds)
    BY <2>1, <1>3 DEF Alone, RollingKept
  <2> QED BY <2>1, <2>2, <1>1, <1>6 DEF Alone
<1> QED BY <1>4, <1>5, <1>7, <1>8 DEF FilesInv

\* A write to the file in use, with the files g before and h after it.
LEMMA WrittenDue ==
    ASSUME NEW g, ViewOk(g), 0 \in DOMAIN g, NEW c \in ConfType(0), NEW n \in Nat, NEW w,
           RolledDue(g, c, Idle, n, w),
           NEW h, NEW t, WrittenTo(g, h, n + 1, t),
           \A q : InFiles(h, q) <=> InFiles(g, q) \/ q = n + 1,
           NEW z, z.at = "idle" \/ (z.at = "close" /\ Len(h[0].text) >= c.size)
    PROVE  RolledDue(h, c, z, n + 1, w \cup {n + 1})
<1>0. /\ DOMAIN h = DOMAIN g /\ \A a \in DOMAIN g : a # 0 => h[a] = g[a]
      /\ Len(h[0].text) = Len(g[0].text) + 1
  <2>1. h[0].text = Append(g[0].text, n + 1) /\ g[0].text \in Seq(Nat)
    BY DEF WrittenTo, ViewOk, Inodes
  <2> QED BY <2>1, AppendProperties DEF WrittenTo
<1> USE <1>0
<1>1. w = 1..n /\ c.size \in Nat /\ Len(g[0].text) \in Nat /\ Idle.at = "idle"
  BY LenProperties DEF RolledDue, ConfType, ViewOk, Inodes, Idle
<1>2. w \cup {n + 1} = 1..(n + 1)
  BY <1>1
<1>3. ASSUME NEW b \in DOMAIN h \ {0}, NEW q \in Msgs(h[b])
      PROVE  q + RoomFor(b - 1, c) + Moved(h, b, c, z) <= n + 1
  <2>1. q + RoomFor(b - 1, c) + Moved(g, b, c, Idle) <= n /\ Moved(g, b, c, Idle) = Len(g[0].text)
    BY <1>1 DEF RolledDue, Moved
  <2>2. \/ Moved(h, b, c, z) = Len(g[0].text) + 1
        \/ Moved(h, b, c, z) = c.size /\ c.size <= Len(g[0].text) + 1
    BY <1>1 DEF Moved
  <2>3. b \in Nat \ {0} /\ h[b] = g[b] /\ g[b] \in Inodes
    BY DEF ViewOk
  <2>4. q \in Nat
    BY <2>3, ElementOfSeq DEF Msgs, Inodes
  <2>5. RoomFor(b - 1, c) \in Nat
    BY <2>3, RoomNext
  <2> QED BY <2>1, <2>2, <2>4, <2>5, <1>1
<1>4. ASSUME NEW m \in w \cup {n + 1}, ~InFiles(h, m)
      PROVE  m + RoomFor(c.backups, c) <= n + 1
  <2>1. m \in w /\ ~InFiles(g, m) /\ m \in Nat
    BY <1>1, <1>4
  <2>2. m + RoomFor(c.backups, c) <= n
    BY <2>1 DEF RolledDue
  <2>3. RoomFor(c.backups, c) \in Nat
    BY DEF RoomFor, ConfType
  <2> QED BY <2>1, <2>2, <2>3
<1> QED BY <1>2, <1>3, <1>4 DEF RolledDue

LEMMA WrittenDated ==
    ASSUME NEW k, NEW g, ViewOk(g), 0 \in DOMAIN g, NEW l \in Nat, NEW dy, NEW s, NEW x,
           Dated(k, g, l, dy, s, x), s.at \in {"idle", "close", "date", "write"},
           NEW m \in Nat, NEW t \in Nat, LocalDay[t] >= l, LocalDay[dy[m]] = l,
           NEW h, WrittenTo(g, h, m, t)
    PROVE  Dated(k, h, l, dy, Idle, x)
<1> SUFFICES ASSUME k = "daily" PROVE Dated(k, h, l, dy, Idle, x)
  BY DEF Dated
<1>0. /\ DOMAIN h = DOMAIN g /\ \A a \in DOMAIN g : a # 0 => h[a] = g[a]
      /\ h[0] = [text |-> Append(g[0].text, m), mtime |-> t]
  BY DEF WrittenTo
<1> USE <1>0
<1>1. Idle.at = "idle"
  BY DEF Idle
<1>2. /\ \A d \in DOMAIN g \ {0} : d <= l /\ DatedBy(g[d], d, dy, x)
      /\ DatedBy(g[0], l, dy, x)
  BY <1>1 DEF Dated
<1>3. PICK z, u : z = g[0].text /\ u = h[0].text
  OBVIOUS
<1>4. z \in Seq(Nat) /\ u = Append(z, m) /\ h[0].mtime = t
  BY <1>3 DEF ViewOk, Inodes
<1>5. /\ DOMAIN u = 1..(Len(z) + 1) /\ DOMAIN z = 1..Len(z) /\ Len(z) \in Nat
      /\ \A i \in 1..Len(z) : u[i] = z[i]
      /\ u[Len(z) + 1] = m
  BY <1>4, AppendProperties, LenProperties
<1>6. DatedBy(h[0], l, dy, x)
  <2> SUFFICES ASSUME NEW i \in DOMAIN u
               PROVE  LocalDay[dy[u[i]]] <= l /\ (x => LocalDay[dy[u[i]]] = l)
    BY <1>3 DEF DatedBy
  <2>1. CASE i \in 1..Len(z)
    BY <2>1, <1>2, <1>3, <1>5 DEF DatedBy
  <2>2. CASE i = Len(z) + 1
    <3>1. LocalDay[dy[u[i]]] = l
      BY <2>2, <1>5
    <3> QED BY <3>1
  <2> QED BY <2>1, <2>2, <1>5
<1>7. LocalDay[h[0].mtime] >= l
  BY <1>4
<1>8. \A d \in DOMAIN h \ {0} : d <= l /\ DatedBy(h[d], d, dy, x)
  BY <1>2
<1>9. ~(Idle.at \in {"open", "expire"})
  BY <1>1
<1> QED BY <1>6, <1>7, <1>8, <1>9 DEF Dated

\* write, on an open descriptor.
Wrote(m) == data' = [data EXCEPT ![fds[fd]] = [text |-> Append(@.text, m), mtime |-> time]]

LEMMA WroteInode ==
    ASSUME FilesInv, fd \in DOMAIN fds, NEW m \in Nat, Wrote(m)
    PROVE  /\ fds[fd] \in 1..Len(data) /\ data[fds[fd]] \in Inodes
           /\ [text |-> Append(data[fds[fd]].text, m), mtime |-> time] \in Inodes
           /\ data' = [data EXCEPT ![fds[fd]] =
                         [text |-> Append(data[fds[fd]].text, m), mtime |-> time]]
           /\ InodesOk(data', time) /\ Len(data') = Len(data)
           /\ \A i \in 1..Len(data) :
                  data'[i] = IF i = fds[fd]
                             THEN [text |-> Append(data[fds[fd]].text, m), mtime |-> time]
                             ELSE data[i]
<1>1. PICK j, r : j = fds[fd] /\ r = [text |-> Append(data[j].text, m), mtime |-> time]
  OBVIOUS
<1>2. j \in 1..Len(data) /\ time \in Nat \ {0} /\ InodesOk(data, time)
  BY <1>1, TimeNow DEF FilesInv, FilesTyped, FdsOk
<1>3. data[j] \in Inodes
  BY <1>2, ElementOfSeq DEF InodesOk
<1>4. r \in Inodes /\ r.mtime \in 1..time
  <2>1. Append(data[j].text, m) \in Seq(Nat)
    BY <1>3, AppendProperties DEF Inodes
  <2> QED BY <1>1, <1>2, <2>1 DEF Inodes
<1>5. data' = [data EXCEPT ![j] = r]
  BY <1>1 DEF Wrote
<1>6. /\ InodesOk([data EXCEPT ![j] = r], time) /\ Len([data EXCEPT ![j] = r]) = Len(data)
      /\ \A i \in 1..Len(data) : [data EXCEPT ![j] = r][i] = IF i = j THEN r ELSE data[i]
  BY <1>2, <1>4, InodeReplaced
<1> QED BY <1>1, <1>2, <1>3, <1>4, <1>5, <1>6

\* It is the file in use, under the names dk.
LEMMA WroteView ==
    ASSUME FilesInv, fd \in DOMAIN fds, NEW m \in Nat, Wrote(m),
           NEW dk, NamesOk(dk, Len(data)), 0 \in DOMAIN dk, fds[fd] = dk[0],
           NEW g, g = ViewOf(dk, data), NEW h, h = ViewOf(dk, data')
    PROVE  WrittenTo(g, h, m, time)
<1>1. \A i \in 1..Len(data) :
          data'[i] = IF i = fds[fd]
                     THEN [text |-> Append(data[fds[fd]].text, m), mtime |-> time]
                     ELSE data[i]
  BY WroteInode
<1>2. DOMAIN h = DOMAIN dk /\ DOMAIN g = DOMAIN dk
  BY DEF ViewOf
<1>3. g[0] = data[fds[fd]] /\ h[0] = data'[fds[fd]] /\ fds[fd] \in 1..Len(data)
  BY DEF ViewOf, NamesOk
<1>4. ASSUME NEW n \in DOMAIN g, n # 0 PROVE h[n] = g[n]
  <2>1. g[n] = data[dk[n]] /\ h[n] = data'[dk[n]] /\ dk[n] \in 1..Len(data) /\ dk[n] # dk[0]
    BY <1>2, <1>4 DEF ViewOf, NamesOk
  <2> QED BY <2>1, <1>1
<1> QED BY <1>1, <1>2, <1>3, <1>4 DEF WrittenTo

\* The file in use is written.
LEMMA AppendWrites ==
    ASSUME FilesInv, AppendEvent, kind # "daily", fd \in DOMAIN fds
    PROVE  FilesInv'
<1>1. /\ step = Idle /\ sent' = sent + 1 /\ timeOf' = Append(timeOf, time)
      /\ Wrote(sent + 1) /\ written' = written \cup {sent'}
      /\ UNCHANGED <<kind, disk, fds, fd, conf, logsDay, time, reo, gap, hand, ctl>>
  BY DEF AppendEvent, Write, Wrote
<1>2. step' = IF kind = "rolling" /\ Len(data'[fds[fd]].text) >= conf.size
              THEN [at |-> "close", now |-> 0, to |-> 0] ELSE Idle
  BY DEF AppendEvent, AfterWrite, MustRoll, Idle
<1>3. /\ timeOf' \in Seq(1..MaxTime) /\ Len(timeOf') = sent' /\ sent \in Nat /\ timeOf'[sent'] = time
      /\ \A q \in written : timeOf'[q] = timeOf[q] /\ timeOf'[q] \in Nat
      /\ written \subseteq 1..sent
  BY <1>1, AppendDays
<1>4. step.at = "idle" /\ time \in Nat \ {0}
  BY <1>1, TimeNow DEF Idle
<1>5. /\ step' \in Steps /\ step'.at \in {"idle", "close"}
      /\ step'.at = "close" => kind = "rolling" /\ Len(data'[fds[fd]].text) >= conf.size
      /\ kind # "rolling" => step' = Idle
  <2>1. CASE kind = "rolling" /\ Len(data'[fds[fd]].text) >= conf.size
    BY <1>2, <2>1 DEF Steps
  <2>2. CASE ~(kind = "rolling" /\ Len(data'[fds[fd]].text) >= conf.size)
    <3>1. step' = Idle /\ Idle \in Steps /\ Idle.at = "idle"
      BY <1>2, <2>2 DEF Steps, Idle
    <3> QED BY <3>1, <2>2
  <2> QED BY <2>1, <2>2
<1>6. sent + 1 \in Nat /\ InodesOk(data', time) /\ Len(data') = Len(data)
  <2>1. PICK m : m = sent + 1
    OBVIOUS
  <2>2. m \in Nat /\ Wrote(m)
    BY <2>1, <1>1, <1>3
  <2>3. InodesOk(data', time) /\ Len(data') = Len(data)
    BY <2>2, WroteInode
  <2> QED BY <2>1, <2>2, <2>3
<1>7. FilesTyped'
  <2>1. written' \subseteq 1..sent'
    BY <1>1, <1>3
  <2> QED BY <2>1, <1>1, <1>3, <1>5, <1>6 DEF FilesInv, FilesTyped, Today
<1>8. Descriptors' /\ RollSteps'
  <2>1. Descriptors'
    BY <1>1, <1>4 DEF FilesInv, Descriptors
  <2>2. RollSteps'
    <3>1. kind # "rolling" => step'.at = "idle"
      BY <1>5
    <3> QED BY <3>1, <1>1, <1>5 DEF FilesInv, FilesTyped, RollSteps
  <2> QED BY <2>1, <2>2
<1>9. PICK g, h, w, m, dz : g = View /\ h = View' /\ w = written /\ m = sent' /\ dz = timeOf'
  OBVIOUS
<1>10. ASSUME ~gap
       PROVE  Logged /\ 0 \in DOMAIN g /\ fds[fd] = disk[0] /\ WrittenTo(g, h, m, time)
  <2>1. Logged
    BY <1>10 DEF FilesInv
  <2>2. 0 \in DOMAIN disk /\ fds[fd] = disk[0]
    BY <2>1, <1>4 DEF Logged, InUse
  <2>3. NamesOk(disk, Len(data)) /\ g = ViewOf(disk, data) /\ h = ViewOf(disk, data')
    BY <1>1, <1>9 DEF FilesInv, FilesTyped, View
  <2>4. Wrote(m) /\ m \in Nat
    BY <1>1, <1>6, <1>9
  <2>5. PICK dk : dk = disk
    OBVIOUS
  <2>6. /\ NamesOk(dk, Len(data)) /\ 0 \in DOMAIN dk /\ fds[fd] = dk[0]
        /\ g = ViewOf(dk, data) /\ h = ViewOf(dk, data')
    BY <2>2, <2>3, <2>5
  <2>7. WrittenTo(g, h, m, time)
    BY <2>4, <2>6, WroteView
  <2> QED BY <2>1, <2>2, <2>7 DEF WrittenTo
<1>11. ASSUME ~gap
       PROVE  /\ InSequence(kind, h, w \cup {m}, dz, time)
              /\ \A q : InFiles(h, q) <=> InFiles(g, q) \/ q = m
  <2>1. InSequence(kind, g, w, dz, time) /\ ViewOk(g)
    BY <1>1, <1>9, <1>11, AppendDays, ViewNow
  <2>2. /\ w \subseteq Nat /\ \A q \in w : q < m /\ dz[q] \in Nat
        /\ m \in Nat /\ dz[m] <= time /\ time \in Nat
    BY <1>1, <1>3, <1>4, <1>9
  <2>3. PICK k, t : k = kind /\ t = time
    OBVIOUS
  <2>4. ViewOk(g) /\ InSequence(k, g, w, dz, t) /\ Later(w, dz, m, t) /\ WrittenTo(g, h, m, t)
    BY <2>1, <2>2, <2>3, <1>10, <1>11 DEF Later
  <2>6. /\ InSequence(k, h, w \cup {m}, dz, t)
        /\ \A q : InFiles(h, q) <=> InFiles(g, q) \/ q = m
    BY <2>4, WriteFile
  <2> QED BY <2>3, <2>6
<1>12. ASSUME ~gap' PROVE Logged'
  <2>0. ~gap
    BY <1>1, <1>12
  <2>1. InSequence(kind, h, w \cup {m}, dz, time) /\ Logged
    BY <2>0, <1>10, <1>11
  <2>2. InUse'
    BY <2>0, <1>1, <1>9, <1>10, ViewNow DEF InUse
  <2>3. PlainFile(kind, h, w \cup {m})
    <3> SUFFICES ASSUME kind = "plain" PROVE DOMAIN h = {0} /\ \A q \in w \cup {m} : InFiles(h, q)
      BY DEF PlainFile
    <3>1. DOMAIN g = {0} /\ \A q \in w : InFiles(g, q)
      BY <2>1, <1>9 DEF Logged, PlainFile
    <3> QED BY <3>1, <2>0, <1>10, <1>11 DEF WrittenTo
  <2>4. Rolled(kind, h, conf.backups, step')
    <3>1. Rolled(kind, g, conf.backups, step) /\ DOMAIN h = DOMAIN g
      BY <2>0, <2>1, <1>9, <1>10 DEF Logged, WrittenTo
    <3> QED BY <3>1, <1>5 DEF Rolled
  <2>5. Dated(kind, h, logsDay, dz, step', ctl = 0) /\ Undated(kind, h, logsDay, step', hand)
    BY DEF Dated, Undated
  <2> QED BY <2>1, <2>2, <2>3, <2>4, <2>5, <1>1, <1>9 DEF Logged
<1>13. ASSUME ~gap', ctl' = 0 PROVE Alone'
  <2>1. ~gap /\ ctl = 0 /\ Alone
    BY <1>1, <1>13 DEF FilesInv
  <2>2. DailyKept(kind, h, conf, w \cup {m}, dz, time)
    BY DEF DailyKept
  <2>3. ASSUME kind = "rolling" PROVE RolledDue(h, conf, step', m, w \cup {m})
    <3>1. RolledDue(g, conf, Idle, sent, w)
      BY <2>1, <2>3, <1>1, <1>9 DEF Alone, RollingKept
    <3>2. ViewOk(g) /\ conf \in ConfType(0) /\ sent \in Nat /\ m = sent + 1
      BY <1>1, <1>9, ViewNow DEF FilesInv, FilesTyped
    <3>3. 0 \in DOMAIN g /\ g[0].text \in Seq(Nat)
      BY <2>1, <3>2, <1>10 DEF ViewOk, Inodes
    <3>4. WrittenTo(g, h, sent + 1, time)
      BY <2>1, <3>2, <1>10
    <3>5. step'.at = "idle" \/ (step'.at = "close" /\ Len(h[0].text) >= conf.size)
      <4>1. h[0] = data'[fds[fd]]
        BY <2>1, <3>3, <1>1, <1>9, <1>10, ViewNow DEF View, ViewOf
      <4> QED BY <4>1, <1>5
    <3>6. \A q : InFiles(h, q) <=> InFiles(g, q) \/ q = sent + 1
      BY <2>1, <3>2, <1>11
    <3>7. RolledDue(h, conf, step', sent + 1, w \cup {sent + 1})
      BY <2>1, <3>1, <3>2, <3>3, <3>4, <3>5, <3>6, <1>10, WrittenDue
    <3> QED BY <3>2, <3>7
  <2>4. RollingKept(kind, h, conf, step', m, w \cup {m}, fd \in DOMAIN fds)
    BY <2>3 DEF RollingKept
  <2> QED BY <2>1, <2>2, <2>4, <1>1, <1>9 DEF Alone
<1> QED BY <1>7, <1>8, <1>12, <1>13 DEF FilesInv
-----------------------------------------------------------------------------
\* Of the files g of a daily appender those last written at time u or later
\* stay, the newest ones, or all of them.
Expired(g, h, u) ==
    \/ h = g
    \/ DOMAIN h = {n \in DOMAIN g : g[n].mtime >= u} /\ \A n \in DOMAIN h : h[n] = g[n]

LEMMA ExpiredInSequence ==
    ASSUME NEW g, ViewOk(g), NEW w, w \subseteq Nat, NEW dy, NEW t, NEW u \in Int,
           InSequence("daily", g, w, dy, t),
           NEW h, Expired(g, h, u)
    PROVE  InSequence("daily", h, w, dy, t)
<1>1. CASE h = g
  BY <1>1
<1>2. CASE DOMAIN h = {n \in DOMAIN g : g[n].mtime >= u} /\ \A n \in DOMAIN h : h[n] = g[n]
  <2>1. DOMAIN g \subseteq Nat /\ \A n \in DOMAIN g : g[n].mtime \in Nat
    BY DEF ViewOk, Inodes
  <2>2. ASSUME NEW a \in DOMAIN h, NEW c \in DOMAIN g \ DOMAIN h
        PROVE  Before("daily", c, a)
    <3>1. a \in DOMAIN g /\ ~(g[a].mtime <= g[c].mtime) /\ a # c
      BY <2>1, <1>2
    <3>2. ~Before("daily", a, c)
      BY <3>1 DEF InSequence, Sorted
    <3> QED BY <3>1, <3>2, <2>1 DEF Before
  <2>3. DOMAIN h \subseteq DOMAIN g
    BY <1>2
  <2> QED BY <2>2, <2>3, <1>2, DropFiles
<1> QED BY <1>1, <1>2 DEF Expired

LEMMA ExpiredFacts ==
    ASSUME NEW g, NEW u, NEW h, Expired(g, h, u)
    PROVE  DOMAIN h \subseteq DOMAIN g /\ \A n \in DOMAIN h : h[n] = g[n]
BY DEF Expired

\* The day after the roll-over: the one it was for, if it was for a message.
LEMMA ExpiredDated ==
    ASSUME NEW g, ViewOk(g), NEW l \in Nat, NEW dy, NEW s \in Steps, s.at = "expire", NEW x,
           Dated("daily", g, l, dy, s, x),
           NEW d \in Nat, l <= d, d = l \/ d = s.now,
           NEW u, NEW h, Expired(g, h, u), NEW z, z.at \in {"idle", "write"}
    PROVE  Dated("daily", h, d, dy, z, x)
<1>1. DOMAIN h \subseteq DOMAIN g /\ \A n \in DOMAIN h : h[n] = g[n]
  BY ExpiredFacts
<1>2. \A e \in DOMAIN h \ {0} : e <= d /\ DatedBy(h[e], e, dy, x)
  <2> SUFFICES ASSUME NEW e \in DOMAIN h \ {0} PROVE e <= d /\ DatedBy(h[e], e, dy, x)
    OBVIOUS
  <2>1. e <= l /\ DatedBy(g[e], e, dy, x)
    BY <1>1 DEF Dated
  <2>2. e \in Nat
    BY <1>1 DEF ViewOk
  <2> QED BY <2>1, <2>2, <1>1
<1>3. ASSUME 0 \in DOMAIN h PROVE LocalDay[h[0].mtime] >= d /\ DatedBy(h[0], d, dy, x)
  <2>1. /\ LocalDay[h[0].mtime] >= s.now /\ LocalDay[h[0].mtime] >= l
        /\ h[0].text = << >>
    BY <1>1, <1>3 DEF Dated
  <2> QED BY <2>1 DEF DatedBy
<1> QED BY <1>2, <1>3 DEF Dated

LEMMA RollExpireKeeps ==
    ASSUME FilesInv, RollExpire
    PROVE  FilesInv'
<1> PICK u : u = Oldest
  OBVIOUS
<1>1. /\ step.at = "expire"
      /\ \/ disk' = [n \in {x \in DOMAIN disk : data[disk[x]].mtime >= u} |-> disk[n]]
         \/ disk' = disk
      /\ gap' = (gap \/ (0 \in DOMAIN disk /\ 0 \notin DOMAIN disk'))
      /\ IF step.now = 0 THEN step' = Idle /\ logsDay' = logsDay
         ELSE step' = [Idle EXCEPT !.at = "write"] /\ logsDay' = step.now
      /\ UNCHANGED <<kind, data, fds, fd, conf, time, reo, sent, written, timeOf, hand, ctl>>
  BY DEF RollExpire
<1>2. /\ kind = "daily" /\ step \in Steps /\ step.now \in Nat
      /\ \/ step.now = 0 /\ hand
         \/ logsDay < step.now /\ step.now <= Today /\ ToBeDated(step.now)
  BY <1>1 DEF FilesInv, FilesTyped, RollSteps, Steps
<1>3. /\ logsDay \in Nat \ {0} /\ logsDay \in 1..Today /\ Today \in Nat /\ time \in Nat
      /\ written \subseteq Nat /\ NamesOk(disk, Len(data)) /\ hand \in BOOLEAN
  BY TimeNow DEF FilesInv, FilesTyped
<1>4. u \in Int /\ u = time - conf.days * DayLength
  <2>1. u = time - conf.days * DayLength /\ conf.days * DayLength \in Nat
    BY KeepsLong DEF Oldest
  <2> QED BY <2>1, <1>3
<1>5. /\ step' \in Steps /\ step'.at \in {"idle", "write"}
      /\ logsDay' \in Nat /\ logsDay <= logsDay' /\ logsDay' \in 1..Today
      /\ logsDay' = logsDay \/ logsDay' = step.now
      /\ step'.at = "write" => logsDay' = step.now /\ ToBeDated(step.now)
      /\ ~hand => logsDay < logsDay'
  <2>1. CASE step.now = 0
    <3>1. step' = [at |-> "idle", now |-> 0, to |-> 0] /\ logsDay' = logsDay
      BY <2>1, <1>1 DEF Idle
    <3>2. step' \in Steps /\ step'.at = "idle"
      BY <3>1 DEF Steps
    <3>3. hand
      <4>1. ~(logsDay < step.now)
        BY <2>1, <1>3
      <4> QED BY <4>1, <1>2
    <3> QED BY <3>1, <3>2, <3>3, <1>3
  <2>2. CASE step.now # 0
    <3>1. /\ step' = [at |-> "write", now |-> 0, to |-> 0] /\ logsDay' = step.now
          /\ logsDay < step.now /\ step.now <= Today /\ ToBeDated(step.now)
      BY <2>2, <1>1, <1>2 DEF Idle
    <3>2. step' \in Steps /\ step'.at = "write"
      BY <3>1 DEF Steps
    <3> QED BY <3>1, <3>2, <1>2, <1>3
  <2> QED BY <2>1, <2>2
<1>6. DOMAIN disk' \subseteq DOMAIN disk /\ \A a \in DOMAIN disk' : disk'[a] = disk[a]
  BY <1>1
<1>7. NamesOk(disk', Len(data))
  BY <1>3, <1>6, DataLength, NamesLess
<1>8. FilesTyped'
  <2>1. gap' \in BOOLEAN
    BY <1>1
  <2> QED BY <2>1, <1>1, <1>5, <1>7 DEF FilesInv, FilesTyped, Today
<1>9. Descriptors' /\ RollSteps'
  <2>1. Descriptors'
    BY <1>1, <1>5 DEF FilesInv, Descriptors
  <2>2. step'.at = "write" => ToBeDated(logsDay)'
    BY <1>1, <1>5 DEF ToBeDated
  <2> QED BY <2>1, <2>2, <1>1, <1>2, <1>5 DEF RollSteps
<1>10. PICK g, h : g = View /\ h = View'
  OBVIOUS
<1>11. Expired(g, h, u) /\ ViewOk(g) /\ DOMAIN g = DOMAIN disk /\ DOMAIN h = DOMAIN disk'
  <2>1. DOMAIN g = DOMAIN disk /\ \A n \in DOMAIN disk : g[n] = data[disk[n]]
    BY <1>10 DEF View, ViewOf
  <2>2. DOMAIN h = DOMAIN disk' /\ \A n \in DOMAIN disk' : h[n] = data[disk'[n]]
    BY <1>1, <1>10 DEF View, ViewOf
  <2>3. CASE disk' = disk
    BY <2>3, <1>1, <1>10, <2>1, <2>2, ViewNow DEF View, ViewOf, Expired
  <2>4. CASE disk' = [n \in {x \in DOMAIN disk : data[disk[x]].mtime >= u} |-> disk[n]]
    <3>1. DOMAIN h = {n \in DOMAIN g : g[n].mtime >= u} /\ \A n \in DOMAIN h : h[n] = g[n]
      BY <2>1, <2>2, <2>4
    <3> QED BY <3>1, <1>10, <2>1, <2>2, ViewNow DEF Expired
  <2> QED BY <2>3, <2>4, <1>1
<1>12. ASSUME ~gap' PROVE ~gap /\ Logged /\ (0 \in DOMAIN disk => 0 \in DOMAIN disk')
  BY <1>1, <1>12 DEF FilesInv
<1>13. ASSUME ~gap' PROVE Logged'
  <2>1. InSequence("daily", g, written, timeOf, time) /\ Dated("daily", g, logsDay, timeOf, step, ctl = 0)
    BY <1>2, <1>10, <1>12, <1>13 DEF Logged
  <2>2. InSequence("daily", h, written, timeOf, time)
    BY <2>1, <1>3, <1>4, <1>11, ExpiredInSequence
  <2>3. InUse'
    <3>1. step.at = "expire" /\ InUse
      BY <1>1, <1>12, <1>13 DEF Logged
    <3> QED BY <3>1, <1>1, <1>6, <1>12, <1>13 DEF InUse
  <2>4. PlainFile(kind, h, written) /\ Rolled(kind, h, conf.backups, step')
    BY <1>2 DEF PlainFile, Rolled
  <2>5. Dated("daily", h, logsDay', timeOf, step', ctl = 0)
    <3>1. PICK l, d, s, z, dy, x : /\ l = logsDay /\ d = logsDay' /\ s = step /\ z = step'
                                   /\ dy = timeOf /\ x = (ctl = 0)
      OBVIOUS
    <3>2. /\ l \in Nat /\ d \in Nat /\ l <= d /\ (d = l \/ d = s.now)
          /\ s \in Steps /\ s.at = "expire" /\ z.at \in {"idle", "write"}
      BY <3>1, <1>1, <1>2, <1>3, <1>5
    <3>3. Dated("daily", g, l, dy, s, x)
      BY <2>1, <3>1
    <3>4. Dated("daily", h, d, dy, z, x)
      BY <3>2, <3>3, <1>11, ExpiredDated
    <3> QED BY <3>1, <3>4
  <2>6. Undated(kind, h, logsDay', step', hand)
    <3> SUFFICES ASSUME ~hand PROVE logsDay' \notin DOMAIN h
      BY DEF Undated
    <3>1. \A d \in DOMAIN h \ {0} : d <= logsDay /\ d \in Nat
      BY <2>1, <1>11, ExpiredFacts DEF Dated, ViewOk
    <3> QED BY <3>1, <1>3, <1>5
  <2> QED BY <2>2, <2>3, <2>4, <2>5, <2>6, <1>1, <1>2, <1>10 DEF Logged
<1>14. ASSUME ~gap', ctl' = 0 PROVE Alone'
  <2>1. Alone /\ Logged
    BY <1>1, <1>12, <1>14 DEF FilesInv
  <2>2. \A m \in written : ~InFiles(g, m) => timeOf[m] < u
    BY <2>1, <1>2, <1>4, <1>10 DEF Alone, DailyKept
  <2>3. \A m \in written : ~InFiles(h, m) => timeOf[m] < u
    <3> SUFFICES ASSUME NEW m \in written, ~InFiles(h, m), InFiles(g, m) PROVE timeOf[m] < u
      BY <2>2
    <3>1. PICK n \in DOMAIN g : m \in Msgs(g[n])
      BY DEF InFiles
    <3>2. g[n].mtime < u /\ g[n].mtime \in Nat
      <4>1. ~(g[n].mtime >= u)
        BY <3>1, <1>11 DEF InFiles, Expired
      <4>2. g[n].mtime \in Nat
        BY <1>11 DEF ViewOk, Inodes
      <4> QED BY <4>1, <4>2, <1>4
    <3>3. timeOf[m] <= g[n].mtime
      BY <2>1, <3>1, <1>10 DEF Logged, InSequence, Whole, Msgs
    <3>4. timeOf[m] \in Nat
      BY DaysNow DEF FilesInv, FilesTyped
    <3> QED BY <3>2, <3>3, <3>4, <1>4
  <2>4. DailyKept(kind, h, conf, written, timeOf, time)
    BY <2>3, <1>4 DEF DailyKept
  <2>5. RollingKept(kind, h, conf, step', sent, written, fd \in DOMAIN fds)
    BY <1>2 DEF RollingKept
  <2> QED BY <2>1, <2>4, <2>5, <1>1, <1>10 DEF Alone
<1> QED BY <1>8, <1>9, <1>13, <1>14 DEF FilesInv

\* A daily appender writes its message, perhaps after midnight.
LEMMA WriteEventKeeps ==
    ASSUME FilesInv, WriteEvent
    PROVE  FilesInv'
<1>1. /\ step.at = "write" /\ step' = Idle
      /\ UNCHANGED <<kind, disk, fds, fd, conf, logsDay, time, reo, sent, timeOf, gap, hand, ctl>>
      /\ IF fd \in DOMAIN fds THEN Wrote(sent) /\ written' = written \cup {sent}
         ELSE UNCHANGED <<data, written>>
  BY DEF WriteEvent, Write, Wrote
<1>2. kind = "daily" /\ ToBeDated(logsDay) /\ step'.at = "idle" /\ step' \in Steps
  BY <1>1 DEF FilesInv, FilesTyped, RollSteps, Idle, Steps
<1>3. /\ sent \in Nat /\ sent > 0 /\ sent \notin written /\ written \subseteq 1..sent
      /\ timeOf[sent] <= time /\ LocalDay[timeOf[sent]] = logsDay
      /\ timeOf[sent] \in 1..MaxTime
  <2>1. /\ sent \in Nat /\ sent > 0 /\ sent \notin written /\ written \subseteq 1..sent
        /\ timeOf[sent] <= time /\ LocalDay[timeOf[sent]] = logsDay
    BY <1>2 DEF FilesInv, FilesTyped, ToBeDated
  <2>2. sent \in 1..sent
    BY <2>1
  <2> QED BY <2>1, <2>2, DaysNow
<1>4. /\ time \in 1..MaxTime /\ time \in Nat /\ logsDay \in Nat
      /\ LocalDay[time] >= logsDay
  <2>1. time \in 1..MaxTime /\ time \in Nat /\ logsDay \in Nat
    BY TimeNow
  <2>2. LocalDay[timeOf[sent]] <= LocalDay[time]
    BY <2>1, <1>3, DaysOfTimes
  <2>3. LocalDay[time] \in Nat
    BY <2>1, DaysOfTimes
  <2> QED BY <2>1, <2>2, <2>3, <1>3
<1>5. InodesOk(data', time) /\ Len(data') = Len(data)
  <2>1. CASE fd \in DOMAIN fds
    BY <2>1, <1>1, <1>3, WroteInode
  <2>2. CASE fd \notin DOMAIN fds
    BY <2>2, <1>1 DEF FilesInv, FilesTyped
  <2> QED BY <2>1, <2>2
<1>6. FilesTyped'
  <2>1. written' \subseteq 1..sent
    <3>1. sent \in 1..sent
      BY <1>3
    <3>2. written' = written \/ written' = written \cup {sent}
      BY <1>1
    <3> QED BY <3>1, <3>2, <1>3
  <2> QED BY <2>1, <1>1, <1>2, <1>5 DEF FilesInv, FilesTyped, Today
<1>7. Descriptors' /\ RollSteps'
  BY <1>1, <1>2 DEF FilesInv, Descriptors, RollSteps
<1>8. PICK g, h : g = View /\ h = View'
  OBVIOUS
<1>9. fd \notin DOMAIN fds => h = g /\ written' = written
  BY <1>1, <1>8 DEF View
<1>10. ASSUME ~gap, fd \in DOMAIN fds
       PROVE  /\ 0 \in DOMAIN disk /\ fds[fd] = disk[0] /\ WrittenTo(g, h, sent, time)
              /\ InSequence("daily", h, written \cup {sent}, timeOf, time)
              /\ \A q : InFiles(h, q) <=> InFiles(g, q) \/ q = sent
              /\ 0 \in DOMAIN g /\ ViewOk(g) /\ Logged
  <2>1. Logged
    BY <1>10 DEF FilesInv
  <2>2. 0 \in DOMAIN disk /\ fds[fd] = disk[0]
    BY <2>1, <1>1, <1>10 DEF Logged, InUse
  <2>3. WrittenTo(g, h, sent, time)
    <3>1. PICK dk : dk = disk
      OBVIOUS
    <3>2. /\ NamesOk(dk, Len(data)) /\ 0 \in DOMAIN dk /\ fds[fd] = dk[0]
          /\ g = ViewOf(dk, data) /\ h = ViewOf(dk, data')
      BY <2>2, <3>1, <1>1, <1>8 DEF FilesInv, FilesTyped, View
    <3>3. Wrote(sent) /\ sent \in Nat
      BY <1>1, <1>3, <1>10
    <3> QED BY <3>2, <3>3, <1>10, WroteView
  <2>4. Later(written, timeOf, sent, time)
    <3>1. \A q \in written : q \in Nat /\ q < sent /\ timeOf[q] \in Nat
      BY <1>3, DaysNow
    <3> QED BY <3>1, <1>3, <1>4 DEF Later
  <2>5. PICK w, dy, t, m : w = written /\ dy = timeOf /\ t = time /\ m = sent
    OBVIOUS
  <2>6. /\ InSequence("daily", g, w, dy, t) /\ ViewOk(g) /\ Later(w, dy, m, t)
        /\ WrittenTo(g, h, m, t)
    BY <2>1, <2>3, <2>4, <2>5, <1>2, <1>8, ViewNow DEF Logged
  <2>7. /\ InSequence("daily", h, w \cup {m}, dy, t)
        /\ \A q : InFiles(h, q) <=> InFiles(g, q) \/ q = m
    BY <2>6, WriteFile
  <2>8. InSequence("daily", h, written \cup {sent}, timeOf, time)
    BY <2>5, <2>7
  <2>9. \A q : InFiles(h, q) <=> InFiles(g, q) \/ q = sent
    BY <2>5, <2>7
  <2> QED BY <2>1, <2>2, <2>3, <2>6, <2>8, <2>9 DEF WrittenTo
<1>11. ASSUME ~gap' PROVE Logged'
  <2>0. ~gap /\ Logged
    BY <1>1, <1>11 DEF FilesInv
  <2>1. InSequence(kind, h, written', timeOf, time)
    BY <2>0, <1>1, <1>2, <1>8, <1>9, <1>10 DEF Logged
  <2>2. InUse'
    BY <2>0, <1>1, <1>10 DEF InUse
  <2>3. PlainFile(kind, h, written') /\ Rolled(kind, h, conf.backups, step')
    BY <1>2 DEF PlainFile, Rolled
  <2>4. Dated(kind, g, logsDay, timeOf, step, ctl = 0) /\ Undated(kind, g, logsDay, step, hand)
    BY <2>0, <1>8 DEF Logged
  <2>5. Dated(kind, h, logsDay, timeOf, Idle, ctl = 0)
    <3>1. CASE fd \in DOMAIN fds
      <4>1. PICK l, dy, s, t, m, x : /\ l = logsDay /\ dy = timeOf /\ s = step /\ t = time
                                     /\ m = sent /\ x = (ctl = 0)
        OBVIOUS
      <4>2. /\ Dated(kind, g, l, dy, s, x) /\ s.at = "write" /\ l \in Nat /\ m \in Nat /\ t \in Nat
            /\ LocalDay[t] >= l /\ LocalDay[dy[m]] = l
        BY <2>4, <4>1, <1>1, <1>3, <1>4
      <4>3. WrittenTo(g, h, m, t) /\ 0 \in DOMAIN g /\ ViewOk(g)
        BY <3>1, <2>0, <4>1, <1>10
      <4>4. Dated(kind, h, l, dy, Idle, x)
        BY <4>2, <4>3, WrittenDated
      <4> QED BY <4>1, <4>4
    <3>2. CASE fd \notin DOMAIN fds
      <4>1. h = g /\ Idle.at = "idle"
        BY <3>2, <1>9 DEF Idle
      <4> QED BY <4>1, <2>4, <1>1 DEF Dated
    <3> QED BY <3>1, <3>2
  <2>6. Undated(kind, h, logsDay, Idle, hand)
    <3>1. DOMAIN h = DOMAIN g
      BY <2>0, <1>9, <1>10 DEF WrittenTo
    <3> QED BY <3>1, <2>4, <1>1 DEF Undated
  <2> QED BY <2>1, <2>2, <2>3, <2>5, <2>6, <1>1, <1>8 DEF Logged
<1>12. ASSUME ~gap', ctl' = 0 PROVE Alone'
  <2>1. ~gap /\ ctl = 0 /\ Alone
    BY <1>1, <1>12 DEF FilesInv
  <2>2. DailyKept(kind, g, conf, written, timeOf, time)
    BY <2>1, <1>8 DEF Alone
  <2>3. DailyKept(kind, h, conf, written', timeOf, time)
    <3>1. CASE fd \in DOMAIN fds
      <4>1. \A q : InFiles(h, q) <=> InFiles(g, q) \/ q = sent
        BY <3>1, <2>1, <1>10
      <4> QED BY <4>1, <3>1, <2>2, <1>1 DEF DailyKept
    <3>2. CASE fd \notin DOMAIN fds
      BY <3>2, <2>2, <1>9
    <3> QED BY <3>1, <3>2
  <2>4. RollingKept(kind, h, conf, step', sent, written', fd \in DOMAIN fds)
    BY <1>2 DEF RollingKept
  <2> QED BY <2>1, <2>3, <2>4, <1>1, <1>8 DEF Alone
<1> QED BY <1>6, <1>7, <1>11, <1>12 DEF FilesInv

LEMMA RollOverKeeps ==
    ASSUME FilesInv, RollOver
    PROVE  FilesInv'
<1>1. /\ step = Idle /\ step' = [at |-> "close", now |-> 0, to |-> 0] /\ hand' = TRUE
      /\ kind # "plain"
      /\ UNCHANGED <<kind, disk, data, fds, fd, conf, logsDay, time, reo, sent, written, timeOf,
                     gap>>
  BY DEF RollOver, Idle
<1>2. ctl' \in Nat /\ ctl' # 0
  BY CtlCounts DEF RollOver
<1>3. step.at = "idle" /\ step' \in Steps /\ step'.at = "close" /\ step'.now = 0
  BY <1>1 DEF Idle, Steps
<1>4. FilesTyped'
  BY <1>1, <1>2, <1>3 DEF FilesInv, FilesTyped, Today
<1>5. Descriptors' /\ RollSteps'
  BY <1>1, <1>3 DEF FilesInv, Descriptors, RollSteps
<1>6. View' = View
  BY <1>1 DEF View
<1>7. ASSUME ~gap' PROVE Logged'
  <2>1. Logged
    BY <1>1, <1>7 DEF FilesInv
  <2>2. InUse' /\ Rolled(kind, View, conf.backups, step')
    BY <2>1, <1>3 DEF InUse, Rolled, Logged
  <2>3. Dated(kind, View, logsDay, timeOf, step', ctl' = 0)
    <3>1. Dated(kind, View, logsDay, timeOf, step', ctl = 0)
      BY <2>1, <1>3 DEF Dated, Logged
    <3>2. (ctl' = 0) => (ctl = 0)
      BY <1>2
    <3> QED BY <3>1, <3>2, DatedStill
  <2>4. Undated(kind, View, logsDay, step', hand')
    BY <1>1 DEF Undated
  <2> QED BY <2>1, <2>2, <2>3, <2>4, <1>1, <1>6 DEF Logged
<1> QED BY <1>2, <1>4, <1>5, <1>7 DEF FilesInv
-----------------------------------------------------------------------------
LEMMA AppendEventKeeps ==
    ASSUME FilesInv, AppendEvent
    PROVE  FilesInv'
<1>1. CASE kind = "daily"
  BY <1>1, AppendDaily
<1>2. CASE kind # "daily"
  BY <1>2, AppendWrites, AppendFails
<1> QED BY <1>1, <1>2

LEMMA FilesStart ==
    ASSUME FilesInit
    PROVE  FilesInv
<1>1. PICK r : r = [text |-> << >>, mtime |-> 1]
  OBVIOUS
<1>2. /\ kind \in {"plain", "rolling", "daily"} /\ conf \in ConfType(1) /\ conf \in Confs
      /\ time = 1 /\ logsDay = LocalDay[1] /\ disk = [n \in {0} |-> 1] /\ data = <<r>>
      /\ fds = [n \in {1} |-> 1] /\ fd = 1 /\ step = Idle /\ reo = 0
      /\ sent = 0 /\ written = {} /\ timeOf = << >> /\ gap = FALSE /\ hand = FALSE /\ ctl = 0
  BY <1>1, FileAppendersAssumption DEF FilesInit
<1>3. r \in Inodes /\ r.mtime = 1 /\ r.text = << >>
  BY <1>1 DEF Inodes
<1>a. 1 \in 1..MaxTime /\ LocalDay[1] \in Nat \ {0}
  <2>1. MaxTime \in Nat \ {0}
    BY FileAppendersAssumption
  <2> QED BY <2>1, DaysOfTimes
<1>4. InodesOk(data, time) /\ Len(data) = 1
  <2>1. data \in Seq(Inodes) /\ Len(data) = 1 /\ data[1] = r
    BY <1>2, <1>3
  <2>2. \A i \in 1..1 : data[i].mtime \in 1..1
    BY <2>1, <1>3
  <2> QED BY <2>1, <2>2, <1>2 DEF InodesOk
<1>5. NamesOk(disk, Len(data))
  BY <1>2, <1>4 DEF NamesOk
<1>6. FdsOk(fds, Len(data))
  <2>1. IsFiniteSet({1})
    BY FS_Singleton
  <2> QED BY <2>1, <1>2, <1>4 DEF FdsOk
<1>7. step \in Steps /\ step.at = "idle"
  BY <1>2 DEF Idle, Steps
<1>8. conf \in ConfType(0)
  BY <1>2 DEF ConfType
<1>9. FilesTyped
  <2>1. timeOf \in Seq(1..MaxTime) /\ Len(timeOf) = 0
    BY <1>2
  <2>2. time \in 1..MaxTime /\ logsDay \in 1..Today /\ fd \in Nat /\ reo \in {0} \cup DOMAIN fds
    BY <1>2, <1>a DEF Today
  <2>3. sent \in Nat /\ written \subseteq 1..sent /\ Len(timeOf) = sent /\ ctl \in Nat
    BY <2>1, <1>2
  <2>4. gap \in BOOLEAN /\ hand \in BOOLEAN
    BY <1>2
  <2> QED BY <2>1, <2>2, <2>3, <2>4, <1>2, <1>4, <1>5, <1>6, <1>7, <1>8 DEF FilesTyped
<1>10. Descriptors /\ RollSteps
  BY <1>2, <1>7 DEF Descriptors, RollSteps
<1>11. DOMAIN View = {0} /\ View[0] = r
  <2>1. data[1] = r
    BY <1>2
  <2> QED BY <2>1, <1>2 DEF View, ViewOf
<1>12. PICK g : g = View
  OBVIOUS
<1>13. DOMAIN g = {0} /\ g[0] = r /\ DOMAIN g[0].text = {} /\ Msgs(g[0]) = {}
  BY <1>3, <1>11, <1>12 DEF Msgs
<1>14. InSequence(kind, g, written, timeOf, time)
  <2>1. Whole(g, written, timeOf, time)
    BY <1>2, <1>3, <1>13 DEF Whole
  <2>2. Sorted(kind, g)
    BY <1>3, <1>13 DEF Sorted
  <2>3. Upward(g, written)
    BY <1>2 DEF Upward
  <2> QED BY <2>1, <2>2, <2>3 DEF InSequence
<1>15. InUse /\ PlainFile(kind, g, written)
  BY <1>2, <1>13 DEF InUse, PlainFile
<1>16. Rolled(kind, g, conf.backups, step)
  BY <1>7, <1>8, <1>13 DEF Rolled, ConfType
<1>17. Dated(kind, g, logsDay, timeOf, step, ctl = 0) /\ Undated(kind, g, logsDay, step, hand)
  <2>1. g[0].mtime = 1 /\ LocalDay[1] >= LocalDay[1] /\ LocalDay[1] # 0
    BY <1>a, <1>3, <1>13
  <2> QED BY <2>1, <1>2, <1>7, <1>13 DEF Dated, DatedBy, Undated
<1>18. RollingKept(kind, g, conf, step, sent, written, fd \in DOMAIN fds)
  <2>1. RolledDue(g, conf, step, sent, written)
    <3>1. written = 1..sent
      BY <1>2
    <3> QED BY <3>1, <1>2, <1>7, <1>13 DEF RolledDue
  <2>2. fd \in DOMAIN fds
    BY <1>2
  <2> QED BY <2>1, <2>2 DEF RollingKept
<1>19. DailyKept(kind, g, conf, written, timeOf, time)
  BY <1>2 DEF DailyKept
<1> QED BY <1>2, <1>9, <1>10, <1>12, <1>14, <1>15, <1>16, <1>17, <1>18, <1>19
        DEF FilesInv, Logged, Alone

LEMMA FilesSame ==
    ASSUME FilesInv, UNCHANGED fileVars
    PROVE  FilesInv'
BY DEF FilesInv, FilesTyped, Descriptors, RollSteps, ToBeDated, Logged, Alone, InUse, View, Today,
       fileVars

LEMMA FilesStep ==
    ASSUME FilesInv, FilesNext
    PROVE  FilesInv'
<1>1. ASSUME NEW c \in Confs, Restart(c) PROVE FilesInv'
  BY <1>1, RestartKeeps
<1>2. ASSUME NEW b \in BOOLEAN, SetAppend(b) PROVE FilesInv'
  BY <1>2, SetAppendKeeps
<1>3. ASSUME NEW n \in Settings,
             SetMaxBackupIndex(n) \/ SetMaximumFileSize(n) \/ SetMaxDaysToKeep(n)
      PROVE  FilesInv'
  BY <1>3, SetMaxBackupIndexKeeps, SetMaximumFileSizeKeeps, SetMaxDaysToKeepKeeps
<1>4. CASE \/ AppendEvent \/ WriteEvent \/ RollClose \/ RollRemove \/ RollRename \/ RollToDate
           \/ RollOpen \/ RollOpenFails \/ RollExpire
  BY <1>4, AppendEventKeeps, WriteEventKeeps, RollCloseKeeps, RollRemoveKeeps, RollRenameKeeps,
     RollToDateKeeps, RollOpenKeeps, RollOpenFailsKeeps, RollExpireKeeps
<1>5. CASE RollOver \/ ReopenBegin \/ ReopenEnd \/ Close \/ Tick
  BY <1>5, RollOverKeeps, ReopenBeginKeeps, ReopenEndKeeps, CloseKeeps, TickKeeps
<1> QED BY <1>1, <1>2, <1>3, <1>4, <1>5 DEF FilesNext

\* What the invariant says of the names.
LEMMA FilesOrdered ==
    ASSUME FilesInv
    PROVE  FilesInOrder
<1> SUFFICES ASSUME ~gap
             PROVE  /\ \A n \in DOMAIN disk : \A i, j \in DOMAIN Text(n) :
                           i < j => Text(n)[i] < Text(n)[j]
                    /\ \A a, b \in DOMAIN disk : Older(a, b) =>
                           \A m \in Range(Text(a)), q \in Range(Text(b)) : m < q
                    /\ Kept \subseteq written
                    /\ \A m \in Kept, q \in written : m < q => q \in Kept
                    /\ kind = "daily" => \A d \in DOMAIN disk \ {0} : \A m \in Range(Text(d)) :
                           /\ LocalDay[timeOf[m]] <= d
                           /\ ctl = 0 => LocalDay[timeOf[m]] = d
                    /\ ctl = 0 => \A m \in written : Due(m) => m \in Kept
  BY DEF FilesInOrder
<1>1. PICK g : g = View
  OBVIOUS
<1>2. DOMAIN g = DOMAIN disk /\ ViewOk(g)
  BY <1>1, ViewNow
<1>3. \A n \in DOMAIN disk : Text(n) = g[n].text /\ Range(Text(n)) = Msgs(g[n])
  BY <1>1 DEF Text, View, ViewOf, Range, Msgs
<1>4. \A m : m \in Kept <=> InFiles(g, m)
  BY <1>2, <1>3 DEF Kept, InFiles
<1>5. Whole(g, written, timeOf, time) /\ Sorted(kind, g) /\ Upward(g, written)
  BY <1>1 DEF FilesInv, Logged, InSequence
<1>6. \A n \in DOMAIN disk : \A i, j \in DOMAIN Text(n) : i < j => Text(n)[i] < Text(n)[j]
  BY <1>2, <1>3, <1>5 DEF Whole
<1>7. \A a, b \in DOMAIN disk : Older(a, b) =>
          \A m \in Range(Text(a)), q \in Range(Text(b)) : m < q
  <2>1. \A a, b : Older(a, b) <=> Before(kind, a, b)
    BY DEF Older, Before
  <2> QED BY <2>1, <1>2, <1>3, <1>5 DEF Sorted
<1>8. Kept \subseteq written
  BY <1>2, <1>4, <1>5, MsgsAre DEF InFiles
<1>9. \A m \in Kept, q \in written : m < q => q \in Kept
  BY <1>4, <1>5, <1>8 DEF Upward
<1>10. ASSUME kind = "daily", NEW d \in DOMAIN disk \ {0}, NEW m \in Range(Text(d))
       PROVE  /\ LocalDay[timeOf[m]] <= d
              /\ ctl = 0 => LocalDay[timeOf[m]] = d
  <2>1. DatedBy(g[d], d, timeOf, ctl = 0)
    BY <1>1, <1>2, <1>10 DEF FilesInv, Logged, Dated
  <2>2. m \in Msgs(g[d])
    BY <1>3, <1>10
  <2> QED BY <2>1, <2>2 DEF DatedBy, Msgs
<1>11. ASSUME ctl = 0, NEW m \in written, Due(m) PROVE m \in Kept
  <2>1. Alone /\ Logged /\ kind \in {"plain", "rolling", "daily"}
    BY <1>11 DEF FilesInv, FilesTyped
  <2>2. CASE kind = "plain"
    BY <2>1, <2>2, <1>1, <1>4 DEF Logged, PlainFile
  <2>3. CASE kind = "rolling"
    <3>1. KeptDue(g, conf, written)
      <4>1. RolledDue(g, conf, step, sent, written) \/ KeptDue(g, conf, written)
        BY <2>1, <2>3, <1>1 DEF Alone, RollingKept
      <4>2. PICK c, s, n, w : c = conf /\ s = step /\ n = sent /\ w = written
        OBVIOUS
      <4>3. c \in ConfType(0) /\ n \in Nat /\ (RolledDue(g, c, s, n, w) \/ KeptDue(g, c, w))
        BY <4>1, <4>2 DEF FilesInv, FilesTyped
      <4>4. KeptDue(g, c, w)
        BY <4>3, DueKept
      <4> QED BY <4>2, <4>4
    <3>2. Cardinality({q \in written : q > m}) < conf.backups * conf.size
      BY <2>3, <1>11 DEF Due
    <3> QED BY <3>1, <3>2, <1>4 DEF KeptDue
  <2>4. CASE kind = "daily"
    <3>1. timeOf[m] >= time - conf.days * DayLength
      BY <2>4, <1>11 DEF Due
    <3>2. ~InFiles(g, m) => timeOf[m] < time - conf.days * DayLength
      BY <2>1, <2>4, <1>1 DEF Alone, DailyKept
    <3>3. timeOf[m] \in Nat /\ time \in Nat /\ conf.days * DayLength \in Nat
      BY <1>11, DaysNow, TimeNow, KeepsLong DEF FilesInv, FilesTyped
    <3> QED BY <3>1, <3>2, <3>3, <1>4
  <2> QED BY <2>1, <2>2, <2>3, <2>4
<1> QED BY <1>6, <1>7, <1>8, <1>9, <1>10, <1>11

\* The file appenders keep the log in order, whatever they are constructed
\* with, whatever happens between their system calls and however long they
\* run: read from the oldest backup on, no message is out of order or twice
\* there and only the oldest are lost.  An appender that is left alone loses
\* none that is due: for a daily one, none that was logged in the last
\* _maxDaysToKeep times 24 hours, unless that time passed during a roll-over.
THEOREM FilesKeepOrder == FilesSpec => []FilesInOrder
<1>1. FilesInit => FilesInv
  BY FilesStart
<1>2. FilesInv /\ [FilesNext]_fileVars => FilesInv'
  BY FilesStep, FilesSame
<1>3. FilesInv => FilesInOrder
  BY FilesOrdered
<1> QED BY <1>1, <1>2, <1>3, PTL DEF FilesSpec

-----------------------------------------------------------------------------
(***************************************************************************)
(* The other appenders, their filters and the diagnostic contexts.  First  *)
(* what is needed of sequences whose elements are of different kinds.      *)
(***************************************************************************)

\* s is a sequence of whatever.
IsList(s) == \E S : s \in Seq(S)

LEMMA ListFacts ==
    ASSUME NEW s, IsList(s)
    PROVE  Len(s) \in Nat /\ DOMAIN s = 1..Len(s) /\ s = [i \in 1..Len(s) |-> s[i]]
<1> PICK S : s \in Seq(S)
    BY DEF IsList
<1> QED
    BY LenProperties

LEMMA ListIs ==
    ASSUME NEW n \in Nat, NEW f, f = [i \in 1..n |-> f[i]]
    PROVE  IsList(f) /\ Len(f) = n
<1> DEFINE S == {f[i] : i \in 1..n}
<1>1. \A i \in 1..n : f[i] \in S
    OBVIOUS
<1> HIDE DEF S
<1>2. f \in [1..n -> S]
    BY <1>1
<1>3. f \in Seq(S) /\ Len(f) = n
    BY <1>2
<1> QED
    BY <1>3 DEF IsList

LEMMA ListJoined ==
    ASSUME NEW s, NEW t, IsList(s), IsList(t)
    PROVE  /\ IsList(s \o t)
           /\ Len(s \o t) = Len(s) + Len(t)
           /\ \A i \in 1..Len(s) : (s \o t)[i] = s[i]
           /\ \A i \in 1..Len(t) : (s \o t)[Len(s) + i] = t[i]
           /\ \A i \in 1..Len(s \o t) : i \in 1..Len(s) \/ (i - Len(s)) \in 1..Len(t)
<1> PICK S : s \in Seq(S)
    BY DEF IsList
<1> PICK T : t \in Seq(T)
    BY DEF IsList
<1> DEFINE U == S \cup T
<1>1. \A i \in 1..Len(s) : s[i] \in U
    BY ElementOfSeq
<1>2. \A i \in 1..Len(t) : t[i] \in U
    BY ElementOfSeq
<1> HIDE DEF U
<1>3. s \in Seq(U)
    BY <1>1, ListFacts DEF IsList
<1>4. t \in Seq(U)
    BY <1>2, ListFacts DEF IsList
<1>5. s \o t \in Seq(U)
    BY <1>3, <1>4
<1> QED
    BY <1>3, <1>4, <1>5 DEF IsList

LEMMA ListOne == \A x : IsList(<<x>>) /\ Len(<<x>>) = 1 /\ <<x>>[1] = x
<1> TAKE x
<1>1. <<x>> \in Seq({x})
    OBVIOUS
<1> QED
    BY <1>1 DEF IsList

LEMMA ListNone == IsList(<< >>) /\ Len(<< >>) = 0
<1>1. << >> \in Seq({})
    OBVIOUS
<1> QED
    BY <1>1 DEF IsList

LEMMA ListAppended ==
    ASSUME NEW s, NEW x, IsList(s)
    PROVE  /\ IsList(Append(s, x))
           /\ Len(Append(s, x)) = Len(s) + 1
           /\ \A i \in 1..Len(s) : Append(s, x)[i] = s[i]
           /\ Append(s, x)[Len(s) + 1] = x
<1> PICK S : s \in Seq(S)
    BY DEF IsList
<1> DEFINE U == S \cup {x}
<1>1. (\A i \in 1..Len(s) : s[i] \in U) /\ x \in U
    BY ElementOfSeq
<1> HIDE DEF U
<1>2. s \in Seq(U)
    BY <1>1, ListFacts DEF IsList
<1>3. Append(s, x) \in Seq(U)
    BY <1>1, <1>2
<1> QED
    BY <1>1, <1>2, <1>3 DEF IsList

LEMMA ListTail ==
    ASSUME NEW s, IsList(s), s # << >>
    PROVE  /\ IsList(Tail(s))
           /\ Len(s) > 0 /\ Head(s) = s[1]
           /\ Len(Tail(s)) = Len(s) - 1
           /\ \A i \in 1..(Len(s) - 1) : Tail(s)[i] = s[i + 1]
<1> PICK S : s \in Seq(S)
    BY DEF IsList
<1>1. Tail(s) \in Seq(S) /\ Len(s) > 0
    OBVIOUS
<1> QED
    BY <1>1 DEF IsList

LEMMA ListFront ==
    ASSUME NEW s, IsList(s), s # << >>
    PROVE  /\ IsList(Front(s))
           /\ Len(s) > 0 /\ Last(s) = s[Len(s)]
           /\ Len(Front(s)) = Len(s) - 1
           /\ \A i \in 1..(Len(s) - 1) : Front(s)[i] = s[i]
<1> PICK S : s \in Seq(S)
    BY DEF IsList
<1>1. Len(s) \in Nat /\ Len(s) > 0
    BY EmptySeq
<1>2. Front(s) = [i \in 1..(Len(s) - 1) |-> s[i]]
    BY <1>1 DEF Front
<1>3. Front(s) = [i \in 1..(Len(s) - 1) |-> Front(s)[i]]
    BY <1>2
<1> QED
    BY <1>1, <1>2, <1>3, ListIs DEF Last

LEMMA ListEmpty ==
    ASSUME NEW s, IsList(s)
    PROVE  s = << >> <=> Len(s) = 0
<1> PICK S : s \in Seq(S)
    BY DEF IsList
<1> QED
    BY EmptySeq
-----------------------------------------------------------------------------
\* The chain of filters is a list.
SkelOk == DOMAIN skel = {"threshold", "filter", "layout"} /\ IsList(skel.filter)

\* Only a class with a connection can lose it.
ConnOk == sink \notin Connected => conn.socket = 1

\* The full message of a context is what was pushed up to it.
GoodStack(s) ==
    /\ IsList(s)
    /\ \A i \in 1..Len(s) : s[i].full = [j \in 1..i |-> s[j].message]

\* Nothing is on any stack before the first push.
NdcOk ==
    /\ \A t \in DOMAIN ndc : GoodStack(ndc[t])
    /\ GoodStack(clone)
    /\ isUsedNDC \in BOOLEAN
    /\ isUsedNDC = FALSE => clone = << >> /\ \A t \in DOMAIN ndc : ndc[t] = << >>
    /\ leaked \in Nat /\ (leaked > 0 => backend = "ms")

\* An event has the number of its place, and the context of its thread.
EventsOk ==
    /\ IsList(events)
    /\ \A i \in 1..Len(events) :
         /\ DOMAIN events[i] = {"event", "threshold", "filter", "open", "lossy", "own"}
         /\ events[i].event.id = i /\ events[i].event.length \in Nat
         /\ events[i].event.priority \in Int
         /\ events[i].event.ndc = events[i].own

\* The queue holds events that were let through, the newest first, and what
\* was not dumped as long as none may be lost.
BufferOk ==
    sink = "buffer" =>
        /\ DOMAIN buffer = {"queue", "lossy"} /\ IsList(buffer.queue)
        /\ buffer.lossy \in BOOLEAN
        /\ \A k \in 1..Len(out) : IsList(out[k].dumped)
        /\ \A q \in 1..Len(buffer.queue) : buffer.queue[q].id \in Wanted
        /\ \A q, r \in 1..Len(buffer.queue) : q < r => buffer.queue[q].id > buffer.queue[r].id
        /\ (\A j \in 1..Len(events) : ~events[j].lossy) =>
             \A i \in Wanted : i \in Dumped \/ (\E q \in 1..Len(buffer.queue) : buffer.queue[q].id = i)

\* The inductive invariant.
SinksInv ==
    /\ IsList(out)
    /\ SkelOk /\ ConnOk /\ NdcOk /\ EventsOk
    /\ InOrder /\ PacketsJoin /\ BufferOk /\ BufferDumps
-----------------------------------------------------------------------------
(* Diagnostic contexts.                                                    *)

LEMMA NoStack == GoodStack(<< >>)
BY ListNone DEF GoodStack

LEMMA StackGood ==
    ASSUME NdcOk, NEW t
    PROVE  GoodStack(Stack(t)) /\ (isUsedNDC = FALSE => Stack(t) = << >>)
BY NoStack DEF NdcOk, Stack

LEMMA PushedGood ==
    ASSUME NEW s, NEW l, GoodStack(s)
    PROVE  GoodStack(Pushed(s, l))
<1> DEFINE c == Context(s, l)
           r == Append(s, c)
<1>1. /\ IsList(r) /\ Len(r) = Len(s) + 1 /\ Len(s) \in Nat
      /\ (\A i \in 1..Len(s) : r[i] = s[i]) /\ r[Len(s) + 1] = c
    BY ListAppended, ListFacts DEF GoodStack
<1>2. c.message = l
    BY DEF Context
<1>3. c.full = [j \in 1..(Len(s) + 1) |-> r[j].message]
    <2>1. CASE s = << >>
        <3>1. c.full = <<l>> /\ Len(s) = 0
            BY <2>1, ListNone DEF Context
        <3>2. <<l>> = [j \in 1..1 |-> r[j].message]
            BY <1>1, <1>2, <3>1
        <3> QED
            BY <3>1, <3>2
    <2>2. CASE s # << >>
        <3>1. Last(s) = s[Len(s)] /\ Len(s) > 0
            BY <2>2, ListFront DEF GoodStack
        <3> DEFINE f == [j \in 1..Len(s) |-> s[j].message]
        <3>2. Last(s).full = f
            BY <1>1, <3>1 DEF GoodStack
        <3>3. c.full = Append(f, l)
            BY <2>2, <3>2 DEF Context
        <3>4. IsList(f) /\ Len(f) = Len(s)
            <4>1. f = [j \in 1..Len(s) |-> f[j]]
                OBVIOUS
            <4> HIDE DEF f
            <4> QED
                BY <1>1, <4>1, ListIs
        <3>5. /\ IsList(Append(f, l)) /\ Len(Append(f, l)) = Len(s) + 1
              /\ \A i \in 1..Len(s) : Append(f, l)[i] = f[i]
              /\ Append(f, l)[Len(s) + 1] = l
            BY <3>4, ListAppended
        <3>6. \A j \in 1..(Len(s) + 1) : Append(f, l)[j] = r[j].message
            <4> TAKE j \in 1..(Len(s) + 1)
            <4>1. CASE j = Len(s) + 1
                BY <1>1, <1>2, <3>5, <4>1
            <4>2. CASE j \in 1..Len(s)
                BY <1>1, <3>5, <4>2
            <4> QED
                BY <1>1, <4>1, <4>2
        <3> HIDE DEF f, r, c
        <3>7. Append(f, l) = [j \in 1..(Len(s) + 1) |-> Append(f, l)[j]]
            BY <3>5, ListFacts
        <3> QED
            BY <3>3, <3>6, <3>7
    <2> QED
        BY <2>1, <2>2
<1>4. \A i \in 1..Len(r) : r[i].full = [j \in 1..i |-> r[j].message]
    <2> TAKE i \in 1..Len(r)
    <2>1. CASE i = Len(s) + 1
        BY <1>1, <1>3, <2>1
    <2>2. CASE i \in 1..Len(s)
        <3> HIDE DEF r, c
        <3>1. s[i].full = [j \in 1..i |-> s[j].message]
            BY <2>2 DEF GoodStack
        <3>2. \A j \in 1..i : j \in 1..Len(s)
            BY <1>1, <2>2
        <3> QED
            BY <1>1, <2>2, <3>1, <3>2
    <2> HIDE DEF r, c
    <2> QED
        BY <1>1, <2>1, <2>2
<1> QED
    BY <1>1, <1>4 DEF GoodStack, Pushed

LEMMA PoppedGood ==
    ASSUME NEW s, GoodStack(s), s # << >>
    PROVE  GoodStack(Popped(s))
<1> DEFINE r == Front(s)
<1>1. /\ IsList(r) /\ Len(s) > 0 /\ Len(r) = Len(s) - 1 /\ Len(s) \in Nat
      /\ \A i \in 1..(Len(s) - 1) : r[i] = s[i]
    BY ListFront, ListFacts DEF GoodStack
<1> HIDE DEF r
<1>2. \A i \in 1..Len(r) : r[i].full = [j \in 1..i |-> r[j].message]
    <2> TAKE i \in 1..Len(r)
    <2>1. s[i].full = [j \in 1..i |-> s[j].message]
        BY <1>1 DEF GoodStack
    <2>2. \A j \in 1..i : j \in 1..(Len(s) - 1)
        BY <1>1
    <2> QED
        BY <1>1, <2>1, <2>2
<1> QED
    BY <1>1, <1>2 DEF GoodStack, Popped, r

\* What a thread gets is what it pushed.
LEMMA GetIsOwn ==
    ASSUME NdcOk, NEW t
    PROVE  Get(t) = [i \in 1..Len(Stack(t)) |-> Stack(t)[i].message]
<1> DEFINE s == Stack(t)
<1>1. GoodStack(s) /\ (isUsedNDC = FALSE => s = << >>)
    BY StackGood
<1>2. CASE s = << >>
    <2>1. Get(t) = << >> /\ Len(s) = 0
        BY <1>2, ListNone DEF Get
    <2> QED
        BY <2>1
<1>3. CASE s # << >>
    <2>1. Last(s) = s[Len(s)] /\ Len(s) > 0 /\ Len(s) \in Nat
        BY <1>1, <1>3, ListFront, ListFacts DEF GoodStack
    <2>2. Get(t) = Last(s).full
        BY <1>1, <1>3 DEF Get, NdcOk
    <2> HIDE DEF s
    <2>3. s[Len(s)].full = [i \in 1..Len(s) |-> s[i].message]
        BY <1>1, <2>1 DEF GoodStack
    <2> QED
        BY <2>1, <2>2, <2>3 DEF s
<1> QED
    BY <1>2, <1>3

LEMMA WithStackFacts ==
    ASSUME NEW t, NEW s
    PROVE  \A u \in DOMAIN WithStack(t, s) :
               WithStack(t, s)[u] = s \/ (u \in DOMAIN ndc /\ WithStack(t, s)[u] = ndc[u])
<1> DEFINE w == [u \in DOMAIN ndc \cup {t} |-> IF u = t THEN s ELSE ndc[u]]
<1>1. \A u \in DOMAIN ndc \cup {t} : w[u] = IF u = t THEN s ELSE ndc[u]
    OBVIOUS
<1>2. DOMAIN w = DOMAIN ndc \cup {t}
    OBVIOUS
<1> HIDE DEF w
<1>3. \A u \in DOMAIN w : w[u] = s \/ (u \in DOMAIN ndc /\ w[u] = ndc[u])
    BY <1>1, <1>2
<1>4. WithStack(t, s) = w
    BY DEF WithStack, w
<1> QED
    BY <1>3, <1>4

LEMMA WithStackGood ==
    ASSUME NdcOk, NEW t, NEW s, GoodStack(s), isUsedNDC' \in BOOLEAN,
           isUsedNDC = TRUE => isUsedNDC' = TRUE,
           isUsedNDC' = FALSE => s = << >>, ndc' = WithStack(t, s),
           clone' = clone \/ clone' = Stack(t), UNCHANGED <<leaked, backend>>
    PROVE  NdcOk'
<1>1. \A u \in DOMAIN ndc' : ndc'[u] = s \/ (u \in DOMAIN ndc /\ ndc'[u] = ndc[u])
    BY WithStackFacts
<1>2. GoodStack(clone') /\ (isUsedNDC = FALSE => clone' = << >>)
    BY StackGood DEF NdcOk
<1>3. isUsedNDC' = FALSE => isUsedNDC = FALSE
    BY DEF NdcOk
<1>4. \A u \in DOMAIN ndc' : GoodStack(ndc'[u])
    BY <1>1 DEF NdcOk
<1>5. isUsedNDC' = FALSE => clone' = << >> /\ \A u \in DOMAIN ndc' : ndc'[u] = << >>
    BY <1>1, <1>2, <1>3 DEF NdcOk
<1> QED
    BY <1>2, <1>4, <1>5 DEF NdcOk
-----------------------------------------------------------------------------
(* The filters, and the record of the events.                              *)

LEMMA LeastFacts ==
    ASSUME NEW S \in SUBSET Nat, S # {}
    PROVE  Min(S) \in S /\ \A y \in S : Min(S) <= y
<1>0. S \subseteq Nat /\ S # {}
    OBVIOUS
<1>1. PICK x \in S : \A y \in S : ~(<<y, x>> \in OpToRel(<, Nat))
    BY <1>0, NatLessThanWellFounded, WFMin
<1>2. \A y \in S : ~(y < x)
    BY <1>0, <1>1 DEF OpToRel
<1>3. \A y \in S : x <= y
    BY <1>0, <1>2
<1> QED
    BY <1>3 DEF Min

\* The first filter that is not neutral denies.
LEMMA DecideDenies ==
    ASSUME NEW c, NEW p, Len(c) \in Nat
    PROVE  Decide(c, p) = "DENY" <=> Denied(c, p)
<1> DEFINE S == Speaking(c, p)
<1>1. S \in SUBSET Nat /\ \A i : i \in S <=> (i \in 1..Len(c) /\ p \in c[i].deny \cup c[i].accept)
    BY DEF Speaking
<1>2. CASE S = {}
    <2>1. ~Denied(c, p)
        BY <1>1, <1>2 DEF Denied
    <2>2. Decide(c, p) = "NEUTRAL"
        BY <1>2 DEF Decide
    <2> QED
        BY <2>1, <2>2
<1>3. CASE S # {}
    <2> DEFINE m == Min(S)
    <2>1. m \in S /\ \A y \in S : m <= y
        BY <1>1, <1>3, LeastFacts
    <2>2. Decide(c, p) = Says(c[m], p)
        BY <1>3 DEF Decide
    <2> HIDE DEF m, S
    <2>3. m \in 1..Len(c) /\ \A j \in 1..(m - 1) : p \notin c[j].deny \cup c[j].accept
        <3> SUFFICES ASSUME NEW j \in 1..(m - 1) PROVE p \notin c[j].deny \cup c[j].accept
            BY <1>1, <2>1
        <3>1. m \in 1..Len(c)
            BY <1>1, <2>1
        <3>2. j \in 1..Len(c) /\ j < m /\ j \in Nat
            BY <3>1
        <3>3. j \notin S
            BY <2>1, <3>1, <3>2
        <3> QED
            BY <1>1, <3>2, <3>3
    <2>4. CASE p \in c[m].deny
        <3>1. Denied(c, p)
            BY <2>3, <2>4 DEF Denied
        <3> QED
            BY <2>2, <2>4, <3>1 DEF Says
    <2>5. CASE p \notin c[m].deny
        <3>1. Decide(c, p) = "ACCEPT"
            BY <2>2, <2>5 DEF Says
        <3>2. ASSUME NEW i \in 1..Len(c), p \in c[i].deny,
                     \A j \in 1..(i - 1) : p \notin c[j].deny \cup c[j].accept
              PROVE  FALSE
            <4>1. i \in S
                BY <1>1, <3>2
            <4>2. m <= i /\ m # i
                BY <2>1, <2>5, <3>2, <4>1
            <4>3. m \in 1..(i - 1)
                BY <2>3, <4>2
            <4>4. p \in c[m].deny \cup c[m].accept
                BY <1>1, <2>1
            <4> QED
                BY <3>2, <4>3, <4>4
        <3> QED
            BY <3>1, <3>2 DEF Denied
    <2> QED
        BY <2>4, <2>5
<1> QED
    BY <1>2, <1>3

\* What the record of an event says of it.
LetThrough(r) ==
    /\ r.threshold = NotSet \/ r.event.priority <= r.threshold
    /\ ~Denied(r.filter, r.event.priority)

LEMMA PassesMeans ==
    ASSUME SkelOk, NEW r, r.threshold = skel.threshold, r.filter = skel.filter
    PROVE  Passes(r.event.priority) <=> LetThrough(r)
<1> DEFINE p == r.event.priority
<1>1. Len(skel.filter) \in Nat
    BY ListFacts DEF SkelOk
<1>2. Decide(skel.filter, p) = "DENY" <=> Denied(skel.filter, p)
    BY <1>1, DecideDenies
<1>3. skel.filter = << >> => ~Denied(skel.filter, p)
    BY ListNone DEF Denied
<1> HIDE DEF p
<1> QED
    BY <1>2, <1>3 DEF Passes, LetThrough, p

LEMMA WantedIs == Wanted = {i \in 1..Len(events) : LetThrough(events[i])}
BY DEF Wanted, Let, LetThrough

LEMMA EventsGrow ==
    ASSUME EventsOk, NEW r, events' = Append(events, r),
           DOMAIN r = {"event", "threshold", "filter", "open", "lossy", "own"},
           r.event.id = Len(events) + 1, r.event.length \in Nat, r.event.priority \in Int,
           r.event.ndc = r.own
    PROVE  /\ Len(events) \in Nat /\ Len(events') = Len(events) + 1
           /\ \A i \in 1..Len(events) : events'[i] = events[i]
           /\ events'[Len(events) + 1] = r
           /\ EventsOk'
           /\ Wanted' = IF LetThrough(r) THEN Wanted \cup {Len(events) + 1} ELSE Wanted
<1> DEFINE n == Len(events)
<1>1. /\ n \in Nat /\ IsList(Append(events, r)) /\ Len(Append(events, r)) = n + 1
      /\ \A i \in 1..n : Append(events, r)[i] = events[i]
      /\ Append(events, r)[n + 1] = r
    BY ListFacts, ListAppended DEF EventsOk
<1>2. /\ IsList(events') /\ Len(events') = n + 1
      /\ \A i \in 1..n : events'[i] = events[i]
      /\ events'[n + 1] = r
    BY <1>1
<1>3. \A i \in 1..(n + 1) : i \in 1..n \/ i = n + 1
    BY <1>1
<1>4. EventsOk'
    BY <1>1, <1>2, <1>3 DEF EventsOk
<1>5. Wanted' = {i \in 1..Len(events') : LetThrough(events'[i])}
    BY DEF Wanted, Let, LetThrough
<1>6. Wanted' = IF LetThrough(r) THEN Wanted \cup {n + 1} ELSE Wanted
    <2> HIDE DEF n
    <2>1. \A i : i \in Wanted' <=> (i \in 1..(n + 1) /\ LetThrough(events'[i]))
        BY <1>2, <1>5
    <2>2. \A i : i \in Wanted <=> (i \in 1..n /\ LetThrough(events[i]))
        BY WantedIs DEF n
    <2>3. \A i : i \in Wanted' <=> (i \in Wanted \/ (i = n + 1 /\ LetThrough(r)))
        BY <1>1, <1>2, <1>3, <2>1, <2>2
    <2> QED
        BY <2>3
<1> QED
    BY <1>1, <1>2, <1>4, <1>6
-----------------------------------------------------------------------------
(* Priorities, and the entries that stand for one event.                   *)

LEMMA NameValues == \A i \in 1..10 : GetPriorityValue(Names[i]) = 100 * (i - 1)
<1> TAKE i \in 1..10
<1>1. \A j, k \in 1..10 : Names[j] = Names[k] => j = k
    BY DEF Names
<1>2. Names[i] # "EMERG"
    BY DEF Names
<1>3. (CHOOSE j \in 1..10 : Names[j] = Names[i]) = i
    BY <1>1
<1> QED
    BY <1>2, <1>3 DEF GetPriorityValue

LEMMA LevelSlots == \A s \in 0..7 : Slot(100 * s) = s /\ (100 * s) \div 100 = s
<1> TAKE s \in 0..7
<1>1. (100 * s) \div 100 = s /\ (100 * s + 1) \div 100 = s
    OBVIOUS
<1>2. ~(100 * s + 1 < 0)
    OBVIOUS
<1> QED
    BY <1>1, <1>2 DEF Slot

LEMMA SyslogNamed == \A p : Named(ToSyslogPriority(p) + 1, p)
<1> SUFFICES ASSUME NEW s \in 0..7
             PROVE  GetPriorityValue(Names[ToSyslogPriority(100 * s) + 1]) = 100 * s
    BY DEF Named
<1>1. ToSyslogPriority(100 * s) = s
    BY LevelSlots DEF ToSyslogPriority
<1> QED
    BY <1>1, NameValues

LEMMA CategoryNamed == \A p : Named(GetCategory(p), p)
<1> SUFFICES ASSUME NEW s \in 0..7
             PROVE  GetPriorityValue(Names[GetCategory(100 * s)]) = 100 * s
    BY DEF Named
<1>1. GetCategory(100 * s) = s + 1
    BY LevelSlots DEF GetCategory
<1> QED
    BY <1>1, NameValues

LEMMA PriorityNamed ==
    \A p \in Int : \E i \in 1..10 : Names[i] = GetPriorityName(p) /\ Named(i, p)
<1> TAKE p \in Int
<1> DEFINE i == 1 + (IF Slot(p) < 0 \/ Slot(p) > 8 THEN 8 ELSE Slot(p))
<1>1. GetPriorityName(p) = Names[i]
    BY DEF GetPriorityName
<1>2. Slot(p) \in Int
    BY DEF Slot
<1>3. i \in 1..10
    BY <1>2
<1>4. Named(i, p)
    <2> SUFFICES ASSUME NEW s \in 0..7, p = 100 * s PROVE GetPriorityValue(Names[i]) = p
        BY DEF Named
    <2>1. Slot(p) = s
        BY LevelSlots
    <2>2. i = s + 1
        BY <2>1
    <2> HIDE DEF i
    <2> QED
        BY <2>2, NameValues
<1> HIDE DEF i
<1> QED
    BY <1>1, <1>3, <1>4

\* x is the entry for the event of record r.
EntryOf(x, r) ==
    /\ sink = "syslog" => Named(x.priority + 1, r.event.priority)
    /\ sink = "ntevent" => Named(x.category, r.event.priority)
    /\ "name" \in DOMAIN x =>
           \E i \in 1..10 : Names[i] = x.name /\ Named(i, r.event.priority)
    /\ "ndc" \in DOMAIN x => x.ndc = r.own

LEMMA FormattedEntry ==
    ASSUME NEW r, r.event.priority \in Int, r.event.ndc = r.own,
           sink \notin {"syslog", "ntevent"}
    PROVE  Formatted(r.event).event = r.event.id /\ EntryOf(Formatted(r.event), r)
<1> DEFINE e == r.event
           name == GetPriorityName(e.priority)
<1>1. \E i \in 1..10 : Names[i] = name /\ Named(i, e.priority)
    BY PriorityNamed
<1> HIDE DEF name
<1>2. CASE Formatted(e) = [event |-> e.id, name |-> name, ndc |-> e.ndc]
    BY <1>1, <1>2 DEF EntryOf
<1>3. CASE Formatted(e) = [event |-> e.id, name |-> name]
    <2>1. "ndc" \notin DOMAIN Formatted(e)
        BY <1>3
    <2> QED
        BY <1>1, <1>3, <2>1 DEF EntryOf
<1>4. CASE Formatted(e) = [event |-> e.id]
    <2>1. "ndc" \notin DOMAIN Formatted(e) /\ "name" \notin DOMAIN Formatted(e)
        BY <1>4
    <2> QED
        BY <1>4, <2>1 DEF EntryOf
<1>5. \/ Formatted(e) = [event |-> e.id, name |-> name, ndc |-> e.ndc]
      \/ Formatted(e) = [event |-> e.id, name |-> name]
      \/ Formatted(e) = [event |-> e.id]
    BY DEF Formatted, SimpleLayout, PassThroughLayout, BasicLayout, name
<1> QED
    BY <1>2, <1>3, <1>4, <1>5

LEMMA SyslogEntry ==
    ASSUME NEW r, sink = "syslog"
    PROVE  \E x : x.event = r.event.id /\ EntryOf(x, r) /\ SyslogAppend(r.event) = <<x>>
<1> DEFINE x == [event |-> r.event.id, priority |-> ToSyslogPriority(r.event.priority)]
<1>1. "ndc" \notin DOMAIN x /\ "name" \notin DOMAIN x
    OBVIOUS
<1>2. x.event = r.event.id /\ Named(x.priority + 1, r.event.priority)
    BY SyslogNamed
<1>3. SyslogAppend(r.event) = <<x>>
    BY DEF SyslogAppend
<1> HIDE DEF x
<1> QED
    BY <1>1, <1>2, <1>3 DEF EntryOf

LEMMA NTEventEntry ==
    ASSUME NEW r, sink = "ntevent"
    PROVE  \E x : x.event = r.event.id /\ EntryOf(x, r) /\ NTEventAppend(r.event) = <<x>>
<1> DEFINE x == [event |-> r.event.id, type |-> GetType(r.event.priority),
                 category |-> GetCategory(r.event.priority)]
<1>1. "ndc" \notin DOMAIN x /\ "name" \notin DOMAIN x
    OBVIOUS
<1>2. x.event = r.event.id /\ Named(x.category, r.event.priority)
    BY CategoryNamed
<1>3. NTEventAppend(r.event) = <<x>>
    BY DEF NTEventAppend
<1> HIDE DEF x
<1> QED
    BY <1>1, <1>2, <1>3 DEF EntryOf

LEMMA IdsaEntry ==
    ASSUME NEW r, sink = "idsa", r.event.ndc = r.own
    PROVE  \E x : x.event = r.event.id /\ EntryOf(x, r) /\ IdsaAppend(r.event) = <<x>>
<1> DEFINE x == [event |-> r.event.id, priority |-> r.event.priority, ndc |-> r.event.ndc]
<1>1. "name" \notin DOMAIN x
    OBVIOUS
<1>2. x.event = r.event.id /\ x.ndc = r.own
    OBVIOUS
<1>3. IdsaAppend(r.event) = <<x>>
    BY DEF IdsaAppend
<1> HIDE DEF x
<1> QED
    BY <1>1, <1>2, <1>3 DEF EntryOf
-----------------------------------------------------------------------------
(* An event is logged.                                                     *)

\* The step that adds record r.
LoggedAs(r) ==
    /\ events' = Append(events, r)
    /\ DOMAIN r = {"event", "threshold", "filter", "open", "lossy", "own"}
    /\ r.event.id = Len(events) + 1 /\ r.event.length \in Nat /\ r.event.priority \in Int
    /\ r.event.ndc = r.own
    /\ r.open = (conn.socket > 0) /\ r.lossy = buffer.lossy
    /\ IF LetThrough(r) THEN AppendTo(r.event) ELSE UNCHANGED <<out, buffer>>
    /\ UNCHANGED <<sink, skel, conn, backend, leaked, isUsedNDC, clone>>

LEMMA AppendLogs ==
    ASSUME SinksInv, NEW t, NEW p \in Priorities, NEW n \in LengthsSeen, DoAppend(t, p, n)
    PROVE  \E r : LoggedAs(r)
<1> DEFINE own == [i \in 1..Len(Stack(t)) |-> Stack(t)[i].message]
           e == LoggingEvent(Len(events) + 1, p, n, Get(t))
           r == [event |-> e, threshold |-> skel.threshold, filter |-> skel.filter,
                 open |-> conn.socket > 0, lossy |-> buffer.lossy, own |-> own]
<1>1. /\ events' = Append(events, r)
      /\ IF Passes(p) THEN AppendTo(e) ELSE UNCHANGED <<out, buffer>>
      /\ UNCHANGED <<sink, skel, conn, backend, leaked, isUsedNDC, clone>>
    BY DEF DoAppend
<1>2. /\ e.id = Len(events) + 1 /\ e.priority = p /\ e.length = n /\ e.ndc = Get(t)
    BY DEF LoggingEvent
<1>3. p \in Int /\ n \in Nat
    BY SinksAssumption DEF LengthsSeen
<1>4. Get(t) = own
    BY GetIsOwn DEF SinksInv
<1> HIDE DEF own, e
<1>5. /\ DOMAIN r = {"event", "threshold", "filter", "open", "lossy", "own"}
      /\ r.event = e /\ r.threshold = skel.threshold /\ r.filter = skel.filter
      /\ r.open = (conn.socket > 0) /\ r.lossy = buffer.lossy /\ r.own = own
    OBVIOUS
<1> HIDE DEF r
<1>6. Passes(p) <=> LetThrough(r)
    BY <1>2, <1>5, PassesMeans DEF SinksInv
<1>7. LoggedAs(r)
    BY <1>1, <1>2, <1>3, <1>4, <1>5, <1>6 DEF LoggedAs
<1> QED
    BY <1>7

LineSinks == {"queue", "ostream", "debug", "syslog", "idsa", "ntevent"}

LEMMA LineAdds ==
    ASSUME NEW r, LoggedAs(r), LetThrough(r), sink \in LineSinks,
           sink \in {"idsa", "ntevent"} => conn.socket > 0
    PROVE  \E x : x.event = r.event.id /\ EntryOf(x, r) /\ out' = out \o <<x>>
<1>1. AppendTo(r.event)
    BY DEF LoggedAs
<1>2. CASE sink = "syslog"
    <2>1. out' = out \o SyslogAppend(r.event)
        BY <1>1, <1>2 DEF AppendTo
    <2> QED
        BY <1>2, <2>1, SyslogEntry
<1>3. CASE sink = "ntevent"
    <2>1. out' = out \o NTEventAppend(r.event)
        BY <1>1, <1>3 DEF AppendTo, SendTo
    <2> QED
        BY <1>3, <2>1, NTEventEntry
<1>4. CASE sink = "idsa"
    <2>1. out' = out \o IdsaAppend(r.event)
        BY <1>1, <1>4 DEF AppendTo, SendTo
    <2> QED
        BY <1>4, <2>1, IdsaEntry DEF LoggedAs
<1>5. CASE sink \in {"queue", "ostream", "debug"}
    <2>1. out' = out \o <<Formatted(r.event)>>
        BY <1>1, <1>5 DEF AppendTo, OstreamAppend, DebugAppend
    <2>2. Formatted(r.event).event = r.event.id /\ EntryOf(Formatted(r.event), r)
        BY <1>5, FormattedEntry DEF LoggedAs
    <2> QED
        BY <2>1, <2>2
<1> QED
    BY <1>2, <1>3, <1>4, <1>5 DEF LineSinks

\* What is to come out, and what came out.
There == IF sink \in {"queue", "idsa", "ntevent"} THEN Sent ELSE Wanted
LineOk ==
    /\ \A i : i \in There <=> \E k \in 1..Len(out) : out[k].event = i
    /\ \A k, l \in 1..Len(out) : k < l => out[k].event < out[l].event
    /\ \A k \in 1..Len(out) : EntryOf(out[k], events[out[k].event])

LEMMA InOrderIs == InOrder <=> (sink \in LineSinks => LineOk)
<1>1. {out[k].event : k \in 1..Len(out)} = There
        <=> \A i : i \in There <=> \E k \in 1..Len(out) : out[k].event = i
    OBVIOUS
<1> QED
    BY <1>1 DEF InOrder, LineOk, There, EntryOf, LineSinks

LEMMA InOrderIsNext == InOrder' <=> (sink' \in LineSinks => LineOk')
<1>1. {out'[k].event : k \in 1..Len(out')} = There'
        <=> \A i : i \in There' <=> \E k \in 1..Len(out') : out'[k].event = i
    OBVIOUS
<1> QED
    BY <1>1 DEF InOrder, LineOk, There, EntryOf, LineSinks

\* What is to come out with one more event.
LEMMA SentGrows ==
    ASSUME SinksInv, NEW r, LoggedAs(r)
    PROVE  /\ Sent' = IF LetThrough(r) /\ r.open THEN Sent \cup {Len(events) + 1} ELSE Sent
           /\ There' = IF LetThrough(r) /\ (sink \in {"queue", "idsa", "ntevent"} => r.open)
                       THEN There \cup {Len(events) + 1} ELSE There
           /\ Wanted \subseteq 1..Len(events) /\ Sent \subseteq Wanted
<1> DEFINE n == Len(events)
<1>1. /\ n \in Nat /\ Len(events') = n + 1 /\ (\A i \in 1..n : events'[i] = events[i])
      /\ events'[n + 1] = r
      /\ Wanted' = IF LetThrough(r) THEN Wanted \cup {n + 1} ELSE Wanted
    BY EventsGrow DEF SinksInv, LoggedAs
<1>2. Wanted \subseteq 1..n /\ Sent \subseteq Wanted
    BY DEF Wanted, Sent
<1> HIDE DEF n
<1>3. Sent' = {i \in Wanted' : events'[i].open}
    BY DEF Sent
<1>4. Sent' = IF LetThrough(r) /\ r.open THEN Sent \cup {n + 1} ELSE Sent
    <2>1. \A i : i \in Sent' <=> (i \in Wanted' /\ events'[i].open)
        BY <1>3
    <2>2. \A i : i \in Sent <=> (i \in Wanted /\ events[i].open)
        BY DEF Sent
    <2>3. \A i \in Wanted : events'[i] = events[i] /\ i # n + 1
        BY <1>1, <1>2
    <2>4. \A i : i \in Sent' <=> (i \in Sent \/ (i = n + 1 /\ LetThrough(r) /\ r.open))
        BY <1>1, <2>1, <2>2, <2>3
    <2> QED
        BY <2>4
<1>5. There' = IF sink \in {"queue", "idsa", "ntevent"} THEN Sent' ELSE Wanted'
    BY DEF There, LoggedAs
<1> QED
    BY <1>1, <1>2, <1>4, <1>5 DEF There, n

LEMMA LineLogged ==
    ASSUME SinksInv, NEW r, LoggedAs(r), sink \in LineSinks
    PROVE  LineOk' /\ IsList(out')
<1> DEFINE n == Len(events)
<1>1. /\ n \in Nat /\ Len(events') = n + 1 /\ (\A i \in 1..n : events'[i] = events[i])
      /\ events'[n + 1] = r
    BY EventsGrow DEF SinksInv, LoggedAs
<1>2. /\ There' = IF LetThrough(r) /\ (sink \in {"queue", "idsa", "ntevent"} => r.open)
                  THEN There \cup {n + 1} ELSE There
      /\ There \subseteq 1..n
    BY SentGrows DEF There
<1>3. LineOk /\ IsList(out) /\ Len(out) \in Nat
    BY InOrderIs, ListFacts DEF SinksInv
<1>4. r.event.id = n + 1 /\ r.open = (conn.socket > 0) /\ UNCHANGED sink
    BY DEF LoggedAs
<1>5. sink = "queue" => conn.socket > 0
    BY DEF SinksInv, ConnOk, Connected
<1> HIDE DEF n
<1>6. \A k \in 1..Len(out) : out[k].event \in There /\ out[k].event \in 1..n
    BY <1>2, <1>3 DEF LineOk
<1>7. CASE LetThrough(r) /\ (sink \in {"idsa", "ntevent"} => conn.socket > 0)
    <2>1. PICK x : x.event = n + 1 /\ EntryOf(x, r) /\ out' = out \o <<x>>
        BY <1>4, <1>7, LineAdds
    <2>2. /\ IsList(out \o <<x>>) /\ Len(out \o <<x>>) = Len(out) + 1
          /\ \A i \in 1..Len(out) : (out \o <<x>>)[i] = out[i]
          /\ (out \o <<x>>)[Len(out) + 1] = x
        BY <1>3, ListJoined, ListOne
    <2>3. /\ IsList(out') /\ Len(out') = Len(out) + 1
          /\ \A i \in 1..Len(out) : out'[i] = out[i]
          /\ out'[Len(out) + 1] = x
        BY <2>1, <2>2
    <2>4. There' = There \cup {n + 1}
        BY <1>2, <1>4, <1>5, <1>7
    <2>5. \A k \in 1..Len(out') : k \in 1..Len(out) \/ k = Len(out) + 1
        BY <1>3, <2>3
    <2>6. \A i : i \in There' <=> \E k \in 1..Len(out') : out'[k].event = i
        <3> TAKE i
        <3>1. ASSUME i \in There' PROVE \E k \in 1..Len(out') : out'[k].event = i
            <4>1. CASE i = n + 1
                BY <1>3, <2>1, <2>3, <4>1
            <4>2. CASE i \in There
                <5>1. PICK k \in 1..Len(out) : out[k].event = i
                    BY <1>3, <4>2 DEF LineOk
                <5>2. k \in 1..Len(out') /\ out'[k].event = i
                    BY <1>3, <2>3, <5>1
                <5> QED
                    BY <5>2
            <4> QED
                BY <2>4, <3>1, <4>1, <4>2
        <3>2. ASSUME NEW k \in 1..Len(out'), out'[k].event = i PROVE i \in There'
            BY <1>6, <2>1, <2>3, <2>4, <2>5, <3>2
        <3> QED
            BY <3>1, <3>2
    <2>7. \A k, l \in 1..Len(out') : k < l => out'[k].event < out'[l].event
        <3> SUFFICES ASSUME NEW k \in 1..Len(out'), NEW l \in 1..Len(out'), k < l
                     PROVE  out'[k].event < out'[l].event
            OBVIOUS
        <3>1. k \in 1..Len(out) /\ out'[k] = out[k]
            BY <1>3, <2>3
        <3>2. CASE l \in 1..Len(out)
            BY <1>3, <2>3, <3>1, <3>2 DEF LineOk
        <3>3. CASE l = Len(out) + 1
            <4>1. out'[l].event = n + 1
                BY <2>1, <2>3, <3>3
            <4> QED
                BY <1>1, <1>6, <3>1, <4>1
        <3> QED
            BY <2>5, <3>2, <3>3
    <2>8. \A k \in 1..Len(out') : EntryOf(out'[k], events'[out'[k].event])
        <3> TAKE k \in 1..Len(out')
        <3>1. CASE k \in 1..Len(out)
            BY <1>1, <1>3, <1>6, <2>3, <3>1 DEF LineOk
        <3>2. CASE k = Len(out) + 1
            BY <1>1, <2>1, <2>3, <3>2
        <3> QED
            BY <2>5, <3>1, <3>2
    <2>9. \A k \in 1..Len(out') : EntryOf(out[k], events[out[k].event])'
        BY <1>4, <2>8 DEF EntryOf, Named
    <2> QED
        BY <2>3, <2>6, <2>7, <2>9 DEF LineOk
<1>8. CASE ~(LetThrough(r) /\ (sink \in {"idsa", "ntevent"} => conn.socket > 0))
    <2>1. out' = out
        <3>1. CASE ~LetThrough(r)
            BY <3>1 DEF LoggedAs
        <3>2. CASE LetThrough(r)
            <4>1. sink \in {"idsa", "ntevent"} /\ ~(conn.socket > 0) /\ AppendTo(r.event)
                BY <1>8, <3>2 DEF LoggedAs
            <4> QED
                BY <4>1 DEF AppendTo, SendTo
        <3> QED
            BY <3>1, <3>2
    <2>2. There' = There
        BY <1>2, <1>4, <1>8
    <2>3. \A k \in 1..Len(out) : EntryOf(out[k], events'[out[k].event])
        BY <1>1, <1>3, <1>6 DEF LineOk
    <2>4. \A k \in 1..Len(out') : EntryOf(out[k], events[out[k].event])'
        BY <1>4, <2>1, <2>3 DEF EntryOf, Named
    <2> QED
        BY <1>3, <2>1, <2>2, <2>4 DEF LineOk
<1> QED
    BY <1>7, <1>8

\* popMessage takes the first entry and what is known of its event with it.
LEMMA PopKeepsLine ==
    ASSUME SinksInv, PopMessage
    PROVE  LineOk' /\ IsList(out') /\ EventsOk'
<1>1. /\ sink = "queue" /\ sink' = sink /\ out # << >> /\ out' = Tail(out)
      /\ events' = [events EXCEPT ![Head(out).event].open = FALSE]
    BY DEF PopMessage
<1>2. LineOk /\ IsList(out) /\ Len(out) \in Nat
    BY <1>1, InOrderIs, ListFacts DEF SinksInv, LineSinks
<1>3. /\ IsList(out') /\ Len(out) > 0 /\ Head(out) = out[1] /\ Len(out') = Len(out) - 1
      /\ \A i \in 1..(Len(out) - 1) : out'[i] = out[i + 1]
    BY <1>1, <1>2, ListTail
<1> DEFINE n == Len(events)
           a == out[1].event
<1>4. IsList(events) /\ n \in Nat /\ DOMAIN events = 1..n
    BY ListFacts DEF SinksInv, EventsOk
<1>5. There = Sent /\ There' = Sent' /\ Sent \subseteq Wanted /\ Wanted \subseteq 1..n
    BY <1>1 DEF There, Sent, Wanted
<1>6. \A k \in 1..Len(out) : out[k].event \in Sent /\ out[k].event \in 1..n
    BY <1>2, <1>5 DEF LineOk
<1>7. a \in 1..n
    BY <1>2, <1>3, <1>6
<1>8. /\ DOMAIN events' = 1..n
      /\ \A i \in 1..n : events'[i] = IF i = a THEN [events[i] EXCEPT !.open = FALSE] ELSE events[i]
    BY <1>1, <1>3, <1>4, <1>7
<1>9. \A i \in 1..n : DOMAIN events[i] = {"event", "threshold", "filter", "open", "lossy", "own"}
    BY DEF SinksInv, EventsOk
<1> HIDE DEF n, a
<1>10. \A i \in 1..n :
          /\ DOMAIN events'[i] = {"event", "threshold", "filter", "open", "lossy", "own"}
          /\ events'[i].event = events[i].event /\ events'[i].threshold = events[i].threshold
          /\ events'[i].filter = events[i].filter /\ events'[i].own = events[i].own
          /\ events'[i].open = IF i = a THEN FALSE ELSE events[i].open
    BY <1>8, <1>9
<1>11. IsList(events') /\ Len(events') = n
    <2>1. events' = [i \in 1..n |-> events'[i]]
        BY <1>1, <1>3, <1>4 DEF a
    <2> QED
        BY <1>4, <2>1, ListIs
<1>12. EventsOk'
    BY <1>10, <1>11 DEF SinksInv, EventsOk, n
<1>13. \A i : i \in Wanted' <=> i \in Wanted
    <2>1. \A i \in 1..n : LetThrough(events'[i]) <=> LetThrough(events[i])
        BY <1>10 DEF LetThrough
    <2>2. Wanted' = {i \in 1..n : LetThrough(events'[i])}
        BY <1>11 DEF Wanted, Let, LetThrough
    <2> QED
        BY <2>1, <2>2, WantedIs DEF n
<1>14. \A i : i \in There' <=> (i \in There /\ i # a)
    <2>1. \A i : i \in Sent' <=> (i \in Wanted' /\ events'[i].open)
        BY DEF Sent
    <2>2. \A i : i \in Sent <=> (i \in Wanted /\ events[i].open)
        BY DEF Sent
    <2> QED
        BY <1>5, <1>10, <1>13, <2>1, <2>2
<1>15. \A k \in 1..Len(out') : k + 1 \in 1..Len(out) /\ out'[k] = out[k + 1] /\ out'[k].event # a
    <2> TAKE k \in 1..Len(out')
    <2>1. k + 1 \in 1..Len(out) /\ 1 \in 1..Len(out) /\ 1 < k + 1 /\ out'[k] = out[k + 1]
        BY <1>2, <1>3
    <2>2. out[1].event < out[k + 1].event
        BY <1>2, <2>1 DEF LineOk
    <2>3. out[1].event \in 1..n /\ out[k + 1].event \in 1..n
        BY <1>6, <2>1
    <2> QED
        BY <1>4, <2>1, <2>2, <2>3 DEF a
<1>16. \A i : i \in There' <=> \E k \in 1..Len(out') : out'[k].event = i
    <2> TAKE i
    <2>1. ASSUME i \in There' PROVE \E k \in 1..Len(out') : out'[k].event = i
        <3>1. PICK k \in 1..Len(out) : out[k].event = i
            BY <1>2, <1>14, <2>1 DEF LineOk
        <3>2. k # 1
            BY <1>14, <2>1, <3>1 DEF a
        <3>3. k - 1 \in 1..Len(out') /\ out'[k - 1] = out[k]
            BY <1>2, <1>3, <3>2
        <3> QED
            BY <3>1, <3>3
    <2>2. ASSUME NEW k \in 1..Len(out'), out'[k].event = i PROVE i \in There'
        BY <1>2, <1>14, <1>15, <2>2 DEF LineOk
    <2> QED
        BY <2>1, <2>2
<1>17. \A k, l \in 1..Len(out') : k < l => out'[k].event < out'[l].event
    <2> SUFFICES ASSUME NEW k \in 1..Len(out'), NEW l \in 1..Len(out'), k < l
                 PROVE  out'[k].event < out'[l].event
        OBVIOUS
    <2>1. k + 1 < l + 1
        BY <1>3, <1>2
    <2> QED
        BY <1>2, <1>15, <2>1 DEF LineOk
<1>18. \A k \in 1..Len(out') : EntryOf(out[k], events[out[k].event])'
    <2> SUFFICES ASSUME NEW k \in 1..Len(out')
                 PROVE  EntryOf(out[k], events[out[k].event])'
        OBVIOUS
    <2>1. EntryOf(out[k + 1], events[out[k + 1].event]) /\ out[k + 1].event \in 1..n
        BY <1>2, <1>6, <1>15 DEF LineOk
    <2>2. out'[k] = out[k + 1] /\ events'[out'[k].event] = events[out'[k].event]
        BY <1>8, <1>15, <2>1
    <2> QED
        BY <1>1, <2>1, <2>2 DEF EntryOf, Named
<1> QED
    BY <1>3, <1>12, <1>16, <1>17, <1>18 DEF LineOk
-----------------------------------------------------------------------------
(* The packets of a syslog message.                                        *)

LEMMA Quotient ==
    ASSUME NEW a \in Nat, NEW d \in Nat \ {0}
    PROVE  a \div d \in Nat /\ (a \div d) * d <= a /\ a < (a \div d) * d + d
OBVIOUS

LEMMA ProductUp ==
    ASSUME NEW i \in Int, NEW j \in Int, NEW d \in Nat, i <= j
    PROVE  i * d \in Int /\ j * d \in Int /\ i * d <= j * d
<1>1. (j - i) * d >= 0
    OBVIOUS
<1> QED
    BY <1>1

LEMMA ProductOrder ==
    ASSUME NEW i \in Int, NEW j \in Int, NEW d \in Nat \ {0}, i * d < j * d
    PROVE  i < j
<1> SUFFICES ASSUME j <= i PROVE FALSE
    OBVIOUS
<1> QED
    BY ProductUp

LEMMA ProductLess == ASSUME NEW i \in Int, NEW d \in Nat PROVE (i - 1) * d = i * d - d
OBVIOUS

\* They cover the message, each byte once and in order.
LEMMA PacketFacts ==
    ASSUME NEW e, e.length \in Nat
    PROVE  LET P == Packets(e)
           IN  /\ IsList(P)
               /\ \A i \in 1..Len(P) :
                     /\ P[i].event = e.id /\ 1 <= P[i].first /\ P[i].last <= e.length
                     /\ P[i].first \in Int /\ P[i].last \in Int
                     /\ Preamble + P[i].last - P[i].first + 1 <= PacketSize
               /\ \A i, j \in 1..Len(P) : i < j => P[i].last < P[j].first
               /\ \A b \in 1..e.length : \E i \in 1..Len(P) : b \in P[i].first..P[i].last
<1> DEFINE R == Room
           m == e.length
           n == (m + R - 1) \div R
           end(i) == IF i * R < m THEN i * R ELSE m
           P == [i \in 1..n |-> [event |-> e.id, priority |-> ToSyslogPriority(e.priority),
                                 first |-> (i - 1) * R + 1, last |-> end(i)]]
<1>1. Packets(e) = P
    BY DEF Packets
<1>2. R \in Nat \ {0} /\ R = PacketSize - Preamble /\ PacketSize \in Nat /\ Preamble \in Nat
    BY SinksAssumption DEF Room
<1> HIDE DEF R
<1>3. n \in Nat /\ n * R <= m + R - 1 /\ m + R - 1 < n * R + R
    <2> DEFINE k == m + R - 1
    <2>1. k \in Nat
        BY <1>2
    <2>2. n = k \div R
        OBVIOUS
    <2> HIDE DEF k
    <2>3. n \in Nat /\ n * R <= k /\ k < n * R + R
        BY <1>2, <2>1, <2>2, Quotient
    <2> QED
        BY <2>3 DEF k
<1> HIDE DEF n
<1>4. /\ \A i \in 1..n : /\ P[i].event = e.id
                         /\ P[i].first = (i - 1) * R + 1 /\ P[i].last = end(i)
      /\ P = [i \in 1..n |-> P[i]]
    OBVIOUS
<1> HIDE DEF P
<1>5. IsList(P) /\ Len(P) = n
    BY <1>3, <1>4, ListIs
<1>6. \A i \in 1..n : /\ i * R \in Int /\ (i - 1) * R = i * R - R /\ 0 <= (i - 1) * R
                      /\ end(i) \in Int /\ end(i) <= m /\ end(i) <= i * R
    <2> TAKE i \in 1..n
    <2>1. (i - 1) * R = i * R - R /\ i * R \in Int
        BY <1>2, <1>3, ProductLess
    <2>2. 0 * R <= (i - 1) * R
        BY <1>2, <1>3, ProductUp
    <2> QED
        BY <1>2, <2>1, <2>2
<1> HIDE DEF end
<1>7. \A i \in 1..n : /\ 1 <= P[i].first /\ P[i].last <= m
                      /\ P[i].first \in Int /\ P[i].last \in Int
                      /\ Preamble + P[i].last - P[i].first + 1 <= PacketSize
    <2> TAKE i \in 1..n
    <2>1. PICK a \in Int : a = i * R
        BY <1>6
    <2>2. P[i].first = a - R + 1 /\ 0 <= a - R
        BY <1>4, <1>6, <2>1
    <2>3. P[i].last \in Int /\ P[i].last <= m /\ P[i].last <= a
        BY <1>4, <1>6, <2>1
    <2> QED
        BY <1>2, <2>2, <2>3
<1>8. ASSUME NEW i \in 1..n, NEW j \in 1..n, i < j PROVE P[i].last < P[j].first
    <2>1. i * R <= (j - 1) * R
        BY <1>2, <1>3, <1>8, ProductUp
    <2>2. P[i].last \in Int /\ P[i].last <= i * R /\ i * R \in Int
        BY <1>4, <1>6
    <2>3. PICK a \in Int : a = (j - 1) * R
        BY <1>2, <1>6
    <2>4. P[j].first = a + 1 /\ i * R <= a
        BY <1>4, <2>1, <2>3
    <2> QED
        BY <2>2, <2>4
<1>9. ASSUME NEW b \in 1..m PROVE \E i \in 1..n : b \in P[i].first..P[i].last
    <2> DEFINE q == (b - 1) \div R
    <2>1. b - 1 \in Nat /\ b <= m
        OBVIOUS
    <2>2. q \in Nat /\ q * R <= b - 1 /\ b - 1 < q * R + R
        BY <1>2, <2>1, Quotient
    <2> HIDE DEF q
    <2>3. q * R < n * R
        BY <1>2, <1>3, <2>1, <2>2
    <2>4. q < n
        BY <1>2, <1>3, <2>2, <2>3, ProductOrder
    <2>5. q + 1 \in 1..n /\ (q + 1) * R = q * R + R
        BY <1>2, <1>3, <2>2, <2>4
    <2>6. P[q + 1].first = q * R + 1
        BY <1>4, <2>2, <2>5
    <2>7. P[q + 1].last = end(q + 1)
        BY <1>4, <2>5
    <2>8. b <= end(q + 1)
        BY <1>2, <2>1, <2>2, <2>5 DEF end
    <2>9. b \in P[q + 1].first..P[q + 1].last
        <3>1. PICK a \in Int : a = q * R
            BY <1>2, <2>2
        <3>2. a + 1 <= b /\ P[q + 1].first = a + 1
            BY <2>2, <2>6, <3>1
        <3>3. end(q + 1) \in Int
            BY <1>6, <2>5
        <3> QED
            BY <2>7, <2>8, <3>2, <3>3
    <2> QED
        BY <2>5, <2>9
<1> QED
    BY <1>1, <1>4, <1>5, <1>7, <1>8, <1>9

LEMMA RemoteLogged ==
    ASSUME SinksInv, NEW r, LoggedAs(r), sink = "remote"
    PROVE  PacketsJoin' /\ IsList(out')
<1> DEFINE n == Len(events)
<1>1. /\ n \in Nat /\ Len(events') = n + 1 /\ (\A i \in 1..n : events'[i] = events[i])
      /\ events'[n + 1] = r
    BY EventsGrow DEF SinksInv, LoggedAs
<1>2. /\ Sent' = IF LetThrough(r) /\ r.open THEN Sent \cup {n + 1} ELSE Sent
      /\ Sent \subseteq 1..n
    BY SentGrows
<1>3. PacketsJoin /\ IsList(out) /\ Len(out) \in Nat
    BY ListFacts DEF SinksInv
<1>4. /\ r.event.id = n + 1 /\ r.open = (conn.socket > 0) /\ sink' = sink
      /\ r.event.length \in Nat
    BY DEF LoggedAs
<1> HIDE DEF n
<1>5. \A k \in 1..Len(out) : out[k].event \in Sent /\ out[k].event \in 1..n
    BY <1>2, <1>3 DEF PacketsJoin
<1>6. CASE LetThrough(r) /\ r.open
    <2> DEFINE P == Packets(r.event)
    <2>1. out' = out \o P
        BY <1>4, <1>6 DEF LoggedAs, AppendTo, SendTo
    <2>2. /\ IsList(P)
          /\ \A i \in 1..Len(P) :
                /\ P[i].event = n + 1 /\ 1 <= P[i].first /\ P[i].last <= r.event.length
                /\ Preamble + P[i].last - P[i].first + 1 <= PacketSize
          /\ \A i, j \in 1..Len(P) : i < j => P[i].last < P[j].first
          /\ \A b \in 1..r.event.length : \E i \in 1..Len(P) : b \in P[i].first..P[i].last
        BY <1>4, PacketFacts
    <2> HIDE DEF P
    <2>3. /\ IsList(out') /\ Len(out') = Len(out) + Len(P) /\ Len(P) \in Nat
          /\ \A i \in 1..Len(out) : out'[i] = out[i]
          /\ \A i \in 1..Len(P) : out'[Len(out) + i] = P[i]
        BY <1>3, <2>1, <2>2, ListJoined, ListFacts
    <2>4. \A k \in 1..Len(out') :
             \/ k \in 1..Len(out) /\ out'[k] = out[k]
             \/ k > Len(out) /\ (k - Len(out)) \in 1..Len(P) /\ out'[k] = P[k - Len(out)]
        <3> TAKE k \in 1..Len(out')
        <3>1. k \in 1..Len(out) \/ (k > Len(out) /\ (k - Len(out)) \in 1..Len(P))
            BY <1>3, <2>3
        <3>2. ASSUME (k - Len(out)) \in 1..Len(P) PROVE out'[k] = P[k - Len(out)]
            <4>1. out'[Len(out) + (k - Len(out))] = P[k - Len(out)]
                BY <2>3, <3>2
            <4>2. Len(out) + (k - Len(out)) = k
                BY <1>3
            <4> QED
                BY <4>1, <4>2
        <3> QED
            BY <2>3, <3>1, <3>2
    <2>5. Sent' = Sent \cup {n + 1}
        BY <1>2, <1>6
    <2>6. ASSUME NEW i \in Sent', NEW b \in 1..events'[i].event.length
          PROVE  \E k \in 1..Len(out') : out'[k].event = i /\ b \in out'[k].first..out'[k].last
        <3>1. CASE i = n + 1
            <4>1. b \in 1..r.event.length
                BY <1>1, <2>6, <3>1
            <4>2. PICK j \in 1..Len(P) : b \in P[j].first..P[j].last
                BY <2>2, <4>1
            <4>3. Len(out) + j \in 1..Len(out') /\ out'[Len(out) + j] = P[j]
                BY <1>3, <2>3
            <4> QED
                BY <2>2, <3>1, <4>2, <4>3
        <3>2. CASE i \in Sent
            <4>1. b \in 1..events[i].event.length
                BY <1>1, <1>2, <2>6, <3>2
            <4>2. PICK k \in 1..Len(out) : out[k].event = i /\ b \in out[k].first..out[k].last
                BY <1>3, <3>2, <4>1 DEF PacketsJoin
            <4>3. k \in 1..Len(out') /\ out'[k] = out[k]
                BY <1>3, <2>3
            <4> QED
                BY <4>2, <4>3
        <3> QED
            BY <2>5, <3>1, <3>2
    <2>7. ASSUME NEW k \in 1..Len(out')
          PROVE  /\ out'[k].event \in Sent'
                 /\ 1 <= out'[k].first /\ out'[k].last <= events'[out'[k].event].event.length
                 /\ Preamble + out'[k].last - out'[k].first + 1 <= PacketSize
        <3>1. CASE k \in 1..Len(out) /\ out'[k] = out[k]
            BY <1>1, <1>3, <1>5, <2>5, <3>1 DEF PacketsJoin
        <3>2. CASE (k - Len(out)) \in 1..Len(P) /\ out'[k] = P[k - Len(out)]
            BY <1>1, <2>2, <2>5, <3>2
        <3> QED
            BY <2>4, <3>1, <3>2
    <2>8. ASSUME NEW k \in 1..Len(out'), NEW l \in 1..Len(out'), k < l
          PROVE  \/ out'[k].event < out'[l].event
                 \/ out'[k].event = out'[l].event /\ out'[k].last < out'[l].first
        <3>1. CASE l \in 1..Len(out) /\ out'[l] = out[l]
            <4>1. k \in 1..Len(out) /\ out'[k] = out[k]
                BY <1>3, <2>3, <2>8, <3>1
            <4> QED
                BY <1>3, <2>8, <3>1, <4>1 DEF PacketsJoin
        <3>2. CASE (l - Len(out)) \in 1..Len(P) /\ out'[l] = P[l - Len(out)]
            <4>1. out'[l].event = n + 1
                BY <2>2, <3>2
            <4>2. CASE k \in 1..Len(out) /\ out'[k] = out[k]
                BY <1>1, <1>5, <4>1, <4>2
            <4>3. CASE (k - Len(out)) \in 1..Len(P) /\ out'[k] = P[k - Len(out)]
                <5>1. k - Len(out) < l - Len(out)
                    BY <1>3, <2>8, <2>3
                <5> QED
                    BY <2>2, <3>2, <4>3, <5>1
            <4> QED
                BY <2>4, <4>2, <4>3
        <3> QED
            BY <2>4, <3>1, <3>2
    <2> QED
        BY <2>3, <2>6, <2>7, <2>8 DEF PacketsJoin
<1>7. CASE ~(LetThrough(r) /\ r.open)
    <2>1. out' = out
        BY <1>4, <1>7 DEF LoggedAs, AppendTo, SendTo
    <2>2. Sent' = Sent
        BY <1>2, <1>7
    <2>3. \A i \in Sent : events'[i] = events[i]
        BY <1>1, <1>2
    <2> QED
        BY <1>3, <1>4, <1>5, <2>1, <2>2, <2>3 DEF PacketsJoin
<1> QED
    BY <1>6, <1>7
-----------------------------------------------------------------------------
(* The buffering appender.                                                 *)

\* The numbers of W in s, the newest first.
QueueOf(s, W) ==
    /\ IsList(s)
    /\ \A q \in 1..Len(s) : s[q].id \in W
    /\ \A q, r \in 1..Len(s) : q < r => s[q].id > s[r].id

LEMMA DumpFacts ==
    ASSUME NEW W \in SUBSET Nat, NEW s, QueueOf(s, W)
    PROVE  LET d == Dump(s).dumped
           IN  /\ IsList(d)
               /\ \A x, y \in 1..Len(d) : x < y => d[x] < d[y]
               /\ Range(d) = {s[q].id : q \in 1..Len(s)}
               /\ Len(s) > 0 => Last(d) = s[1].id
<1> DEFINE n == Len(s)
           d == [i \in 1..n |-> s[n - i + 1].id]
<1>1. Dump(s).dumped = d
    BY DEF Dump
<1>2. n \in Nat
    BY ListFacts DEF QueueOf
<1> HIDE DEF n
<1>3. d = [i \in 1..n |-> d[i]] /\ DOMAIN d = 1..n /\ \A i \in 1..n : d[i] = s[n - i + 1].id
    OBVIOUS
<1> HIDE DEF d
<1>4. IsList(d) /\ Len(d) = n
    BY <1>2, <1>3, ListIs
<1>5. ASSUME NEW x \in 1..n, NEW y \in 1..n, x < y PROVE d[x] < d[y]
    <2>1. n - y + 1 \in 1..n /\ n - x + 1 \in 1..n /\ n - y + 1 < n - x + 1
        BY <1>2, <1>5
    <2>2. s[n - y + 1].id > s[n - x + 1].id
        BY <2>1 DEF QueueOf, n
    <2>3. s[n - y + 1].id \in Nat /\ s[n - x + 1].id \in Nat
        BY <2>1 DEF QueueOf, n
    <2> QED
        BY <1>3, <2>2, <2>3
<1>6. Range(d) = {s[q].id : q \in 1..n}
    <2>1. ASSUME NEW x \in 1..n PROVE d[x] \in {s[q].id : q \in 1..n}
        <3>1. n - x + 1 \in 1..n
            BY <1>2
        <3> QED
            BY <1>3, <3>1
    <2>2. ASSUME NEW q \in 1..n PROVE \E x \in 1..n : d[x] = s[q].id
        <3>1. n - q + 1 \in 1..n /\ n - (n - q + 1) + 1 = q
            BY <1>2
        <3>2. d[n - q + 1] = s[n - (n - q + 1) + 1].id
            BY <1>3, <3>1
        <3> QED
            BY <3>1, <3>2
    <2>3. Range(d) = {d[x] : x \in 1..n}
        BY <1>3 DEF Range
    <2> QED
        BY <2>1, <2>2, <2>3
<1>7. ASSUME n > 0 PROVE Last(d) = s[1].id
    <2>1. Last(d) = d[n] /\ n \in 1..n /\ n - n + 1 = 1
        BY <1>2, <1>4, <1>7 DEF Last
    <2> QED
        BY <1>3, <2>1
<1> QED
    BY <1>1, <1>4, <1>5, <1>6, <1>7 DEF n

LEMMA MaybeAdded ==
    ASSUME NEW s, IsList(s), NEW x, NEW t, t = <<x>> \/ t = << >>, NEW u, u = s \o t
    PROVE  /\ IsList(u) /\ Len(u) \in Nat /\ Len(u) >= Len(s)
           /\ \A k \in 1..Len(s) : u[k] = s[k]
           /\ \A k \in 1..Len(u) : k \in 1..Len(s) \/ u[k] = x
           /\ t = <<x>> => Len(u) = Len(s) + 1 /\ u[Len(u)] = x
<1>1. Len(s) \in Nat
    BY ListFacts
<1>2. CASE t = <<x>>
    <2>1. /\ IsList(u) /\ Len(u) = Len(s) + 1 /\ (\A k \in 1..Len(s) : u[k] = s[k])
          /\ u[Len(s) + 1] = x
        BY <1>1, <1>2, ListJoined, ListOne
    <2>2. \A k \in 1..Len(u) : k \in 1..Len(s) \/ k = Len(s) + 1
        BY <1>1, <2>1
    <2> QED
        BY <1>1, <2>1, <2>2
<1>3. CASE t = << >>
    <2>1. IsList(u) /\ Len(u) = Len(s) /\ (\A k \in 1..Len(s) : u[k] = s[k])
        BY <1>1, <1>3, ListJoined, ListNone
    <2>2. Len(<<x>>) # Len(t)
        BY <1>3, ListOne, ListNone
    <2> QED
        BY <1>1, <1>3, <2>1, <2>2
<1> QED
    BY <1>2, <1>3

\* The parts of BufferedAppend.
Full == Len(buffer.queue) = MaxQueue
Held == IF Full /\ buffer.lossy THEN Front(buffer.queue) ELSE buffer.queue

LEMMA BufferedIs ==
    ASSUME NEW e, BufferedAppend(e), DOMAIN buffer = {"queue", "lossy"}
    PROVE  /\ out' = out \o (IF Full /\ ~buffer.lossy THEN <<Dump(Held)>> ELSE << >>)
                         \o (IF LevelReached(e) THEN <<Dump(<<e>> \o Held)>> ELSE << >>)
           /\ buffer'.queue = IF LevelReached(e) THEN << >> ELSE <<e>> \o Held
           /\ DOMAIN buffer' = {"queue", "lossy"} /\ buffer'.lossy = buffer.lossy
BY DEF BufferedAppend, Full, Held

LEMMA DumpedIs == \A i : i \in Dumped <=> \E k \in 1..Len(out) : i \in Range(out[k].dumped)
BY DEF Dumped

LEMMA DumpedIsNext ==
    \A i : i \in Dumped' <=> \E k \in 1..Len(out') : i \in Range(out'[k].dumped)
BY DEF Dumped

LEMMA TriggersGrow ==
    ASSUME SinksInv, NEW r, LoggedAs(r)
    PROVE  \A i : i \in Triggers' <=>
                    \/ i \in Triggers
                    \/ i = Len(events) + 1 /\ LetThrough(r) /\ LevelReached(r.event)
<1> DEFINE n == Len(events)
<1>1. /\ n \in Nat /\ (\A i \in 1..n : events'[i] = events[i])
      /\ events'[n + 1] = r
      /\ Wanted' = IF LetThrough(r) THEN Wanted \cup {n + 1} ELSE Wanted
    BY EventsGrow DEF SinksInv, LoggedAs
<1>2. Wanted \subseteq 1..n
    BY DEF Wanted
<1> HIDE DEF n
<1>3. \A i : i \in Triggers' <=> (i \in Wanted' /\ LevelReached(events'[i].event))
    BY DEF Triggers, LevelReached
<1>4. \A i : i \in Triggers <=> (i \in Wanted /\ LevelReached(events[i].event))
    BY DEF Triggers
<1>5. \A i \in Wanted : events'[i] = events[i] /\ i # n + 1
    BY <1>1, <1>2
<1> QED
    BY <1>1, <1>3, <1>4, <1>5 DEF n

LEMMA HeldFacts ==
    ASSUME NEW W, QueueOf(buffer.queue, W), buffer.lossy \in BOOLEAN
    PROVE  /\ QueueOf(Held, W) /\ Len(Held) \in Nat
           /\ \A i \in 1..Len(Held) : i \in 1..Len(buffer.queue) /\ Held[i] = buffer.queue[i]
           /\ ~buffer.lossy => Held = buffer.queue
<1> DEFINE Q == buffer.queue
<1>1. IsList(Q) /\ Len(Q) \in Nat
    BY ListFacts DEF QueueOf
<1>2. CASE Full /\ buffer.lossy
    <2>1. Len(Q) # 0
        BY <1>2, SinksAssumption DEF Full
    <2>2. Q # << >>
        BY <1>1, <2>1, ListEmpty
    <2> DEFINE h == Front(Q)
    <2>3. IsList(h) /\ Len(h) = Len(Q) - 1 /\ \A i \in 1..(Len(Q) - 1) : h[i] = Q[i]
        BY <1>1, <2>2, ListFront
    <2>4. Held = h
        BY <1>2 DEF Held
    <2> HIDE DEF h
    <2>5. \A i \in 1..Len(h) : i \in 1..Len(Q) /\ h[i] = Q[i]
        BY <1>1, <2>3
    <2>6. QueueOf(h, W)
        BY <2>3, <2>5 DEF QueueOf
    <2> QED
        BY <1>1, <1>2, <2>1, <2>3, <2>4, <2>5, <2>6
<1>3. CASE ~(Full /\ buffer.lossy)
    BY <1>1, <1>3 DEF Held
<1> QED
    BY <1>2, <1>3

\* The queue with one more event in front.
LEMMA QueuedFacts ==
    ASSUME NEW n \in Nat, NEW W \in SUBSET (1..n), NEW s, QueueOf(s, W), NEW e, e.id = n + 1,
           NEW q, q = <<e>> \o s
    PROVE  /\ QueueOf(q, W \cup {n + 1})
           /\ Len(q) = Len(s) + 1 /\ q[1] = e
           /\ \A i \in 1..Len(s) : q[i + 1] = s[i]
<1>1. IsList(s) /\ Len(s) \in Nat
    BY ListFacts DEF QueueOf
<1>2. /\ IsList(q) /\ Len(q) = Len(s) + 1 /\ q[1] = e
      /\ \A i \in 1..Len(s) : q[1 + i] = s[i]
    BY <1>1, ListJoined, ListOne
<1>3. \A i \in 1..Len(s) : q[i + 1] = s[i] /\ s[i].id \in W /\ s[i].id \in 1..n
    <2> TAKE i \in 1..Len(s)
    <2>1. 1 + i = i + 1
        OBVIOUS
    <2> QED
        BY <1>2, <2>1 DEF QueueOf
<1>4. \A i \in 1..Len(q) : i = 1 \/ ((i - 1) \in 1..Len(s) /\ q[i] = s[i - 1])
    <2> TAKE i \in 1..Len(q)
    <2>1. i = 1 \/ (i - 1) \in 1..Len(s)
        BY <1>1, <1>2
    <2>2. (i - 1) + 1 = i
        BY <1>1, <1>2
    <2> QED
        BY <1>3, <2>1, <2>2
<1>5. \A i \in 1..Len(q) : q[i].id \in W \cup {n + 1}
    BY <1>2, <1>3, <1>4
<1>6. ASSUME NEW i \in 1..Len(q), NEW j \in 1..Len(q), i < j PROVE q[i].id > q[j].id
    <2>1. (j - 1) \in 1..Len(s) /\ q[j] = s[j - 1]
        BY <1>1, <1>2, <1>4, <1>6
    <2>2. CASE i = 1
        <3>1. q[i].id = n + 1
            BY <1>2, <2>2
        <3> QED
            BY <1>3, <2>1, <3>1
    <2>3. CASE (i - 1) \in 1..Len(s) /\ q[i] = s[i - 1]
        <3>1. i - 1 < j - 1
            BY <1>1, <1>2, <1>6
        <3> QED
            BY <2>1, <2>3, <3>1 DEF QueueOf
    <2> QED
        BY <1>4, <2>2, <2>3
<1>7. QueueOf(q, W \cup {n + 1})
    BY <1>2, <1>5, <1>6 DEF QueueOf
<1> QED
    BY <1>2, <1>3, <1>7

LEMMA BufferPassed ==
    ASSUME SinksInv, NEW r, LoggedAs(r), sink = "buffer", LetThrough(r)
    PROVE  BufferOk' /\ BufferDumps' /\ IsList(out')
<1> DEFINE n == Len(events)
           e == r.event
           L == LevelReached(e)
           h == Held
           q == <<e>> \o h
           early == IF Full /\ ~buffer.lossy THEN <<Dump(h)>> ELSE << >>
           late == IF L THEN <<Dump(q)>> ELSE << >>
           mid == out \o early
<1>1. /\ n \in Nat /\ Len(events') = n + 1 /\ (\A i \in 1..n : events'[i] = events[i])
      /\ events'[n + 1] = r
      /\ Wanted' = Wanted \cup {n + 1}
    BY EventsGrow DEF SinksInv, LoggedAs
<1>2. Wanted \in SUBSET (1..n)
    BY DEF Wanted
<1>3. e.id = n + 1 /\ r.lossy = buffer.lossy /\ sink' = sink /\ BufferedAppend(e)
    BY DEF LoggedAs, AppendTo
<1>4. BufferOk /\ BufferDumps /\ IsList(out) /\ Len(out) \in Nat
    BY ListFacts DEF SinksInv
<1>5. /\ out' = mid \o late
      /\ buffer'.queue = IF L THEN << >> ELSE q
      /\ DOMAIN buffer' = {"queue", "lossy"} /\ buffer'.lossy \in BOOLEAN
    BY <1>3, <1>4, BufferedIs DEF BufferOk
<1>6. QueueOf(buffer.queue, Wanted)
    BY <1>4 DEF BufferOk, QueueOf
<1>7. /\ QueueOf(h, Wanted) /\ Len(h) \in Nat
      /\ \A i \in 1..Len(h) : i \in 1..Len(buffer.queue) /\ h[i] = buffer.queue[i]
      /\ ~buffer.lossy => h = buffer.queue
    BY <1>4, <1>6, HeldFacts DEF BufferOk
<1> HIDE DEF n, h, e
<1>8. /\ QueueOf(q, Wanted \cup {n + 1}) /\ Len(q) = Len(h) + 1 /\ q[1] = e
      /\ \A i \in 1..Len(h) : q[i + 1] = h[i]
    <2>1. q = <<e>> \o h
        OBVIOUS
    <2> HIDE DEF q
    <2> QED
        <3>1. n \in Nat /\ Wanted \in SUBSET (1..n) /\ QueueOf(h, Wanted) /\ e.id = n + 1
            BY <1>1, <1>2, <1>3, <1>7
        <3>2. QueueOf(q, Wanted \cup {n + 1})
            BY <2>1, <3>1, QueuedFacts
        <3>3. Len(q) = Len(h) + 1
            BY <2>1, <3>1, QueuedFacts
        <3>4. q[1] = e
            BY <2>1, <3>1, QueuedFacts
        <3>5. \A i \in 1..Len(h) : q[i + 1] = h[i]
            BY <2>1, <3>1, QueuedFacts
        <3> QED
            BY <3>2, <3>3, <3>4, <3>5
<1> HIDE DEF q
<1>9. /\ early = <<Dump(h)>> \/ early = << >>
      /\ late = <<Dump(q)>> \/ late = << >>
      /\ L => late = <<Dump(q)>>
    OBVIOUS
<1> HIDE DEF early, late
<1>10. /\ IsList(mid) /\ Len(mid) \in Nat /\ Len(mid) >= Len(out)
       /\ \A k \in 1..Len(out) : mid[k] = out[k]
       /\ \A k \in 1..Len(mid) : k \in 1..Len(out) \/ mid[k] = Dump(h)
    <2>1. mid = out \o early
        OBVIOUS
    <2> HIDE DEF mid
    <2> QED
        <3>1. IsList(out) /\ (early = <<Dump(h)>> \/ early = << >>)
            BY <1>4, <1>9
        <3>2. IsList(mid)
            BY <2>1, <3>1, MaybeAdded
        <3>3. Len(mid) \in Nat
            BY <2>1, <3>1, MaybeAdded
        <3>4. Len(mid) >= Len(out)
            BY <2>1, <3>1, MaybeAdded
        <3>5. \A k \in 1..Len(out) : mid[k] = out[k]
            BY <2>1, <3>1, MaybeAdded
        <3>6. \A k \in 1..Len(mid) : k \in 1..Len(out) \/ mid[k] = Dump(h)
            BY <2>1, <3>1, MaybeAdded
        <3> QED
            BY <3>2, <3>3, <3>4, <3>5, <3>6
<1> HIDE DEF mid
<1>11. /\ IsList(out') /\ Len(out') \in Nat /\ Len(out') >= Len(mid)
       /\ \A k \in 1..Len(mid) : out'[k] = mid[k]
       /\ \A k \in 1..Len(out') : k \in 1..Len(mid) \/ out'[k] = Dump(q)
       /\ L => Len(out') = Len(mid) + 1 /\ out'[Len(out')] = Dump(q)
    <2>1. IsList(mid) /\ (late = <<Dump(q)>> \/ late = << >>) /\ out' = mid \o late
        BY <1>5, <1>9, <1>10
    <2>2. IsList(out')
        BY <2>1, MaybeAdded
    <2>3. Len(out') \in Nat
        BY <2>1, MaybeAdded
    <2>4. Len(out') >= Len(mid)
        BY <2>1, MaybeAdded
    <2>5. \A k \in 1..Len(mid) : out'[k] = mid[k]
        BY <2>1, MaybeAdded
    <2>6. \A k \in 1..Len(out') : k \in 1..Len(mid) \/ out'[k] = Dump(q)
        BY <2>1, MaybeAdded
    <2>7. late = <<Dump(q)>> => Len(out') = Len(mid) + 1
        BY <2>1, MaybeAdded
    <2>8. late = <<Dump(q)>> => out'[Len(out')] = Dump(q)
        BY <2>1, MaybeAdded
    <2> QED
        BY <1>9, <2>2, <2>3, <2>4, <2>5, <2>6, <2>7, <2>8
<1>12. \A k \in 1..Len(out) : k \in 1..Len(out') /\ out'[k] = out[k]
    BY <1>4, <1>10, <1>11
<1>13. \A k \in 1..Len(out') :
          \/ k \in 1..Len(out) /\ out'[k] = out[k]
          \/ out'[k] = Dump(h)
          \/ out'[k] = Dump(q)
    BY <1>10, <1>11, <1>12
<1>14. Wanted \in SUBSET Nat /\ Wanted' \in SUBSET Nat
    BY <1>1, <1>2
<1>15. /\ IsList(Dump(h).dumped)
       /\ \A x, y \in 1..Len(Dump(h).dumped) : x < y => Dump(h).dumped[x] < Dump(h).dumped[y]
       /\ Range(Dump(h).dumped) = {h[i].id : i \in 1..Len(h)}
    BY <1>7, <1>14, DumpFacts
<1>16. /\ IsList(Dump(q).dumped)
       /\ \A x, y \in 1..Len(Dump(q).dumped) : x < y => Dump(q).dumped[x] < Dump(q).dumped[y]
       /\ Range(Dump(q).dumped) = {q[i].id : i \in 1..Len(q)}
       /\ Last(Dump(q).dumped) = n + 1
    <2>1. Len(q) > 0
        BY <1>7, <1>8
    <2> QED
        BY <1>1, <1>3, <1>8, <1>14, <2>1, DumpFacts
<1>17. Dumped \subseteq Dumped'
    BY <1>12, DumpedIs, DumpedIsNext
<1>18. Dumped' \subseteq Wanted'
    <2> SUFFICES ASSUME NEW i, NEW k \in 1..Len(out'), i \in Range(out'[k].dumped)
                 PROVE  i \in Wanted'
        BY DumpedIsNext
    <2>1. CASE k \in 1..Len(out) /\ out'[k] = out[k]
        <3>1. i \in Dumped
            BY <2>1, DumpedIs
        <3> QED
            BY <1>1, <1>4, <3>1 DEF BufferDumps
    <2>2. CASE out'[k] = Dump(h)
        BY <1>1, <1>7, <1>15, <2>2 DEF QueueOf
    <2>3. CASE out'[k] = Dump(q)
        BY <1>1, <1>8, <1>16, <2>3 DEF QueueOf
    <2> QED
        BY <1>13, <2>1, <2>2, <2>3
<1>19. \A k \in 1..Len(out') :
          /\ IsList(out'[k].dumped)
          /\ \A x, y \in 1..Len(out'[k].dumped) : x < y => out'[k].dumped[x] < out'[k].dumped[y]
    <2> TAKE k \in 1..Len(out')
    <2>1. CASE k \in 1..Len(out) /\ out'[k] = out[k]
        BY <1>4, <2>1 DEF BufferOk, BufferDumps
    <2> QED
        BY <1>13, <1>15, <1>16, <2>1
<1>20. L => \A i \in 1..Len(q) : q[i].id \in Dumped'
    <2> SUFFICES ASSUME L, NEW i \in 1..Len(q) PROVE q[i].id \in Dumped'
        OBVIOUS
    <2>1. Len(out') \in 1..Len(out') /\ out'[Len(out')] = Dump(q)
        BY <1>10, <1>11
    <2> QED
        BY <1>16, <2>1, DumpedIsNext
\* What is held back or dumped when nothing may be lost.
<1>21. ASSUME \A j \in 1..(n + 1) : ~events'[j].lossy
       PROVE  \A i \in Wanted' : i \in Dumped' \/ \E x \in 1..Len(q) : q[x].id = i
    <2> SUFFICES ASSUME NEW i \in Wanted'
                 PROVE  i \in Dumped' \/ \E x \in 1..Len(q) : q[x].id = i
        OBVIOUS
    <2>1. ~buffer.lossy
        BY <1>1, <1>3, <1>21
    <2>2. \A j \in 1..Len(events) : ~events[j].lossy
        BY <1>1, <1>21 DEF n
    <2>3. CASE i = n + 1
        BY <1>3, <1>7, <1>8, <2>3
    <2>4. CASE i \in Wanted
        <3>1. i \in Dumped \/ \E x \in 1..Len(h) : h[x].id = i
            BY <1>4, <1>7, <2>1, <2>2, <2>4 DEF BufferOk
        <3>2. ASSUME NEW x \in 1..Len(h), h[x].id = i PROVE \E y \in 1..Len(q) : q[y].id = i
            <4>1. x + 1 \in 1..Len(q) /\ q[x + 1].id = i
                BY <1>7, <1>8, <3>2
            <4> QED
                BY <4>1
        <3> QED
            BY <1>17, <3>1, <3>2
    <2> QED
        BY <1>1, <2>3, <2>4
<1> HIDE DEF L
<1>22. \A i : i \in Triggers' <=> (i \in Triggers \/ (i = n + 1 /\ L))
    BY TriggersGrow DEF n, L, e
<1>23. Triggers \subseteq Wanted
    BY DEF Triggers
<1>24. CASE L
    <2>1. buffer'.queue = << >> /\ Len(buffer'.queue) = 0
        BY <1>5, <1>24, ListNone
    <2>2. \A i \in Triggers' : \E k \in 1..Len(out') : Last(out'[k].dumped) = i
        <3> TAKE i \in Triggers'
        <3>1. CASE i \in Triggers
            BY <1>4, <1>12, <3>1 DEF BufferDumps
        <3>2. CASE i = n + 1
            <4>1. Len(out') \in 1..Len(out') /\ out'[Len(out')] = Dump(q)
                BY <1>10, <1>11, <1>24
            <4> QED
                BY <1>16, <3>2, <4>1
        <3> QED
            BY <1>22, <3>1, <3>2
    <2>3. ASSUME NEW i \in Triggers', \A j \in 1..i : ~events'[j].lossy
          PROVE  Wanted' \cap (1..i) \subseteq Dumped'
        <3>1. CASE i \in Triggers
            <4>1. i \in 1..n
                BY <1>2, <1>23, <3>1
            <4>2. \A j \in 1..i : j \in 1..n /\ ~events[j].lossy
                BY <1>1, <2>3, <4>1
            <4>3. Wanted \cap (1..i) \subseteq Dumped
                BY <1>4, <3>1, <4>2 DEF BufferDumps
            <4>4. n + 1 \notin 1..i
                BY <1>1, <4>1
            <4> QED
                BY <1>1, <1>17, <4>3, <4>4
        <3>2. CASE i = n + 1
            BY <1>20, <1>21, <1>24, <2>3, <3>2
        <3> QED
            BY <1>22, <3>1, <3>2
    <2>4. (\A j \in 1..Len(events') : ~events'[j].lossy) => \A i \in Wanted' : i \in Dumped'
        BY <1>1, <1>20, <1>21, <1>24
    <2>5. \A x \in 1..Len(buffer'.queue) : FALSE
        BY <2>1
    <2>6. IsList(buffer'.queue)
        BY <2>1, ListNone
    <2>7. BufferOk'
        BY <1>5, <1>19, <2>4, <2>5, <2>6 DEF BufferOk
    <2>8. BufferDumps'
        BY <1>18, <1>19, <2>2, <2>3, <2>5 DEF BufferDumps
    <2> QED
        BY <1>11, <2>7, <2>8
<1>25. CASE ~L
    <2>1. buffer'.queue = q
        BY <1>5, <1>25
    <2>2. \A i : i \in Triggers' <=> i \in Triggers
        BY <1>22, <1>25
    <2>3. ASSUME NEW i \in Triggers'
          PROVE  /\ \E k \in 1..Len(out') : Last(out'[k].dumped) = i
                 /\ (\A j \in 1..i : ~events'[j].lossy) => Wanted' \cap (1..i) \subseteq Dumped'
                 /\ \A x \in 1..Len(q) : q[x].id > i
        <3>1. i \in Triggers /\ i \in 1..n
            BY <1>2, <1>23, <2>2
        <3>2. \E k \in 1..Len(out') : Last(out'[k].dumped) = i
            BY <1>4, <1>12, <3>1 DEF BufferDumps
        <3>3. ASSUME \A j \in 1..i : ~events'[j].lossy
              PROVE  Wanted' \cap (1..i) \subseteq Dumped'
            <4>2. \A j \in 1..i : j \in 1..n /\ ~events[j].lossy
                BY <1>1, <3>1, <3>3
            <4>3. Wanted \cap (1..i) \subseteq Dumped
                BY <1>4, <3>1, <4>2 DEF BufferDumps
            <4>4. n + 1 \notin 1..i
                BY <1>1, <3>1
            <4> QED
                BY <1>1, <1>17, <4>3, <4>4
        <3>4. ASSUME NEW x \in 1..Len(q) PROVE q[x].id > i
            <4>1. CASE x = 1
                BY <1>1, <1>3, <1>8, <3>1, <4>1
            <4>2. CASE x # 1
                <5>1. x - 1 \in 1..Len(h) /\ (x - 1) + 1 = x
                    BY <1>7, <1>8, <4>2
                <5>2. q[x] = h[x - 1]
                    BY <1>8, <5>1
                <5> QED
                    BY <1>4, <1>7, <3>1, <5>1, <5>2 DEF BufferDumps
            <4> QED
                BY <4>1, <4>2
        <3> QED
            BY <3>2, <3>3, <3>4
    <2>4. BufferOk'
        BY <1>1, <1>5, <1>8, <1>19, <1>21, <2>1 DEF BufferOk, QueueOf
    <2>5. BufferDumps'
        BY <1>18, <1>19, <2>1, <2>3 DEF BufferDumps
    <2> QED
        BY <1>11, <2>4, <2>5
<1> QED
    BY <1>24, <1>25

LEMMA BufferStopped ==
    ASSUME SinksInv, NEW r, LoggedAs(r), sink = "buffer", ~LetThrough(r)
    PROVE  BufferOk' /\ BufferDumps' /\ IsList(out')
<1> DEFINE n == Len(events)
<1>1. /\ n \in Nat /\ Len(events') = n + 1 /\ (\A i \in 1..n : events'[i] = events[i])
      /\ Wanted' = Wanted
    BY EventsGrow DEF SinksInv, LoggedAs
<1>2. Wanted \subseteq 1..n /\ Triggers \subseteq Wanted
    BY DEF Wanted, Triggers
<1>3. UNCHANGED <<out, buffer, sink>>
    BY DEF LoggedAs
<1>4. BufferOk /\ BufferDumps /\ IsList(out)
    BY DEF SinksInv
<1>5. Triggers' = Triggers
    BY TriggersGrow
<1>6. Dumped' = Dumped
    BY <1>3 DEF Dumped
<1>7. (\A j \in 1..(n + 1) : ~events'[j].lossy) => \A j \in 1..n : ~events[j].lossy
    BY <1>1
<1>8. \A i \in Triggers : (\A j \in 1..i : ~events'[j].lossy) => \A j \in 1..i : ~events[j].lossy
    <2> TAKE i \in Triggers
    <2>1. \A j \in 1..i : j \in 1..n
        BY <1>1, <1>2
    <2> QED
        BY <1>1, <2>1
<1>9. BufferOk'
    BY <1>1, <1>3, <1>4, <1>6, <1>7 DEF BufferOk
<1>10. BufferDumps'
    BY <1>1, <1>3, <1>4, <1>5, <1>6, <1>8 DEF BufferDumps
<1> QED
    BY <1>3, <1>4, <1>9, <1>10
-----------------------------------------------------------------------------
(* The steps.                                                              *)

LEMMA OutStill ==
    ASSUME SinksInv, UNCHANGED <<sink, out, events>>
    PROVE  IsList(out') /\ EventsOk' /\ InOrder' /\ PacketsJoin'
<1>1. Wanted' = Wanted
    BY DEF Wanted, Let
<1>2. Sent' = Sent
    BY <1>1 DEF Sent
<1>3. InOrder'
    BY <1>1, <1>2 DEF SinksInv, InOrder, Named
<1>4. PacketsJoin'
    BY <1>2 DEF SinksInv, PacketsJoin
<1> QED
    BY <1>3, <1>4 DEF SinksInv, EventsOk

LEMMA QueueStill ==
    ASSUME SinksInv, UNCHANGED <<sink, out, events>>, buffer'.queue = buffer.queue,
           DOMAIN buffer' = DOMAIN buffer, sink = "buffer" => buffer'.lossy \in BOOLEAN
    PROVE  BufferOk' /\ BufferDumps'
<1>1. Wanted' = Wanted
    BY DEF Wanted, Let
<1>2. Triggers' = Triggers
    BY <1>1 DEF Triggers, LevelReached
<1>3. Dumped' = Dumped
    BY DEF Dumped
<1>4. BufferOk'
    BY <1>1, <1>3 DEF SinksInv, BufferOk
<1>5. BufferDumps'
    BY <1>1, <1>2, <1>3 DEF SinksInv, BufferDumps
<1> QED
    BY <1>4, <1>5

LEMMA BufferStill ==
    ASSUME SinksInv, UNCHANGED <<sink, out, events, buffer>>
    PROVE  BufferOk' /\ BufferDumps'
<1>1. sink = "buffer" => buffer'.lossy \in BOOLEAN
    BY DEF SinksInv, BufferOk
<1> QED
    BY <1>1, QueueStill

LEMMA AppendKeeps ==
    ASSUME SinksInv, NEW t, NEW p \in Priorities, NEW n \in LengthsSeen, DoAppend(t, p, n)
    PROVE  SinksInv'
<1>1. PICK r : LoggedAs(r)
    BY AppendLogs
<1>2. EventsOk'
    BY <1>1, EventsGrow DEF SinksInv, LoggedAs
<1>3. SkelOk' /\ ConnOk' /\ sink' = sink
    BY <1>1 DEF SinksInv, LoggedAs, SkelOk, ConnOk
<1>4. NdcOk'
    <2>1. UNCHANGED <<isUsedNDC, clone, leaked, backend>>
        BY DEF DoAppend
    <2>2. CASE isUsedNDC = TRUE
        <3>1. ndc' = WithStack(t, Stack(t))
            BY <2>2 DEF DoAppend
        <3> QED
            BY <2>1, <2>2, <3>1, StackGood, WithStackGood DEF SinksInv, NdcOk
    <2>3. CASE isUsedNDC = FALSE
        <3>1. ndc' = ndc
            BY <2>3 DEF DoAppend
        <3> QED
            BY <2>1, <3>1 DEF SinksInv, NdcOk
    <2> QED
        BY <2>2, <2>3 DEF SinksInv, NdcOk
<1>5. CASE sink \in LineSinks
    <2>1. LineOk' /\ IsList(out')
        BY <1>1, <1>5, LineLogged
    <2>2. InOrder' /\ PacketsJoin' /\ BufferOk' /\ BufferDumps'
        BY <1>3, <1>5, <2>1, InOrderIsNext DEF LineSinks, PacketsJoin, BufferOk, BufferDumps
    <2> QED
        BY <1>2, <1>3, <1>4, <2>1, <2>2 DEF SinksInv
<1>6. CASE sink = "remote"
    <2>1. PacketsJoin' /\ IsList(out')
        BY <1>1, <1>6, RemoteLogged
    <2>2. InOrder' /\ BufferOk' /\ BufferDumps'
        BY <1>3, <1>6 DEF InOrder, BufferOk, BufferDumps
    <2> QED
        BY <1>2, <1>3, <1>4, <2>1, <2>2 DEF SinksInv
<1>7. CASE sink = "buffer"
    <2>1. BufferOk' /\ BufferDumps' /\ IsList(out')
        BY <1>1, <1>7, BufferPassed, BufferStopped
    <2>2. InOrder' /\ PacketsJoin'
        BY <1>3, <1>7 DEF InOrder, PacketsJoin
    <2> QED
        BY <1>2, <1>3, <1>4, <2>1, <2>2 DEF SinksInv
<1>8. CASE sink \notin LineSinks \cup {"remote", "buffer"}
    <2>1. out' = out \o <<Formatted(r.event)>> \/ out' = out
        <3>1. CASE LetThrough(r)
            BY <1>1, <1>8, <3>1 DEF LoggedAs, AppendTo, LineSinks, OstreamAppend
        <3>2. CASE ~LetThrough(r)
            BY <1>1, <3>2 DEF LoggedAs
        <3> QED
            BY <3>1, <3>2
    <2>2. IsList(out')
        <3>1. IsList(out)
            BY DEF SinksInv
        <3>2. IsList(out \o <<Formatted(r.event)>>)
            BY <3>1, ListJoined, ListOne
        <3> QED
            BY <2>1, <3>1, <3>2
    <2>3. InOrder' /\ PacketsJoin' /\ BufferOk' /\ BufferDumps'
        BY <1>3, <1>8 DEF InOrder, PacketsJoin, BufferOk, BufferDumps, LineSinks
    <2> QED
        BY <1>2, <1>3, <1>4, <2>2, <2>3 DEF SinksInv
<1> QED
    BY <1>5, <1>6, <1>7, <1>8

LEMMA PopKeeps == ASSUME SinksInv, PopMessage PROVE SinksInv'
<1>1. LineOk' /\ IsList(out') /\ EventsOk'
    BY PopKeepsLine
<1>2. sink' = "queue" /\ UNCHANGED <<sink, skel, conn, backend, ndc, leaked, isUsedNDC, clone>>
    BY DEF PopMessage, ndcVars
<1>3. InOrder' /\ PacketsJoin' /\ BufferOk' /\ BufferDumps'
    BY <1>1, <1>2, InOrderIsNext DEF PacketsJoin, BufferOk, BufferDumps
<1> QED
    BY <1>1, <1>2, <1>3 DEF SinksInv, SkelOk, ConnOk, NdcOk

\* The appender's own settings.
LEMMA SkelKeeps ==
    ASSUME SinksInv, NEW f, NEW l, NEW p,
           \/ SetLayout(l) \/ SetThreshold(p)
           \/ SetFilter(f) \/ AppendChainedFilter(f) \/ SetChainedFilter(f)
    PROVE  SinksInv'
<1>1. UNCHANGED <<sink, buffer, conn, out, ndcVars, events>>
    BY DEF SetLayout, SetThreshold, SetFilter, AppendChainedFilter, SetChainedFilter
<1>2. SkelOk
    BY DEF SinksInv
<1>3. IsList(<<f>>) /\ IsList(Append(skel.filter, f)) /\ IsList(<<Head(skel.filter), f>>)
    <2>1. <<Head(skel.filter), f>> \in Seq({Head(skel.filter), f})
        OBVIOUS
    <2> QED
        BY <1>2, <2>1, ListOne, ListAppended DEF SkelOk, IsList
<1>4. SkelOk'
    <2>1. CASE SetLayout(l) \/ SetThreshold(p)
        <3>1. DOMAIN skel' = DOMAIN skel /\ skel'.filter = skel.filter
            BY <1>2, <2>1 DEF SetLayout, SetThreshold, SkelOk
        <3> QED
            BY <1>2, <3>1 DEF SkelOk
    <2>2. CASE SetFilter(f)
        <3>1. DOMAIN skel' = DOMAIN skel /\ skel'.filter = <<f>>
            BY <1>2, <2>2 DEF SetFilter, SkelOk
        <3> QED
            BY <1>2, <1>3, <3>1 DEF SkelOk
    <2>3. CASE AppendChainedFilter(f)
        <3>1. DOMAIN skel' = DOMAIN skel /\ skel'.filter = Append(skel.filter, f)
            BY <1>2, <2>3 DEF AppendChainedFilter, SkelOk
        <3> QED
            BY <1>2, <1>3, <3>1 DEF SkelOk
    <2>4. CASE SetChainedFilter(f)
        <3>1. DOMAIN skel' = DOMAIN skel /\ skel'.filter = <<Head(skel.filter), f>>
            BY <1>2, <2>4 DEF SetChainedFilter, SkelOk
        <3> QED
            BY <1>2, <1>3, <3>1 DEF SkelOk
    <2> QED
        BY <2>1, <2>2, <2>3, <2>4
<1> QED
    BY <1>1, <1>4, OutStill, BufferStill DEF SinksInv, ConnOk, NdcOk, ndcVars

LEMMA ConnKeeps ==
    ASSUME SinksInv, CloseSink \/ \E r, o \in BOOLEAN : Reopen(r, o)
    PROVE  SinksInv'
<1>1. UNCHANGED <<sink, skel, buffer, out, ndcVars, events>> /\ sink \in Connected
    BY DEF CloseSink, Reopen
<1> QED
    BY <1>1, OutStill, BufferStill DEF SinksInv, SkelOk, ConnOk, NdcOk, ndcVars

LEMMA LossyKeeps ==
    ASSUME SinksInv, NEW b \in BOOLEAN, SetLossy(b)
    PROVE  SinksInv'
<1>1. /\ UNCHANGED <<sink, skel, conn, out, ndcVars, events>> /\ sink = "buffer"
      /\ buffer' = [buffer EXCEPT !.lossy = b]
    BY DEF SetLossy
<1>2. DOMAIN buffer' = DOMAIN buffer /\ buffer'.queue = buffer.queue /\ buffer'.lossy = b
    BY <1>1 DEF SinksInv, BufferOk
<1> QED
    BY <1>1, <1>2, OutStill, QueueStill DEF SinksInv, SkelOk, ConnOk, NdcOk, ndcVars

LEMMA NdcKeeps ==
    ASSUME SinksInv, NEW t, NEW l,
           \/ NdcPush(t, l) \/ NdcPop(t) \/ NdcClear(t) \/ NdcCloneStack(t) \/ NdcInherit(t)
           \/ ThreadExit(t)
    PROVE  SinksInv'
<1>1. UNCHANGED <<sink, skel, buffer, conn, out, backend, events>>
    BY DEF NdcPush, NdcPop, NdcClear, NdcCloneStack, NdcInherit, ThreadExit
<1>2. NdcOk /\ isUsedNDC \in BOOLEAN
    BY DEF SinksInv, NdcOk
<1>3. GoodStack(Stack(t)) /\ (isUsedNDC = FALSE => Stack(t) = << >>)
    BY <1>2, StackGood
<1>4. NdcOk'
    <2>1. CASE NdcPush(t, l)
        <3>1. /\ isUsedNDC' = TRUE /\ UNCHANGED <<clone, leaked, backend>>
              /\ ndc' = WithStack(t, Pushed(Stack(t), l))
            BY <2>1 DEF NdcPush
        <3>2. GoodStack(Pushed(Stack(t), l))
            BY <1>3, PushedGood
        <3> QED
            BY <1>2, <3>1, <3>2, WithStackGood
    <2>2. CASE NdcPop(t)
        <3>1. /\ UNCHANGED <<isUsedNDC, clone, leaked, backend>> /\ Stack(t) # << >>
              /\ ndc' = WithStack(t, Popped(Stack(t)))
            BY <2>2 DEF NdcPop
        <3>2. GoodStack(Popped(Stack(t))) /\ isUsedNDC' = TRUE
            BY <1>2, <1>3, <3>1, PoppedGood
        <3> QED
            BY <1>2, <3>1, <3>2, WithStackGood
    <2>3. CASE NdcClear(t)
        <3>1. UNCHANGED <<isUsedNDC, clone, leaked, backend>> /\ ndc' = WithStack(t, << >>)
            BY <2>3 DEF NdcClear
        <3> QED
            BY <1>2, <3>1, NoStack, WithStackGood
    <2>4. CASE NdcCloneStack(t)
        <3>1. /\ UNCHANGED <<isUsedNDC, leaked, backend>> /\ clone' = Stack(t)
              /\ ndc' = WithStack(t, Stack(t))
            BY <2>4 DEF NdcCloneStack
        <3> QED
            BY <1>2, <1>3, <3>1, WithStackGood
    <2>5. CASE NdcInherit(t)
        <3>1. UNCHANGED <<isUsedNDC, clone, leaked, backend>> /\ ndc' = WithStack(t, clone)
            BY <2>5 DEF NdcInherit
        <3>2. GoodStack(clone) /\ (isUsedNDC = FALSE => clone = << >>)
            BY <1>2 DEF NdcOk
        <3> QED
            BY <1>2, <3>1, <3>2, WithStackGood
    <2>6. CASE ThreadExit(t)
        <3>1. /\ UNCHANGED <<isUsedNDC, clone, backend>> /\ LocalData.own
              /\ ndc' = [u \in DOMAIN ndc \ {t} |-> ndc[u]]
              /\ leaked' = IF LocalData.freed THEN leaked ELSE leaked + 1
            BY <2>6 DEF ThreadExit, Restrict
        <3>2. \A u \in DOMAIN ndc' : u \in DOMAIN ndc /\ ndc'[u] = ndc[u]
            BY <3>1
        <3>3. LocalData.freed \/ backend = "ms"
            BY <3>1 DEF LocalData, PThreadsData, OmniThreadsData, BoostThreadsData,
                        MSThreadsData, DummyThreadsData
        <3>4. leaked' \in Nat /\ (leaked' > 0 => backend' = "ms")
            BY <1>2, <3>1, <3>3 DEF NdcOk
        <3> QED
            BY <1>2, <3>1, <3>2, <3>4 DEF NdcOk
    <2> QED
        BY <2>1, <2>2, <2>3, <2>4, <2>5, <2>6
<1> QED
    BY <1>1, <1>4, OutStill, BufferStill DEF SinksInv, SkelOk, ConnOk

LEMMA SinksStart == SinksInit => SinksInv
<1> SUFFICES ASSUME SinksInit PROVE SinksInv
    OBVIOUS
<1>1. out = << >> /\ events = << >> /\ Len(out) = 0 /\ Len(events) = 0 /\ IsList(<< >>)
    BY ListNone DEF SinksInit
<1>2. Wanted = {} /\ Sent = {}
    BY <1>1 DEF Wanted, Sent
<1>3. SkelOk /\ EventsOk
    BY <1>1 DEF SinksInit, SkelOk, EventsOk
<1>4. ConnOk
    BY DEF SinksInit, ConnOk, Connected, SyslogOpened
<1>5. NdcOk
    <2>1. DOMAIN ndc = {} /\ clone = << >> /\ isUsedNDC = FALSE /\ leaked = 0
        BY DEF SinksInit
    <2>2. GoodStack(clone)
        BY <2>1, NoStack
    <2>3. leaked \in Nat /\ ~(leaked > 0)
        BY <2>1
    <2>4. isUsedNDC \in BOOLEAN
        BY <2>1, Zenon
    <2> QED
        BY <2>1, <2>2, <2>3, <2>4 DEF NdcOk
<1>6. InOrder /\ PacketsJoin
    BY <1>1, <1>2 DEF InOrder, PacketsJoin
<1>7. Dumped = {} /\ Triggers = {}
    BY <1>1, <1>2 DEF Dumped, Triggers
<1>8. DOMAIN buffer = {"queue", "lossy"} /\ buffer.queue = << >> /\ buffer.lossy = FALSE
    BY DEF SinksInit
<1>9. BufferOk /\ BufferDumps
    <2>1. Len(buffer.queue) = 0 /\ IsList(buffer.queue)
        BY <1>8, ListNone
    <2>2. (\A q \in 1..Len(buffer.queue) : FALSE) /\ \A k \in 1..Len(out) : FALSE
        BY <1>1, <2>1
    <2>3. BufferOk
        BY <1>2, <1>8, <2>1, <2>2 DEF BufferOk
    <2>4. BufferDumps
        BY <1>7, <2>2 DEF BufferDumps
    <2> QED
        BY <2>3, <2>4
<1> QED
    BY <1>1, <1>3, <1>4, <1>5, <1>6, <1>9 DEF SinksInv

LEMMA SinksStep == SinksInv /\ [SinksNext]_sinkVars => SinksInv'
<1> SUFFICES ASSUME SinksInv, [SinksNext]_sinkVars PROVE SinksInv'
    OBVIOUS
<1>1. CASE UNCHANGED sinkVars
    <2>1. UNCHANGED <<sink, skel, buffer, conn, out, backend, ndc, leaked, isUsedNDC, clone, events>>
        BY <1>1 DEF sinkVars, ndcVars
    <2> QED
        BY <2>1, OutStill, BufferStill DEF SinksInv, SkelOk, ConnOk, NdcOk
<1>2. CASE \E t \in Running : \E p \in Priorities : \E n \in LengthsSeen : DoAppend(t, p, n)
    BY <1>2, AppendKeeps
<1>3. CASE PopMessage
    BY <1>3, PopKeeps
<1>4. CASE \E name \in Thresholds : SetThreshold(GetPriorityValue(name))
    BY <1>4, SkelKeeps
<1>5. CASE \E f \in Filters : SetFilter(f) \/ AppendChainedFilter(f) \/ SetChainedFilter(f)
    BY <1>5, SkelKeeps
<1>6. CASE \E t \in ContextSeen : \E l \in Labels : NdcPush(t, l)
    BY <1>6, NdcKeeps
<1>7. CASE \E t \in ContextSeen : NdcPop(t) \/ NdcClear(t) \/ NdcCloneStack(t) \/ NdcInherit(t)
                                     \/ ThreadExit(t)
    BY <1>7, NdcKeeps
<1>8. CASE \E l \in {"basic", "simple", "pass", "null"} : SetLayout(l)
    BY <1>8, SkelKeeps
<1>9. CASE CloseSink \/ \E r, o \in BOOLEAN : Reopen(r, o)
    BY <1>9, ConnKeeps
<1>10. CASE \E b \in BOOLEAN : SetLossy(b)
    BY <1>10, LossyKeeps
<1> QED
    BY <1>1, <1>2, <1>3, <1>4, <1>5, <1>6, <1>7, <1>8, <1>9, <1>10 DEF SinksNext

-----------------------------------------------------------------------------
(* What a full buffer dumps more than once.                                *)

\* No dump is empty.
RepeatOk ==
    sink = "buffer" => (\A k \in 1..Len(out) : Len(out[k].dumped) > 0) /\ DumpsRepeat

LEMMA RangeIs ==
    ASSUME NEW d, IsList(d)
    PROVE  /\ \A x : x \in Range(d) <=> \E j \in 1..Len(d) : d[j] = x
           /\ Len(d) \in Nat
           /\ Len(d) > 0 => Last(d) = d[Len(d)] /\ Last(d) \in Range(d)
<1>1. Len(d) \in Nat /\ DOMAIN d = 1..Len(d)
    BY ListFacts
<1>2. \A x : x \in Range(d) <=> \E j \in 1..Len(d) : d[j] = x
    BY <1>1 DEF Range
<1>3. ASSUME Len(d) > 0 PROVE Last(d) = d[Len(d)] /\ Last(d) \in Range(d)
    <2>1. Len(d) \in 1..Len(d)
        BY <1>1, <1>3
    <2> QED
        BY <1>2, <2>1 DEF Last
<1> QED
    BY <1>1, <1>2, <1>3

\* A list with one more element if B holds.
LEMMA AddedIf ==
    ASSUME NEW s, IsList(s), NEW B \in BOOLEAN, NEW x,
           NEW u, u = s \o (IF B THEN <<x>> ELSE << >>)
    PROVE  /\ IsList(u)
           /\ Len(u) = Len(s) + (IF B THEN 1 ELSE 0)
           /\ \A k \in 1..Len(s) : u[k] = s[k]
           /\ B => u[Len(s) + 1] = x
<1>1. Len(s) \in Nat
    BY ListFacts
<1>2. CASE B
    <2>1. u = s \o <<x>>
        BY <1>2
    <2> QED
        BY <1>1, <1>2, <2>1, ListJoined, ListOne
<1>3. CASE ~B
    <2>1. u = s \o << >>
        BY <1>3
    <2> QED
        BY <1>1, <1>3, <2>1, ListJoined, ListNone
<1> QED
    BY <1>2, <1>3

\* What was dumped and is still in the queue was not dumped by a trigger.
LEMMA NotYetTriggered ==
    ASSUME SinksInv, RepeatOk, sink = "buffer",
           NEW k \in 1..Len(out), NEW q \in 1..Len(buffer.queue),
           buffer.queue[q].id \in Range(out[k].dumped)
    PROVE  Last(out[k].dumped) \notin Triggers
<1> DEFINE d == out[k].dumped
           x == buffer.queue[q].id
<1>1. IsList(d) /\ Len(d) > 0 /\ x \in Range(d)
    BY DEF SinksInv, BufferOk, RepeatOk
<1>2. PICK j \in 1..Len(d) : d[j] = x
    BY <1>1, RangeIs
<1>3. Len(d) \in 1..Len(d) /\ Last(d) = d[Len(d)] /\ Last(d) \in Range(d)
    BY <1>1, RangeIs
<1>4. x \in Dumped /\ Last(d) \in Dumped
    BY <1>1, <1>3, DumpedIs
<1>5. Dumped \subseteq Wanted /\ Wanted \subseteq Nat
    BY ListFacts DEF SinksInv, BufferDumps, Wanted, EventsOk
<1>6. j < Len(d) => d[j] < d[Len(d)]
    <2>1. BufferDumps
        BY DEF SinksInv
    <2>2. \A y, z \in 1..Len(d) : y < z => d[y] < d[z]
        BY <2>1 DEF BufferDumps
    <2> QED
        BY <1>2, <1>3, <2>2
<1> HIDE DEF d, x
<1>7. x <= Last(d)
    <2>1. Len(d) \in Nat /\ j \in Nat /\ j <= Len(d)
        BY <1>1, <1>2, RangeIs
    <2>2. x \in Nat /\ Last(d) \in Nat
        BY <1>4, <1>5
    <2> QED
        BY <1>2, <1>3, <1>6, <2>1, <2>2
<1>8. Last(d) \in Triggers => x > Last(d)
    BY DEF SinksInv, BufferDumps, x
<1>9. x \in Nat /\ Last(d) \in Nat
    BY <1>4, <1>5
<1>10. Last(d) \notin Triggers
    BY <1>7, <1>8, <1>9
<1> QED
    BY <1>10 DEF d

LEMMA DumpLength == ASSUME NEW s, IsList(s) PROVE Len(Dump(s).dumped) = Len(s)
<1>1. Len(s) \in Nat
    BY ListFacts
<1> DEFINE d == [i \in 1..Len(s) |-> s[Len(s) - i + 1].id]
<1>2. d = [i \in 1..Len(s) |-> d[i]] /\ Dump(s).dumped = d
    BY DEF Dump
<1> HIDE DEF d
<1> QED
    BY <1>1, <1>2, ListIs

LEMMA RepeatPassed ==
    ASSUME SinksInv, RepeatOk, NEW r, LoggedAs(r), sink = "buffer", LetThrough(r)
    PROVE  RepeatOk'
<1> DEFINE n == Len(events)
           m == Len(out)
           e == r.event
           L == LevelReached(e)
           E == Full /\ ~buffer.lossy
           Q == buffer.queue
           h == Held
           q == <<e>> \o h
           mid == out \o (IF E THEN <<Dump(h)>> ELSE << >>)
<1>1. n \in Nat /\ Wanted' = Wanted \cup {n + 1}
    BY EventsGrow DEF SinksInv, LoggedAs
<1>2. Wanted \in SUBSET (1..n) /\ Triggers \subseteq Wanted
    BY DEF Wanted, Triggers
<1>3. e.id = n + 1 /\ sink' = "buffer" /\ BufferedAppend(e)
    BY DEF LoggedAs, AppendTo
<1>4. BufferOk /\ BufferDumps /\ DumpsRepeat /\ IsList(out)
    BY DEF SinksInv, RepeatOk
<1>5. m \in Nat /\ QueueOf(Q, Wanted) /\ Len(Q) \in Nat
    BY <1>4, ListFacts DEF BufferOk, QueueOf
<1>6. /\ out' = mid \o (IF L THEN <<Dump(q)>> ELSE << >>)
      /\ buffer'.queue = IF L THEN << >> ELSE q
    BY <1>3, <1>4, BufferedIs DEF BufferOk
<1>7. /\ QueueOf(h, Wanted) /\ Len(h) \in Nat
      /\ \A i \in 1..Len(h) : i \in 1..Len(Q) /\ h[i] = Q[i]
      /\ E => h = Q
    BY <1>4, <1>5, HeldFacts DEF BufferOk
<1>8. Len(h) = IF Full /\ buffer.lossy THEN Len(Q) - 1 ELSE Len(Q)
    <2>1. CASE Full /\ buffer.lossy
        <3>1. Q # << >>
            BY <1>5, <2>1, SinksAssumption, ListEmpty DEF Full, QueueOf
        <3>2. Len(Front(Q)) = Len(Q) - 1
            BY <1>5, <3>1, ListFront DEF QueueOf
        <3> QED
            BY <2>1, <3>2 DEF Held
    <2>2. CASE ~(Full /\ buffer.lossy)
        BY <2>2 DEF Held
    <2> QED
        BY <2>1, <2>2
<1>9. \A i : i \in Triggers' <=> (i \in Triggers \/ (i = n + 1 /\ L))
    BY TriggersGrow
<1>10. /\ Full <=> Len(Q) = MaxQueue
       /\ E <=> (Full /\ ~buffer.lossy)
       /\ L \in BOOLEAN /\ E \in BOOLEAN
    BY DEF Full, LevelReached
<1> HIDE DEF n, h, e, L, E
<1>11. /\ QueueOf(q, Wanted \cup {n + 1}) /\ Len(q) = Len(h) + 1 /\ q[1] = e
       /\ \A i \in 1..Len(h) : q[i + 1] = h[i]
    <2>1. n \in Nat /\ Wanted \in SUBSET (1..n) /\ QueueOf(h, Wanted) /\ e.id = n + 1
        BY <1>1, <1>2, <1>3, <1>7
    <2>2. q = <<e>> \o h
        OBVIOUS
    <2> HIDE DEF q
    <2>3. QueueOf(q, Wanted \cup {n + 1})
        BY <2>1, <2>2, QueuedFacts
    <2>4. Len(q) = Len(h) + 1
        BY <2>1, <2>2, QueuedFacts
    <2>5. q[1] = e
        BY <2>1, <2>2, QueuedFacts
    <2>6. \A i \in 1..Len(h) : q[i + 1] = h[i]
        BY <2>1, <2>2, QueuedFacts
    <2> QED
        BY <2>3, <2>4, <2>5, <2>6
<1> HIDE DEF q
\* Where the two dumps are.
<1>12. /\ IsList(mid) /\ Len(mid) = m + (IF E THEN 1 ELSE 0)
       /\ \A k \in 1..m : mid[k] = out[k]
       /\ E => mid[m + 1] = Dump(h)
    <2>1. IsList(out) /\ E \in BOOLEAN /\ mid = out \o (IF E THEN <<Dump(h)>> ELSE << >>)
        BY <1>4, <1>10
    <2> HIDE DEF mid
    <2>2. IsList(mid)
        BY <2>1, AddedIf
    <2>3. Len(mid) = Len(out) + (IF E THEN 1 ELSE 0)
        BY <2>1, AddedIf
    <2>4. \A k \in 1..Len(out) : mid[k] = out[k]
        BY <2>1, AddedIf
    <2>5. E => mid[Len(out) + 1] = Dump(h)
        BY <2>1, AddedIf
    <2> QED
        BY <2>2, <2>3, <2>4, <2>5
<1>13. /\ Len(out') = Len(mid) + (IF L THEN 1 ELSE 0)
       /\ \A k \in 1..Len(mid) : out'[k] = mid[k]
       /\ L => out'[Len(mid) + 1] = Dump(q)
    <2>1. IsList(mid) /\ L \in BOOLEAN /\ out' = mid \o (IF L THEN <<Dump(q)>> ELSE << >>)
        BY <1>6, <1>10, <1>12
    <2> HIDE DEF mid
    <2>2. Len(out') = Len(mid) + (IF L THEN 1 ELSE 0)
        BY <2>1, AddedIf
    <2>3. \A k \in 1..Len(mid) : out'[k] = mid[k]
        BY <2>1, AddedIf
    <2>4. L => out'[Len(mid) + 1] = Dump(q)
        BY <2>1, AddedIf
    <2> QED
        BY <2>2, <2>3, <2>4
<1> HIDE DEF mid
<1> DEFINE IsEarly(k) == E /\ k = m + 1 /\ out'[k] = Dump(h)
           IsLate(k) == L /\ k = Len(out') /\ k > m /\ out'[k] = Dump(q)
                        /\ (E => k > m + 1)
<1> HIDE DEF m
<1>14. ASSUME NEW k \in 1..Len(out')
       PROVE  \/ k \in 1..m /\ out'[k] = out[k]
              \/ IsEarly(k)
              \/ IsLate(k)
    <2>1. m \in Nat /\ Len(mid) \in Nat
        BY <1>5, <1>12 DEF m
    <2>2. CASE k \in 1..m
        <3>1. k \in 1..Len(mid)
            BY <1>12, <2>1, <2>2
        <3> QED
            BY <1>12, <1>13, <2>2, <3>1
    <2>3. CASE k \notin 1..m /\ k \in 1..Len(mid)
        <3>1. E /\ k = m + 1
            BY <1>12, <2>1, <2>3
        <3> QED
            BY <1>12, <1>13, <2>3, <3>1
    <2>4. CASE k \notin 1..m /\ k \notin 1..Len(mid)
        <3>1. L
            BY <1>12, <1>13, <2>1, <2>4
        <3>2. k = Len(mid) + 1 /\ k = Len(out') /\ k > m /\ (E => k > m + 1)
            BY <1>12, <1>13, <2>1, <2>4, <3>1
        <3> QED
            BY <1>13, <3>1, <3>2
    <2> QED
        BY <2>2, <2>3, <2>4
<1>15. Wanted \in SUBSET Nat /\ Wanted \cup {n + 1} \in SUBSET Nat
    BY <1>1, <1>2
<1>16. /\ IsList(Dump(h).dumped)
       /\ Range(Dump(h).dumped) = {h[i].id : i \in 1..Len(h)}
       /\ Len(h) > 0 => Last(Dump(h).dumped) = h[1].id
    BY <1>7, <1>15, DumpFacts
<1>17. /\ IsList(Dump(q).dumped)
       /\ Range(Dump(q).dumped) = {q[i].id : i \in 1..Len(q)}
       /\ Last(Dump(q).dumped) = n + 1
    <2>1. Len(q) > 0
        BY <1>7, <1>11
    <2> QED
        BY <1>3, <1>11, <1>15, <2>1, DumpFacts
<1>18. Len(Dump(h).dumped) = Len(h) /\ Len(Dump(q).dumped) = Len(q)
    <2>1. IsList(h) /\ IsList(q)
        BY <1>7, <1>11 DEF QueueOf
    <2> QED
        BY <2>1, DumpLength
<1>19. E => Len(h) > 0 /\ Len(h) = MaxQueue /\ Len(Q) = MaxQueue
    BY <1>8, <1>10, SinksAssumption
\* What is in q, and what was dumped before.
<1>20. ASSUME NEW i \in 1..Len(q)
       PROVE  \/ q[i].id = n + 1
              \/ \E j \in 1..Len(Q) : Q[j].id = q[i].id
    <2>1. CASE i = 1
        BY <1>3, <1>11, <2>1
    <2>2. CASE i # 1
        <3>1. i - 1 \in 1..Len(h) /\ (i - 1) + 1 = i
            BY <1>7, <1>11, <2>2
        <3>2. q[i] = h[i - 1] /\ h[i - 1] = Q[i - 1] /\ i - 1 \in 1..Len(Q)
            BY <1>7, <1>11, <3>1
        <3> QED
            BY <3>2
    <2> QED
        BY <2>1, <2>2
<1>21. ASSUME NEW k \in 1..m
       PROVE  /\ k \in 1..Len(out) /\ IsList(out[k].dumped) /\ Len(out[k].dumped) > 0
              /\ Range(out[k].dumped) \subseteq Wanted
              /\ Last(out[k].dumped) \in Wanted
              /\ n + 1 \notin Range(out[k].dumped)
              /\ Last(out[k].dumped) # n + 1
    <2>1. k \in 1..Len(out) /\ IsList(out[k].dumped) /\ Len(out[k].dumped) > 0
        BY <1>4 DEF BufferOk, RepeatOk, m
    <2>2. Range(out[k].dumped) \subseteq Dumped /\ Dumped \subseteq Wanted
        BY <1>4, <2>1, DumpedIs DEF BufferDumps
    <2>3. Last(out[k].dumped) \in Range(out[k].dumped)
        BY <2>1, RangeIs
    <2>4. n + 1 \notin Wanted
        BY <1>1, <1>2
    <2> QED
        BY <2>1, <2>2, <2>3, <2>4
<1>22. \A j \in 1..Len(Q) : Q[j].id \notin Triggers /\ Q[j].id # n + 1
    <2> TAKE j \in 1..Len(Q)
    <2>1. Q[j].id \in Wanted
        BY <1>5 DEF QueueOf
    <2>2. Q[j].id \in Triggers => Q[j].id > Q[j].id
        BY <1>4 DEF BufferDumps
    <2>3. Q[j].id \in 1..n
        BY <1>2, <2>1
    <2>4. Q[j].id \in Nat /\ Q[j].id # n + 1
        BY <1>1, <2>3
    <2> QED
        BY <2>2, <2>4
<1>23. \A k \in 1..Len(out') : Len(out'[k].dumped) > 0
    <2> TAKE k \in 1..Len(out')
    <2>1. CASE k \in 1..m /\ out'[k] = out[k]
        BY <1>21, <2>1
    <2>2. CASE IsEarly(k)
        BY <1>18, <1>19, <2>2
    <2>3. CASE IsLate(k)
        BY <1>7, <1>11, <1>18, <2>3
    <2> QED
        BY <1>14, <2>1, <2>2, <2>3
<1>24. ASSUME NEW k \in 1..Len(out'), NEW l \in 1..Len(out'), k < l,
              NEW x \in Range(out'[k].dumped), x \in Range(out'[l].dumped)
       PROVE  Last(out'[k].dumped) \notin Triggers' /\ Last(out'[l].dumped) \in Triggers'
    <2>1. CASE k \in 1..m /\ out'[k] = out[k] /\ l \in 1..m /\ out'[l] = out[l]
        <3>1. k \in 1..Len(out) /\ l \in 1..Len(out) /\ x \in Range(out[k].dumped) \cap Range(out[l].dumped)
            BY <1>21, <1>24, <2>1
        <3>2. Last(out[k].dumped) \notin Triggers /\ Last(out[l].dumped) \in Triggers
            BY <1>4, <1>24, <3>1 DEF DumpsRepeat
        <3> QED
            BY <1>9, <1>21, <2>1, <3>2
    <2>2. CASE k \in 1..m /\ out'[k] = out[k] /\ IsEarly(l)
        <3>1. PICK i \in 1..Len(h) : x = h[i].id
            BY <1>16, <1>24, <2>2
        <3>2. i \in 1..Len(Q) /\ x = Q[i].id
            BY <1>7, <3>1
        <3>3. x \in Dumped
            BY <1>21, <1>24, <2>2, DumpedIs
        <3>4. Len(Q) > MaxQueue
            BY <1>4, <3>2, <3>3 DEF DumpsRepeat
        <3> QED
            BY <1>19, <2>2, <3>4, SinksAssumption
    <2>3. CASE k \in 1..m /\ out'[k] = out[k] /\ IsLate(l)
        <3>1. PICK i \in 1..Len(q) : x = q[i].id
            BY <1>17, <1>24, <2>3
        <3>2. x # n + 1
            BY <1>21, <1>24, <2>3
        <3>3. PICK j \in 1..Len(Q) : Q[j].id = x
            BY <1>20, <3>1, <3>2
        <3>4. Last(out[k].dumped) \notin Triggers
            <4>1. k \in 1..Len(out) /\ Q[j].id \in Range(out[k].dumped)
                BY <1>21, <1>24, <2>3, <3>3
            <4> QED
                BY <4>1, NotYetTriggered
        <3> QED
            BY <1>9, <1>17, <1>21, <2>3, <3>4
    <2>4. CASE IsEarly(k) /\ IsLate(l)
        <3>1. Last(Dump(h).dumped) = h[1].id /\ 1 \in 1..Len(h)
            BY <1>7, <1>16, <1>19, <2>4
        <3>2. h[1].id = Q[1].id /\ 1 \in 1..Len(Q)
            BY <1>7, <3>1
        <3> QED
            BY <1>9, <1>17, <1>22, <2>4, <3>1, <3>2
    <2>5. m \in Nat
        BY <1>5 DEF m
    <2>6. ~(IsEarly(k) /\ l \in 1..m) /\ ~(IsLate(k) /\ l \in 1..m)
          /\ ~(IsEarly(k) /\ IsEarly(l)) /\ ~IsLate(k)
        BY <1>24, <2>5
    <2> QED
        BY <1>14, <2>1, <2>2, <2>3, <2>4, <2>6
<1>25. Len(buffer'.queue) > MaxQueue <=>
          \E i \in 1..Len(buffer'.queue) : buffer'.queue[i].id \in Dumped'
    <2>1. CASE L
        <3>1. Len(buffer'.queue) = 0
            BY <1>6, <2>1, ListNone
        <3> QED
            BY <3>1, SinksAssumption
    <2>2. CASE ~L
        <3>1. buffer'.queue = q
            BY <1>6, <2>2
        <3>2. \A i : i \in Dumped' <=> (i \in Dumped \/ (E /\ i \in Range(Dump(h).dumped)))
            <4>1. m \in Nat /\ m = Len(out)
                BY <1>5 DEF m
            <4>2. \A k \in 1..m : k \in 1..Len(out') /\ out'[k] = out[k]
                BY <1>12, <1>13, <2>2, <4>1
            <4>3. E => m + 1 \in 1..Len(out') /\ out'[m + 1] = Dump(h)
                <5>1. E => m + 1 \in 1..Len(mid) /\ Len(out') = Len(mid)
                    BY <1>12, <1>13, <2>2, <4>1
                <5> QED
                    BY <1>12, <1>13, <5>1
            <4>4. \A k \in 1..Len(out') : (k \in 1..m /\ out'[k] = out[k]) \/ (E /\ out'[k] = Dump(h))
                BY <1>14, <2>2
            <4>5. ASSUME NEW i PROVE i \in Dumped' <=> (i \in Dumped \/ (E /\ i \in Range(Dump(h).dumped)))
                <5>1. ASSUME i \in Dumped' PROVE i \in Dumped \/ (E /\ i \in Range(Dump(h).dumped))
                    BY <4>1, <4>4, <5>1, DumpedIs, DumpedIsNext
                <5>2. ASSUME i \in Dumped PROVE i \in Dumped'
                    BY <4>1, <4>2, <5>2, DumpedIs, DumpedIsNext
                <5>3. ASSUME E, i \in Range(Dump(h).dumped) PROVE i \in Dumped'
                    BY <4>3, <5>3, DumpedIsNext
                <5> QED
                    BY <5>1, <5>2, <5>3
            <4> QED
                BY <4>5
        <3>3. CASE E
            <4>1. Len(q) > MaxQueue
                BY <1>11, <1>19, <3>3, SinksAssumption
            <4>2. 1 \in 1..Len(h) /\ q[1 + 1] = h[1] /\ 1 + 1 \in 1..Len(q)
                BY <1>7, <1>11, <1>19, <3>3
            <4>3. h[1].id \in Dumped'
                BY <1>16, <3>2, <3>3, <4>2
            <4> QED
                BY <3>1, <4>1, <4>2, <4>3
        <3>4. CASE ~E
            <4>1. \A i : i \in Dumped' <=> i \in Dumped
                BY <3>2, <3>4
            <4>2. n + 1 \notin Dumped
                BY <1>1, <1>2, <1>4 DEF BufferDumps
            <4>3. Len(q) > MaxQueue <=> Len(Q) > MaxQueue
                BY <1>5, <1>8, <1>10, <1>11, <3>4, SinksAssumption
            <4>4. ASSUME NEW i \in 1..Len(q), q[i].id \in Dumped' PROVE Len(q) > MaxQueue
                <5>1. \E j \in 1..Len(Q) : Q[j].id \in Dumped
                    BY <1>20, <4>1, <4>2, <4>4
                <5> QED
                    BY <1>4, <4>3, <5>1 DEF DumpsRepeat
            <4>5. ASSUME Len(q) > MaxQueue PROVE \E i \in 1..Len(q) : q[i].id \in Dumped'
                <5>1. PICK j \in 1..Len(Q) : Q[j].id \in Dumped
                    BY <1>4, <4>3, <4>5 DEF DumpsRepeat
                <5>2. ~Full
                    BY <1>5, <1>10, <4>3, <4>5, SinksAssumption
                <5>3. h = Q
                    BY <5>2 DEF Held, h
                <5>4. j + 1 \in 1..Len(q) /\ q[j + 1] = Q[j]
                    BY <1>5, <1>11, <5>3
                <5> QED
                    BY <4>1, <5>1, <5>4
            <4> QED
                BY <3>1, <4>4, <4>5
        <3> QED
            BY <3>3, <3>4
    <2> QED
        BY <2>1, <2>2
<1>26. DumpsRepeat'
    <2>1. \A k, l \in 1..Len(out') :
             k < l /\ Range(out'[k].dumped) \cap Range(out'[l].dumped) # {} =>
                 Last(out'[k].dumped) \notin Triggers' /\ Last(out'[l].dumped) \in Triggers'
        BY <1>24
    <2> QED
        BY <1>25, <2>1 DEF DumpsRepeat
<1> QED
    BY <1>23, <1>26 DEF RepeatOk

\* The output and the queue stay.
LEMMA RepeatStill ==
    ASSUME RepeatOk, UNCHANGED <<sink, out>>, buffer'.queue = buffer.queue,
           \A i \in Wanted : i \in Triggers' <=> i \in Triggers, Dumped \subseteq Wanted,
           sink = "buffer" => \A k \in 1..Len(out) : Last(out[k].dumped) \in Dumped
    PROVE  RepeatOk'
<1> SUFFICES ASSUME sink' = "buffer"
             PROVE  (\A k \in 1..Len(out') : Len(out'[k].dumped) > 0) /\ DumpsRepeat'
    BY DEF RepeatOk
<1>1. DumpsRepeat /\ \A k \in 1..Len(out) : Len(out[k].dumped) > 0
    BY DEF RepeatOk
<1>2. \A k \in 1..Len(out) : Last(out[k].dumped) \in Triggers' <=> Last(out[k].dumped) \in Triggers
    OBVIOUS
<1>3. Dumped' = Dumped
    BY DEF Dumped
<1>4. DumpsRepeat'
    BY <1>1, <1>2, <1>3 DEF DumpsRepeat
<1> QED
    BY <1>1, <1>4

LEMMA RepeatStep == SinksInv /\ RepeatOk /\ [SinksNext]_sinkVars => RepeatOk'
<1> SUFFICES ASSUME SinksInv, RepeatOk, [SinksNext]_sinkVars PROVE RepeatOk'
    OBVIOUS
<1>1. sink' = sink
    BY DEF SinksNext, sinkVars, DoAppend, PopMessage, SetThreshold, SetFilter,
           AppendChainedFilter, SetChainedFilter, NdcPush, NdcPop, NdcClear, NdcCloneStack,
           NdcInherit, ThreadExit, SetLayout, CloseSink, Reopen, SetLossy
<1> SUFFICES ASSUME sink = "buffer" PROVE RepeatOk'
    BY <1>1 DEF RepeatOk
<1>2. Dumped \subseteq Wanted /\ DOMAIN buffer = {"queue", "lossy"}
    BY DEF SinksInv, BufferDumps, BufferOk
<1>3. \A k \in 1..Len(out) : Last(out[k].dumped) \in Dumped
    <2> TAKE k \in 1..Len(out)
    <2>1. IsList(out[k].dumped) /\ Len(out[k].dumped) > 0
        BY DEF SinksInv, BufferOk, RepeatOk
    <2>2. Last(out[k].dumped) \in Range(out[k].dumped)
        BY <2>1, RangeIs
    <2> QED
        BY <2>2, DumpedIs
<1>4. CASE \E t \in Running : \E p \in Priorities : \E n \in LengthsSeen : DoAppend(t, p, n)
    <2>1. PICK r : LoggedAs(r)
        BY <1>4, AppendLogs
    <2>2. CASE LetThrough(r)
        BY <2>1, <2>2, RepeatPassed
    <2>3. CASE ~LetThrough(r)
        <3>1. UNCHANGED <<sink, out, buffer>>
            BY <2>1, <2>3 DEF LoggedAs
        <3>2. \A i : i \in Triggers' <=> i \in Triggers
            BY <2>1, <2>3, TriggersGrow
        <3> QED
            BY <1>2, <1>3, <3>1, <3>2, RepeatStill
    <2> QED
        BY <2>2, <2>3
<1>5. CASE UNCHANGED <<sink, out, events>> /\ buffer'.queue = buffer.queue
    <2>1. Wanted' = Wanted
        BY <1>5 DEF Wanted, Let
    <2>2. Triggers' = Triggers
        BY <1>5, <2>1 DEF Triggers, LevelReached
    <2> QED
        BY <1>2, <1>3, <1>5, <2>2, RepeatStill
<1>6. CASE ~\E t \in Running : \E p \in Priorities : \E n \in LengthsSeen : DoAppend(t, p, n)
    <2>1. ~PopMessage
        BY DEF PopMessage
    <2>2. ASSUME NEW b \in BOOLEAN, SetLossy(b)
          PROVE  UNCHANGED <<sink, out, events>> /\ buffer'.queue = buffer.queue
        BY <1>2, <2>2 DEF SetLossy
    <2>3. UNCHANGED <<sink, out, events>> /\ buffer'.queue = buffer.queue
        BY <1>6, <2>1, <2>2
           DEF SinksNext, sinkVars, SetThreshold, SetFilter, AppendChainedFilter,
               SetChainedFilter, NdcPush, NdcPop, NdcClear, NdcCloneStack, NdcInherit,
               ThreadExit, SetLayout, CloseSink, Reopen
    <2> QED
        BY <1>5, <2>3
<1> QED
    BY <1>4, <1>6

LEMMA RepeatStart == SinksInit => RepeatOk
<1> SUFFICES ASSUME SinksInit PROVE RepeatOk
    OBVIOUS
<1>1. out = << >> /\ Len(out) = 0 /\ buffer.queue = << >> /\ Len(buffer.queue) = 0
    BY ListNone DEF SinksInit
<1>2. \A k \in 1..Len(out) : FALSE
    BY <1>1
<1>3. DumpsRepeat
    BY <1>1, <1>2, SinksAssumption DEF DumpsRepeat
<1> QED
    BY <1>2, <1>3 DEF RepeatOk

\* Whatever an appender of the other classes is asked to do, and however it is
\* configured and closed in between: what comes out of it is what its threshold
\* and its filters let through, in order and whole; only a full buffer dumps
\* events a second time.
THEOREM SinksKeepFaith == SinksSpec => []SinksFaithful
<1>1. SinksInv /\ RepeatOk => SinksFaithful
    <2> SUFFICES ASSUME SinksInv, RepeatOk PROVE SinksFaithful
        OBVIOUS
    <2>1. DumpsRepeat
        BY DEF RepeatOk, DumpsRepeat
    <2> QED
        BY <2>1 DEF SinksInv, NdcOk, SinksFaithful
<1> QED
    BY <1>1, SinksStart, SinksStep, RepeatStart, RepeatStep, PTL DEF SinksSpec
=============================================================================
