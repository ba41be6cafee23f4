----------------------------- MODULE MailSender -----------------------------
(***************************************************************************)
(* SmtpAppender of log4cpp: the appends of all its instances put mails on  *)
(* one list, and a thread of the sender takes them off and talks to the    *)
(* mail server.                                                            *)
(*                                                                         *)
(* mails_mutex_ makes each block that holds it one step.  The sender keeps *)
(* an iterator into the list while the mutex is free.  The condition may   *)
(* wake without a notification, and the delivery may fail: either way the  *)
(* mail is erased after it.                                                *)
(***************************************************************************)
EXTENDS Naturals, Sequences, SequencesExt, FiniteSets

CONSTANTS
    MaxMails,     \* bound on the mails that are sent
    MaxShutdowns  \* bound on the calls of HierarchyMaintainer::shutdown

VARIABLES
    object,       \* instance_: "none", "live" or "deleted"
    mails,        \* mails_, the numbers of the mails
    thread,       \* where the sender thread is
    iter,         \* its iterator i: a mail, or 0 for end()
    should_exit,
    stopping,     \* shutdown has set should_exit_ and joins the thread
    tried,        \* the mails that were taken to the server, in order
    sentMails,    \* mails put on the list so far
    shutdowns,
    spurious,     \* whether the wait returned without a notification
    mailFault     \* undefined behaviour that was run into, or "none"

mailVars == <<object, mails, thread, iter, should_exit, stopping, tried, sentMails,
              shutdowns, spurious, mailFault>>

MailInit ==
    /\ object = "none" /\ mails = << >> /\ thread = "none" /\ iter = 0
    /\ should_exit = FALSE /\ stopping = FALSE
    /\ tried = << >> /\ sentMails = 0 /\ shutdowns = 0
    /\ spurious = FALSE /\ mailFault = "none"

\* notify_all under the mutex.
Notified == IF thread = "waiting" THEN "woken" ELSE thread
-----------------------------------------------------------------------------
(* The threads that log, and shutdown.                                     *)

\* Mutant: push_front.
Send_Front ==
    /\ sentMails < MaxMails
    /\ sentMails' = sentMails + 1
    /\ IF object = "deleted"
       THEN mailFault' = "deleted" /\ UNCHANGED <<object, mails, thread>>
       ELSE /\ object' = "live"
            /\ mails' = <<sentMails + 1>> \o mails
            /\ thread' = IF object = "none" THEN "loop" ELSE Notified
            /\ UNCHANGED mailFault
    /\ UNCHANGED <<iter, should_exit, stopping, tried, shutdowns, spurious>>

\* _append: the first call creates the sender, which starts the thread and
\* registers sender_shutdown; the mail goes to the end of the list.
Send ==
    /\ sentMails < MaxMails
    /\ sentMails' = sentMails + 1
    /\ IF object = "deleted"
       THEN mailFault' = "deleted" /\ UNCHANGED <<object, mails, thread>>
       ELSE /\ object' = "live"
            /\ mails' = Append(mails, sentMails + 1)
            /\ thread' = IF object = "none" THEN "loop" ELSE Notified
            /\ UNCHANGED mailFault
    /\ UNCHANGED <<iter, should_exit, stopping, tried, shutdowns, spurious>>

\* The handler is called by every shutdown once it is registered, also by the
\* one in ~HierarchyMaintainer after an explicit one.
ShutdownBegin ==
    /\ shutdowns < MaxShutdowns
    /\ object # "none" /\ ~stopping
    /\ shutdowns' = shutdowns + 1
    /\ IF object = "deleted"
       THEN mailFault' = "deleted" /\ UNCHANGED <<thread, should_exit, stopping>>
       ELSE /\ should_exit' = TRUE /\ stopping' = TRUE
            /\ thread' = Notified
            /\ UNCHANGED mailFault
    /\ UNCHANGED <<object, mails, iter, tried, sentMails, spurious>>

\* The join returns, and the sender is deleted with what is on its list.
ShutdownEnd ==
    /\ stopping
    /\ thread = "ended"
    /\ object' = "deleted" /\ stopping' = FALSE
    /\ UNCHANGED <<mails, thread, iter, should_exit, tried, sentMails, shutdowns, spurious,
                   mailFault>>
-----------------------------------------------------------------------------
(* The sender thread, sender::operator().                                  *)

First == IF mails = << >> THEN 0 ELSE Head(mails)

\* while (!should_exit_): read without the mutex.
Loop ==
    /\ thread = "loop"
    /\ thread' = IF should_exit THEN "ended" ELSE "locked"
    /\ UNCHANGED <<object, mails, iter, should_exit, stopping, tried, sentMails, shutdowns,
                   spurious, mailFault>>

\* The first critical section, up to the wait or to its end.
Take ==
    /\ thread = "locked"
    /\ thread' = IF mails # << >> THEN "deliver"
                 ELSE IF should_exit THEN "ended" ELSE "waiting"
    /\ iter' = First
    /\ UNCHANGED <<object, mails, should_exit, stopping, tried, sentMails, shutdowns,
                   spurious, mailFault>>

SpuriousWakeup ==
    /\ thread = "waiting"
    /\ thread' = "woken" /\ spurious' = TRUE
    /\ UNCHANGED <<object, mails, iter, should_exit, stopping, tried, sentMails, shutdowns,
                   mailFault>>

\* After the wait the list is not looked at again, unless the sender is to end.
Woken ==
    /\ thread = "woken"
    /\ thread' = IF should_exit /\ mails = << >> THEN "ended" ELSE "deliver"
    /\ iter' = First
    /\ UNCHANGED <<object, mails, should_exit, stopping, tried, sentMails, shutdowns,
                   spurious, mailFault>>

\* The dialogue with the server, whether or not it succeeds.
Deliver ==
    /\ thread = "deliver"
    /\ mailFault' = IF iter = 0 THEN "end" ELSE mailFault
    /\ tried' = IF iter = 0 THEN tried ELSE Append(tried, iter)
    /\ thread' = "erase"
    /\ UNCHANGED <<object, mails, iter, should_exit, stopping, sentMails, shutdowns, spurious>>

\* mails_.erase(i)
Erase ==
    /\ thread = "erase"
    /\ \E i \in DOMAIN mails : mails[i] = iter /\ mails' = RemoveAt(mails, i)
    /\ thread' = "loop"
    /\ UNCHANGED <<object, iter, should_exit, stopping, tried, sentMails, shutdowns, spurious,
                   mailFault>>

\* Nothing is said of what happens after undefined behaviour.
MailNext ==
    /\ mailFault = "none"
    /\ \/ Send \/ ShutdownBegin \/ ShutdownEnd
       \/ Loop \/ Take \/ SpuriousWakeup \/ Woken \/ Deliver \/ Erase

MailSpec == MailInit /\ [][MailNext]_mailVars
-----------------------------------------------------------------------------
\* Every mail is taken to the server at most once and in the order of the
\* appends, and until a shutdown none disappears from between the list and the
\* server; a shutdown never joins a thread that waits for a notification that
\* was given before; the sender reads through the end of the list only after a wait that
\* returned by itself, and is used after its end only by a caller that logs or
\* shuts down once more after a completed shutdown.
MailsInOrder ==
    /\ tried = [i \in 1..Len(tried) |-> i]
    /\ \A i \in 1..sentMails : ~should_exit => i <= Len(tried) \/ i \in Range(mails)
    /\ stopping => thread # "waiting"
    /\ mailFault = "end" => spurious
    /\ mailFault = "deleted" => shutdowns > 0 /\ ~stopping /\ thread = "ended"
=============================================================================
