-------------------------- MODULE UserEventHandler --------------------------
(***************************************************************************)
(* UserEventHandler::handle, run by several pool threads at once: the      *)
(* requests for a validation code and the logins, with the table of codes  *)
(* m2c_ under the mutex pm_, and UserService over the database, which no   *)
(* lock of the server protects.                                            *)
(*                                                                         *)
(* A call is one run of the handler.  The database (external) executes one *)
(* statement at a time; each login opens its own connection.               *)
(*                                                                         *)
(* Abstractions: mobiles and codes are model values.  code_gen may return  *)
(* any code (rand() is seeded with the time and shared by the threads).    *)
(***************************************************************************)
EXTENDS Integers, FiniteSets

CONSTANTS Calls,     \* runs of the handler
          Mobiles, Codes,
          DbCanFail, \* whether connections and statements may fail
          NoCode, NoCall, NoMobile

ASSUME HandlerAssumption ==
    /\ DbCanFail \in BOOLEAN
    /\ NoCode \notin Codes
    /\ NoCall \notin Calls
    /\ NoMobile \notin Mobiles

VARIABLES
    m2c,     \* UserEventHandler::m2c_
    pm,      \* owner of pm_
    rows,    \* rows of the table userinfo, by mobile
    pc,      \* control point of each call
    mobile,  \* the mobile of each call's event
    icode,   \* the code of a login event, or the code generated
    rsp,     \* error code of the response, "none" before
    issued   \* history: the codes ever stored for each mobile

vars == <<m2c, pm, rows, pc, mobile, icode, rsp, issued>>

CallPC == {"new", "code lock", "code locked", "login lock", "login locked",
           "connect", "exist", "insert", "done"}
LoginPC == {"connect", "exist", "insert"}

Init ==
    /\ m2c = [m \in Mobiles |-> NoCode]
    /\ pm = NoCall
    /\ rows = [m \in Mobiles |-> 0]
    /\ pc = [p \in Calls |-> "new"]
    /\ mobile = [p \in Calls |-> NoMobile]
    /\ icode = [p \in Calls |-> NoCode]
    /\ rsp = [p \in Calls |-> "none"]
    /\ issued = [m \in Mobiles |-> {}]

\* The call p returns the response r.
Return(p, r) ==
    /\ pc' = [pc EXCEPT ![p] = "done"]
    /\ rsp' = [rsp EXCEPT ![p] = r]

Goto(p, l) ==
    /\ pc' = [pc EXCEPT ![p] = l]
    /\ UNCHANGED rsp

\* thread_mutex_lock and thread_mutex_unlock of pm_.
MutexLock(p) == pm = NoCall /\ pm' = p
MutexUnlock == pm' = NoCall
-----------------------------------------------------------------------------
(***************************************************************************)
(* handle_mobile_code_req                                                  *)
(***************************************************************************)

\* The event names mobile m, code_gen returns c.
CodeReq(p, m, c) ==
    /\ pc[p] = "new"
    /\ mobile' = [mobile EXCEPT ![p] = m]
    /\ icode' = [icode EXCEPT ![p] = c]
    /\ Goto(p, "code lock")
    /\ UNCHANGED <<m2c, pm, rows, issued>>

\* Mutant: pm_ is not taken around the assignment.
LockForCode_None(p) ==
    /\ pc[p] = "code lock"
    /\ Goto(p, "code locked")
    /\ UNCHANGED <<m2c, pm, rows, mobile, icode, issued>>

LockForCode(p) ==
    /\ pc[p] = "code lock"
    /\ MutexLock(p)
    /\ Goto(p, "code locked")
    /\ UNCHANGED <<m2c, rows, mobile, icode, issued>>

StoreCode(p) ==
    /\ pc[p] = "code locked"
    /\ m2c' = [m2c EXCEPT ![mobile[p]] = icode[p]]
    /\ issued' = [issued EXCEPT ![mobile[p]] = @ \cup {icode[p]}]
    /\ MutexUnlock
    /\ Return(p, "code sent")
    /\ UNCHANGED <<rows, mobile, icode>>

-----------------------------------------------------------------------------
(***************************************************************************)
(* handle_login_req                                                        *)
(***************************************************************************)

LoginReq(p, m, c) ==
    /\ pc[p] = "new"
    /\ mobile' = [mobile EXCEPT ![p] = m]
    /\ icode' = [icode EXCEPT ![p] = c]
    /\ Goto(p, "login lock")
    /\ UNCHANGED <<m2c, pm, rows, issued>>

LockForLogin(p) ==
    /\ pc[p] = "login lock"
    /\ MutexLock(p)
    /\ Goto(p, "login locked")
    /\ UNCHANGED <<m2c, rows, mobile, icode, issued>>

\* Mutant: a mobile that has some code passes.
CheckCode_AnyCode(p) ==
    /\ pc[p] = "login locked"
    /\ MutexUnlock
    /\ IF m2c[mobile[p]] # NoCode
         THEN Goto(p, "connect")
         ELSE Return(p, "INVALID_DATA")
    /\ UNCHANGED <<m2c, rows, mobile, icode, issued>>

\* Mutant: return without unlock when the code is wrong.
CheckCode_KeepLock(p) ==
    /\ pc[p] = "login locked"
    /\ IF m2c[mobile[p]] = icode[p]
         THEN Goto(p, "connect") /\ MutexUnlock
         ELSE Return(p, "INVALID_DATA") /\ UNCHANGED pm
    /\ UNCHANGED <<m2c, rows, mobile, icode, issued>>

\* Compare with m2c_ and unlock on either outcome.
CheckCode(p) ==
    /\ pc[p] = "login locked"
    /\ MutexUnlock
    /\ IF m2c[mobile[p]] = icode[p]
         THEN Goto(p, "connect")
         ELSE Return(p, "INVALID_DATA")
    /\ UNCHANGED <<m2c, rows, mobile, icode, issued>>

Connect(p) ==
    /\ pc[p] = "connect"
    /\ Goto(p, "exist")
    /\ UNCHANGED <<m2c, pm, rows, mobile, icode, issued>>

ConnectFails(p) ==
    /\ pc[p] = "connect"
    /\ DbCanFail
    /\ Return(p, "PROCESS_FAILED")
    /\ UNCHANGED <<m2c, pm, rows, mobile, icode, issued>>

\* UserService::exist: the select finds the user, or finds none.
Exist(p) ==
    /\ pc[p] = "exist"
    /\ IF rows[mobile[p]] # 0
         THEN Return(p, "SUCCESS")
         ELSE Goto(p, "insert")
    /\ UNCHANGED <<m2c, pm, rows, mobile, icode, issued>>

\* The select fails, which exist() reports as "no such user".
ExistFails(p) ==
    /\ pc[p] = "exist"
    /\ DbCanFail
    /\ Goto(p, "insert")
    /\ UNCHANGED <<m2c, pm, rows, mobile, icode, issued>>

Insert(p) ==
    /\ pc[p] = "insert"
    /\ rows' = [rows EXCEPT ![mobile[p]] = @ + 1]
    /\ Return(p, "SUCCESS")
    /\ UNCHANGED <<m2c, pm, mobile, icode, issued>>

\* Mutant: the result of the insert is ignored.
InsertFails_Ignored(p) ==
    /\ pc[p] = "insert"
    /\ DbCanFail
    /\ \/ UNCHANGED rows
       \/ rows' = [rows EXCEPT ![mobile[p]] = @ + 1]
    /\ Return(p, "SUCCESS")
    /\ UNCHANGED <<m2c, pm, mobile, icode, issued>>

\* Mutant: an insert without an answer is tried again.
InsertFails_Retry(p) ==
    /\ pc[p] = "insert"
    /\ DbCanFail
    /\ \/ UNCHANGED rows
       \/ rows' = [rows EXCEPT ![mobile[p]] = @ + 1]
    /\ Goto(p, "insert")
    /\ UNCHANGED <<m2c, pm, mobile, icode, issued>>

\* Execute returns false; the server may have executed the statement before
\* the connection was lost.
InsertFails(p) ==
    /\ pc[p] = "insert"
    /\ DbCanFail
    /\ \/ UNCHANGED rows
       \/ rows' = [rows EXCEPT ![mobile[p]] = @ + 1]
    /\ Return(p, "PROCESS_FAILED")
    /\ UNCHANGED <<m2c, pm, mobile, icode, issued>>
-----------------------------------------------------------------------------

Lock(p) == LockForCode(p) \/ LockForLogin(p)

Step(p) ==
    \/ StoreCode(p) \/ CheckCode(p)
    \/ Connect(p) \/ ConnectFails(p)
    \/ Exist(p) \/ ExistFails(p)
    \/ Insert(p) \/ InsertFails(p)

\* All calls have returned.
Ended == (\A p \in Calls : pc[p] = "done") /\ UNCHANGED vars

Next ==
    \/ \E p \in Calls : \E m \in Mobiles, c \in Codes :
           CodeReq(p, m, c) \/ LoginReq(p, m, c)
    \/ \E p \in Calls : Lock(p) \/ Step(p)
    \/ Ended

Spec == Init /\ [][Next]_vars

\* Threads are scheduled, the database answers, and a thread that waits for
\* pm_ gets it.
Fairness == \A p \in Calls : WF_vars(Step(p)) /\ SF_vars(Lock(p))

FairSpec == Spec /\ Fairness

-----------------------------------------------------------------------------

\* Every variable has its type, and m2c_ is used under pm_ alone: the call that
\* is between lock and unlock holds it, and no other call is there.
TypeOK ==
    /\ m2c \in [Mobiles -> Codes \cup {NoCode}]
    /\ pm \in Calls \cup {NoCall}
    /\ \A p \in Calls : pm = p <=> pc[p] \in {"code locked", "login locked"}
    /\ rows \in [Mobiles -> Nat]
    /\ pc \in [Calls -> CallPC]
    /\ mobile \in [Calls -> Mobiles \cup {NoMobile}]
    /\ icode \in [Calls -> Codes \cup {NoCode}]
    /\ rsp \in [Calls -> {"none", "code sent", "SUCCESS", "INVALID_DATA",
                          "PROCESS_FAILED"}]
    /\ issued \in [Mobiles -> SUBSET Codes]

\* A login that is answered with success leaves its user in the database,
\* whatever statements failed and whichever other logins ran in between.
SuccessRegistered ==
    \A p \in Calls : rsp[p] = "SUCCESS" => rows[mobile[p]] >= 1

\* Only a code that was stored for the very mobile lets a login reach the
\* database, also when the code is replaced meanwhile.
LoginNeedsCode ==
    \A p \in Calls :
        pc[p] \in LoginPC \/ rsp[p] \in {"SUCCESS", "PROCESS_FAILED"} =>
            icode[p] \in issued[mobile[p]]

\* The logins of m that got past the check and may have inserted a row.
Logins(m) == {p \in Calls : mobile[p] = m /\ rsp[p] \in {"SUCCESS", "PROCESS_FAILED"}}

\* No login inserts its user twice, and no row appears without a login that
\* proved its code.
RowsEarned == \A m \in Mobiles : rows[m] <= Cardinality(Logins(m))

\* Every request is answered: pm_ is released on every path.
Answered == \A p \in Calls : pc[p] # "new" ~> pc[p] = "done"

\* "If the check succeeds, see whether the user is in the database, and insert
\* the user record if not": no user is ever recorded twice.
OneRowPerUser == \A m \in Mobiles : rows[m] <= 1
=============================================================================
