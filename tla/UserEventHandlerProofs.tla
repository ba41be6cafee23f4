----------------------- MODULE UserEventHandlerProofs -----------------------
(***************************************************************************)
(* What a login guarantees, proved for every number of concurrent calls,   *)
(* mobiles and codes, with or without a failing database.                  *)
(***************************************************************************)
EXTENDS UserEventHandler, FiniteSetTheorems, TLAPS

\* A call that has started knows its event; it has a response exactly when it
\* is done; what m2c_ holds for a mobile has been issued for that mobile.
CallInv ==
    /\ \A p \in Calls : pc[p] # "new" => mobile[p] \in Mobiles /\ icode[p] \in Codes
    /\ \A p \in Calls : rsp[p] # "none" <=> pc[p] = "done"
    /\ \A m \in Mobiles : m2c[m] # NoCode => m2c[m] \in issued[m]

LoginInv == TypeOK /\ CallInv /\ LoginNeedsCode /\ SuccessRegistered

\* The invariant holds before the first call.
LEMMA InitLogin == Init => LoginInv
<1> SUFFICES ASSUME Init PROVE LoginInv
  OBVIOUS
<1>1. TypeOK
  <2>1. \A p \in Calls : pm = p <=> pc[p] \in {"code locked", "login locked"}
    BY HandlerAssumption DEF Init
  <2> QED
    BY <2>1 DEF Init, TypeOK, CallPC
<1>2. CallInv
  BY HandlerAssumption DEF Init, CallInv
<1>3. LoginNeedsCode /\ SuccessRegistered
  BY DEF Init, LoginNeedsCode, SuccessRegistered, LoginPC
<1> QED
  BY <1>1, <1>2, <1>3 DEF LoginInv

\* Every step of every call keeps the invariant.
LEMMA StepLogin == LoginInv /\ [Next]_vars => LoginInv'
<1> SUFFICES ASSUME LoginInv, [Next]_vars PROVE LoginInv'
  OBVIOUS
<1> USE HandlerAssumption DEF LoginInv
<1>1. ASSUME NEW p \in Calls, NEW m \in Mobiles, NEW c \in Codes, CodeReq(p, m, c)
      PROVE  LoginInv'
  <2>1. TypeOK'
    BY <1>1 DEF CodeReq, Goto, Return, TypeOK, CallInv, CallPC
  <2>2. CallInv'
    BY <1>1 DEF CodeReq, Goto, Return, TypeOK, CallInv, CallPC
  <2>3. LoginNeedsCode'
    BY <1>1 DEF CodeReq, Goto, Return, TypeOK, CallInv, LoginNeedsCode, LoginPC
  <2>4. SuccessRegistered'
    BY <1>1 DEF CodeReq, Goto, Return, TypeOK, CallInv, SuccessRegistered
  <2> QED
    BY <2>1, <2>2, <2>3, <2>4
<1>2. ASSUME NEW p \in Calls, NEW m \in Mobiles, NEW c \in Codes, LoginReq(p, m, c)
      PROVE  LoginInv'
  <2>1. TypeOK'
    BY <1>2 DEF LoginReq, Goto, Return, TypeOK, CallInv, CallPC
  <2>2. CallInv'
    BY <1>2 DEF LoginReq, Goto, Return, TypeOK, CallInv, CallPC
  <2>3. LoginNeedsCode'
    BY <1>2 DEF LoginReq, Goto, Return, TypeOK, CallInv, LoginNeedsCode, LoginPC
  <2>4. SuccessRegistered'
    BY <1>2 DEF LoginReq, Goto, Return, TypeOK, CallInv, SuccessRegistered
  <2> QED
    BY <2>1, <2>2, <2>3, <2>4
<1>3. ASSUME NEW p \in Calls, LockForCode(p)
      PROVE  LoginInv'
  <2>1. TypeOK'
    BY <1>3 DEF LockForCode, MutexLock, Goto, Return, TypeOK, CallInv, CallPC
  <2>2. CallInv'
    BY <1>3 DEF LockForCode, MutexLock, Goto, Return, TypeOK, CallInv, CallPC
  <2>3. LoginNeedsCode'
    BY <1>3 DEF LockForCode, MutexLock, Goto, Return, TypeOK, CallInv, LoginNeedsCode, LoginPC
  <2>4. SuccessRegistered'
    BY <1>3 DEF LockForCode, MutexLock, Goto, Return, TypeOK, CallInv, SuccessRegistered
  <2> QED
    BY <2>1, <2>2, <2>3, <2>4
<1>4. ASSUME NEW p \in Calls, StoreCode(p)
      PROVE  LoginInv'
  <2>1. TypeOK'
    BY <1>4 DEF StoreCode, MutexUnlock, Goto, Return, TypeOK, CallInv, CallPC
  <2>2. CallInv'
    BY <1>4 DEF StoreCode, MutexUnlock, Goto, Return, TypeOK, CallInv, CallPC
  <2>3. LoginNeedsCode'
    BY <1>4 DEF StoreCode, MutexUnlock, Goto, Return, TypeOK, CallInv, LoginNeedsCode, LoginPC
  <2>4. SuccessRegistered'
    BY <1>4 DEF StoreCode, MutexUnlock, Goto, Return, TypeOK, CallInv, SuccessRegistered
  <2> QED
    BY <2>1, <2>2, <2>3, <2>4
<1>5. ASSUME NEW p \in Calls, LockForLogin(p)
      PROVE  LoginInv'
  <2>1. TypeOK'
    BY <1>5 DEF LockForLogin, MutexLock, Goto, Return, TypeOK, CallInv, CallPC
  <2>2. CallInv'
    BY <1>5 DEF LockForLogin, MutexLock, Goto, Return, TypeOK, CallInv, CallPC
  <2>3. LoginNeedsCode'
    BY <1>5 DEF LockForLogin, MutexLock, Goto, Return, TypeOK, CallInv, LoginNeedsCode, LoginPC
  <2>4. SuccessRegistered'
    BY <1>5 DEF LockForLogin, MutexLock, Goto, Return, TypeOK, CallInv, SuccessRegistered
  <2> QED
    BY <2>1, <2>2, <2>3, <2>4
<1>6. ASSUME NEW p \in Calls, CheckCode(p)
      PROVE  LoginInv'
  <2>1. TypeOK'
    BY <1>6 DEF CheckCode, MutexUnlock, Goto, Return, TypeOK, CallInv, CallPC
  <2>2. CallInv'
    BY <1>6 DEF CheckCode, MutexUnlock, Goto, Return, TypeOK, CallInv, CallPC
  <2>3. LoginNeedsCode'
    <3>1. CASE m2c[mobile[p]] = icode[p]
      <4>1. icode[p] \in issued[mobile[p]]
        BY <1>6, <3>1 DEF CheckCode, MutexUnlock, TypeOK, CallInv
      <4>2. /\ pc' = [pc EXCEPT ![p] = "connect"] /\ rsp' = rsp
            /\ mobile' = mobile /\ icode' = icode /\ issued' = issued
        BY <1>6, <3>1 DEF CheckCode, MutexUnlock, Goto
      <4> QED
        BY <4>1, <4>2 DEF TypeOK, LoginNeedsCode
    <3>2. CASE m2c[mobile[p]] # icode[p]
      <4>1. /\ pc' = [pc EXCEPT ![p] = "done"]
            /\ rsp' = [rsp EXCEPT ![p] = "INVALID_DATA"]
            /\ mobile' = mobile /\ icode' = icode /\ issued' = issued
        BY <1>6, <3>2 DEF CheckCode, Return
      <4> QED
        BY <4>1 DEF TypeOK, LoginNeedsCode, LoginPC
    <3> QED
      BY <3>1, <3>2
  <2>4. SuccessRegistered'
    BY <1>6 DEF CheckCode, MutexUnlock, Goto, Return, TypeOK, CallInv, SuccessRegistered
  <2> QED
    BY <2>1, <2>2, <2>3, <2>4
<1>7. ASSUME NEW p \in Calls, Connect(p)
      PROVE  LoginInv'
  <2>1. TypeOK'
    BY <1>7 DEF Connect, Goto, Return, TypeOK, CallInv, CallPC
  <2>2. CallInv'
    BY <1>7 DEF Connect, Goto, Return, TypeOK, CallInv, CallPC
  <2>3. LoginNeedsCode'
    BY <1>7 DEF Connect, Goto, Return, TypeOK, CallInv, LoginNeedsCode, LoginPC
  <2>4. SuccessRegistered'
    BY <1>7 DEF Connect, Goto, Return, TypeOK, CallInv, SuccessRegistered
  <2> QED
    BY <2>1, <2>2, <2>3, <2>4
<1>8. ASSUME NEW p \in Calls, ConnectFails(p)
      PROVE  LoginInv'
  <2>1. TypeOK'
    BY <1>8 DEF ConnectFails, Goto, Return, TypeOK, CallInv, CallPC
  <2>2. CallInv'
    BY <1>8 DEF ConnectFails, Goto, Return, TypeOK, CallInv, CallPC
  <2>3. LoginNeedsCode'
    BY <1>8 DEF ConnectFails, Goto, Return, TypeOK, CallInv, LoginNeedsCode, LoginPC
  <2>4. SuccessRegistered'
    BY <1>8 DEF ConnectFails, Goto, Return, TypeOK, CallInv, SuccessRegistered
  <2> QED
    BY <2>1, <2>2, <2>3, <2>4
<1>9. ASSUME NEW p \in Calls, Exist(p)
      PROVE  LoginInv'
  <2>0. /\ mobile[p] \in Mobiles
        /\ rows[mobile[p]] \in Nat
        /\ p \in DOMAIN pc /\ p \in DOMAIN rsp
    BY <1>9 DEF Exist, TypeOK, CallInv
  <2>1. TypeOK'
    BY <1>9 DEF Exist, Goto, Return, TypeOK, CallInv, CallPC
  <2>2. CallInv'
    BY <1>9 DEF Exist, Goto, Return, TypeOK, CallInv, CallPC
  <2>3. LoginNeedsCode'
    BY <1>9 DEF Exist, Goto, Return, TypeOK, CallInv, LoginNeedsCode, LoginPC
  <2>4. SuccessRegistered'
    <3>1. CASE rows[mobile[p]] = 0
      BY <1>9, <3>1 DEF Exist, Goto, TypeOK, SuccessRegistered
    <3>2. CASE rows[mobile[p]] >= 1
      <4>1. /\ rsp' = [rsp EXCEPT ![p] = "SUCCESS"]
            /\ rows' = rows /\ mobile' = mobile
        BY <1>9, <3>2 DEF Exist, Return
      <4> QED
        BY <3>2, <4>1 DEF TypeOK, SuccessRegistered
    <3> QED
      BY <2>0, <3>1, <3>2
  <2> QED
    BY <2>1, <2>2, <2>3, <2>4
<1>10. ASSUME NEW p \in Calls, ExistFails(p)
       PROVE  LoginInv'
  <2>1. TypeOK'
    BY <1>10 DEF ExistFails, Goto, Return, TypeOK, CallInv, CallPC
  <2>2. CallInv'
    BY <1>10 DEF ExistFails, Goto, Return, TypeOK, CallInv, CallPC
  <2>3. LoginNeedsCode'
    BY <1>10 DEF ExistFails, Goto, Return, TypeOK, CallInv, LoginNeedsCode, LoginPC
  <2>4. SuccessRegistered'
    BY <1>10 DEF ExistFails, Goto, Return, TypeOK, CallInv, SuccessRegistered
  <2> QED
    BY <2>1, <2>2, <2>3, <2>4
<1>11. ASSUME NEW p \in Calls, Insert(p)
       PROVE  LoginInv'
  <2>0. /\ mobile[p] \in Mobiles
        /\ rows[mobile[p]] \in Nat
        /\ p \in DOMAIN pc /\ p \in DOMAIN rsp
    BY <1>11 DEF Insert, TypeOK, CallInv
  <2>r. /\ rows' \in [Mobiles -> Nat]
        /\ rows'[mobile[p]] >= 1
        /\ \A m \in Mobiles : rows'[m] >= rows[m]
    <3>1. rows \in [Mobiles -> Nat]
      BY DEF TypeOK
    <3>2. rows' = [rows EXCEPT ![mobile[p]] = rows[mobile[p]] + 1]
      BY <1>11 DEF Insert
    <3> QED
      BY <2>0, <3>1, <3>2
  <2>1. TypeOK'
    BY <1>11, <2>r DEF Insert, Return, TypeOK, CallPC
  <2>2. CallInv'
    BY <1>11 DEF Insert, Goto, Return, TypeOK, CallInv, CallPC
  <2>3. LoginNeedsCode'
    BY <1>11 DEF Insert, Goto, Return, TypeOK, CallInv, LoginNeedsCode, LoginPC
  <2>4. SuccessRegistered'
    <3>1. rsp' = [rsp EXCEPT ![p] = "SUCCESS"] /\ mobile' = mobile
      BY <1>11 DEF Insert, Return
    <3>2. ASSUME NEW q \in Calls, rsp'[q] = "SUCCESS"
          PROVE  rows'[mobile'[q]] >= 1
      <4>1. CASE q = p
        BY <2>r, <3>1, <4>1
      <4>2. CASE q # p
        <5>1. rsp[q] = "SUCCESS" /\ mobile[q] \in Mobiles
          BY <3>1, <3>2, <4>2 DEF TypeOK, CallInv
        <5>2. rows[mobile[q]] >= 1
          BY <5>1 DEF SuccessRegistered
        <5>3. rows'[mobile[q]] >= rows[mobile[q]]
          BY <2>r, <5>1
        <5>4. rows'[mobile[q]] \in Nat /\ rows[mobile[q]] \in Nat
          BY <2>r, <5>1 DEF TypeOK
        <5> QED
          BY <3>1, <5>2, <5>3, <5>4
      <4> QED
        BY <4>1, <4>2
    <3> QED
      BY <3>2 DEF SuccessRegistered
  <2> QED
    BY <2>1, <2>2, <2>3, <2>4
<1>12. ASSUME NEW p \in Calls, InsertFails(p)
       PROVE  LoginInv'
  <2>0. /\ mobile[p] \in Mobiles
        /\ rows[mobile[p]] \in Nat
        /\ p \in DOMAIN pc /\ p \in DOMAIN rsp
    BY <1>12 DEF InsertFails, TypeOK, CallInv
  <2>r. /\ rows' \in [Mobiles -> Nat]
        /\ \A m \in Mobiles : rows'[m] >= rows[m]
    <3>1. rows \in [Mobiles -> Nat]
      BY DEF TypeOK
    <3>2. rows' = rows \/ rows' = [rows EXCEPT ![mobile[p]] = rows[mobile[p]] + 1]
      BY <1>12 DEF InsertFails
    <3> QED
      BY <2>0, <3>1, <3>2
  <2>1. TypeOK'
    BY <1>12, <2>r DEF InsertFails, Return, TypeOK, CallPC
  <2>2. CallInv'
    BY <1>12 DEF InsertFails, Goto, Return, TypeOK, CallInv, CallPC
  <2>3. LoginNeedsCode'
    BY <1>12 DEF InsertFails, Goto, Return, TypeOK, CallInv, LoginNeedsCode, LoginPC
  <2>4. SuccessRegistered'
    <3>1. rsp' = [rsp EXCEPT ![p] = "PROCESS_FAILED"] /\ mobile' = mobile
      BY <1>12 DEF InsertFails, Return
    <3>2. ASSUME NEW q \in Calls, rsp'[q] = "SUCCESS"
          PROVE  rows'[mobile'[q]] >= 1
      <4>1. rsp[q] = "SUCCESS" /\ mobile[q] \in Mobiles
        BY <3>1, <3>2 DEF TypeOK, CallInv
      <4>2. rows[mobile[q]] >= 1
        BY <4>1 DEF SuccessRegistered
      <4>3. rows'[mobile[q]] >= rows[mobile[q]]
        BY <2>r, <4>1
      <4>4. rows'[mobile[q]] \in Nat /\ rows[mobile[q]] \in Nat
        BY <2>r, <4>1 DEF TypeOK
      <4> QED
        BY <3>1, <4>2, <4>3, <4>4
    <3> QED
      BY <3>2 DEF SuccessRegistered
  <2> QED
    BY <2>1, <2>2, <2>3, <2>4
<1>13. CASE UNCHANGED vars
  BY <1>13 DEF vars, TypeOK, CallInv, LoginNeedsCode, LoginPC, SuccessRegistered
<1> QED
  BY <1>1, <1>2, <1>3, <1>4, <1>5, <1>6, <1>7, <1>8, <1>9, <1>10,
     <1>11, <1>12, <1>13 DEF Next, Lock, Step, Ended

\* The parts of the invariant hold together in every reachable state.
THEOREM LoginInvariance == Spec => []LoginInv
  BY InitLogin, StepLogin, PTL DEF Spec

\* Every variable keeps its type, and pm_ its one owner between lock and unlock,
\* with any number of calls at any point.
THEOREM HandlerTyped == Spec => []TypeOK
<1>1. LoginInv => TypeOK
  BY DEF LoginInv
<1> QED
  BY <1>1, LoginInvariance, PTL

\* A login reaches the database only with a code that was stored for its own
\* mobile, however the code requests and logins interleave.
THEOREM CodeRequired == Spec => []LoginNeedsCode
<1>1. LoginInv => LoginNeedsCode
  BY DEF LoginInv
<1> QED
  BY <1>1, LoginInvariance, PTL

\* A login that reports success has its user in the table userinfo, even
\* though exist() hides the failures of its query.
THEOREM SuccessIsDurable == Spec => []SuccessRegistered
<1>1. LoginInv => SuccessRegistered
  BY DEF LoginInv
<1> QED
  BY <1>1, LoginInvariance, PTL
-----------------------------------------------------------------------------
(***************************************************************************)
(* The rows of a user are counted by the logins that ended for it.  Only   *)
(* finitely many calls have started at any time, so no bound on Calls is   *)
(* needed.                                                                 *)
(***************************************************************************)
Started == {p \in Calls : pc[p] # "new"}

EarnedInv == IsFiniteSet(Started) /\ RowsEarned

\* A step is a step of one call: it leaves the other calls and the rows of
\* other users alone, adds at most one row, only when an insert ends, and an
\* answer stays.
LEMMA OneCall ==
  ASSUME LoginInv, Next, ~UNCHANGED vars
  PROVE  \E p \in Calls :
           /\ \A q \in Calls \ {p} : /\ pc'[q] = pc[q]
                                     /\ rsp'[q] = rsp[q]
                                     /\ mobile'[q] = mobile[q]
           /\ rsp[p] = "none"
           /\ \/ rows' = rows
              \/ /\ rows' = [rows EXCEPT ![mobile[p]] = @ + 1]
                 /\ mobile[p] \in Mobiles
                 /\ mobile'[p] = mobile[p]
                 /\ rsp'[p] \in {"SUCCESS", "PROCESS_FAILED"}
<1> DEFINE Local(p) ==
      /\ \A q \in Calls \ {p} : /\ pc'[q] = pc[q]
                                /\ rsp'[q] = rsp[q]
                                /\ mobile'[q] = mobile[q]
      /\ rsp[p] = "none"
      /\ \/ rows' = rows
         \/ /\ rows' = [rows EXCEPT ![mobile[p]] = @ + 1]
            /\ mobile[p] \in Mobiles
            /\ mobile'[p] = mobile[p]
            /\ rsp'[p] \in {"SUCCESS", "PROCESS_FAILED"}
<1> USE DEF LoginInv
<1>1. ASSUME NEW p \in Calls, NEW m \in Mobiles, NEW c \in Codes, CodeReq(p, m, c)
      PROVE  Local(p)
  BY <1>1 DEF CodeReq, Goto, Return, TypeOK, CallInv
<1>2. ASSUME NEW p \in Calls, NEW m \in Mobiles, NEW c \in Codes, LoginReq(p, m, c)
      PROVE  Local(p)
  BY <1>2 DEF LoginReq, Goto, Return, TypeOK, CallInv
<1>3. ASSUME NEW p \in Calls, LockForCode(p) PROVE Local(p)
  BY <1>3 DEF LockForCode, Goto, Return, TypeOK, CallInv
<1>4. ASSUME NEW p \in Calls, StoreCode(p) PROVE Local(p)
  BY <1>4 DEF StoreCode, Goto, Return, TypeOK, CallInv
<1>5. ASSUME NEW p \in Calls, LockForLogin(p) PROVE Local(p)
  BY <1>5 DEF LockForLogin, Goto, Return, TypeOK, CallInv
<1>6. ASSUME NEW p \in Calls, CheckCode(p) PROVE Local(p)
  BY <1>6 DEF CheckCode, Goto, Return, TypeOK, CallInv
<1>7. ASSUME NEW p \in Calls, Connect(p) PROVE Local(p)
  BY <1>7 DEF Connect, Goto, Return, TypeOK, CallInv
<1>8. ASSUME NEW p \in Calls, ConnectFails(p) PROVE Local(p)
  BY <1>8 DEF ConnectFails, Goto, Return, TypeOK, CallInv
<1>9. ASSUME NEW p \in Calls, Exist(p) PROVE Local(p)
  BY <1>9 DEF Exist, Goto, Return, TypeOK, CallInv
<1>10. ASSUME NEW p \in Calls, ExistFails(p) PROVE Local(p)
  BY <1>10 DEF ExistFails, Goto, Return, TypeOK, CallInv
<1>11. ASSUME NEW p \in Calls, Insert(p) PROVE Local(p)
  BY <1>11 DEF Insert, Goto, Return, TypeOK, CallInv
<1>12. ASSUME NEW p \in Calls, InsertFails(p) PROVE Local(p)
  BY <1>12 DEF InsertFails, Goto, Return, TypeOK, CallInv
<1> HIDE DEF Local
<1>13. \E p \in Calls : Local(p)
  BY <1>1, <1>2, <1>3, <1>4, <1>5, <1>6, <1>7, <1>8, <1>9, <1>10, <1>11, <1>12
     DEF Next, Lock, Step, Ended
<1> QED
  BY <1>13 DEF Local

\* Every step keeps the count.
LEMMA StepEarned == LoginInv /\ EarnedInv /\ [Next]_vars => EarnedInv'
<1> SUFFICES ASSUME LoginInv, EarnedInv, [Next]_vars PROVE EarnedInv'
  OBVIOUS
<1>1. CASE UNCHANGED vars
  BY <1>1 DEF vars, EarnedInv, RowsEarned, Started, Logins
<1>2. CASE Next /\ ~UNCHANGED vars
  <2>1. PICK p \in Calls :
           /\ \A q \in Calls \ {p} : /\ pc'[q] = pc[q]
                                     /\ rsp'[q] = rsp[q]
                                     /\ mobile'[q] = mobile[q]
           /\ rsp[p] = "none"
           /\ \/ rows' = rows
              \/ /\ rows' = [rows EXCEPT ![mobile[p]] = @ + 1]
                 /\ mobile[p] \in Mobiles
                 /\ mobile'[p] = mobile[p]
                 /\ rsp'[p] \in {"SUCCESS", "PROCESS_FAILED"}
    BY <1>2, OneCall
  <2>2. IsFiniteSet(Started')
    <3>1. Started' \in SUBSET (Started \cup {p})
      BY <2>1 DEF Started
    <3> QED
      BY <3>1, FS_AddElement, FS_Subset DEF EarnedInv
  <2>3. LoginInv'
    BY StepLogin
  <2>4. ASSUME NEW m \in Mobiles
        PROVE  /\ IsFiniteSet(Logins(m)) /\ IsFiniteSet(Logins(m)')
               /\ Cardinality(Logins(m)) \in Nat /\ Cardinality(Logins(m)') \in Nat
               /\ Logins(m) \subseteq Logins(m)'
               /\ p \notin Logins(m)
    <3>1. Logins(m) \in SUBSET Started
      BY DEF Logins, Started, LoginInv, CallInv
    <3>2. Logins(m)' \in SUBSET Started'
      BY <2>3 DEF Logins, Started, LoginInv, CallInv
    <3>3. Logins(m) \subseteq Logins(m)' /\ p \notin Logins(m)
      BY <2>1 DEF Logins
    <3> QED
      BY <2>2, <3>1, <3>2, <3>3, FS_Subset, FS_CardinalityType DEF EarnedInv
  <2>5. ASSUME NEW m \in Mobiles PROVE rows'[m] <= Cardinality(Logins(m)')
    <3>1. rows[m] \in Nat /\ rows[m] <= Cardinality(Logins(m))
      BY DEF LoginInv, TypeOK, EarnedInv, RowsEarned
    <3>2. CASE rows'[m] = rows[m]
      <4>1. Cardinality(Logins(m)) <= Cardinality(Logins(m)')
        BY <2>4, FS_Subset
      <4> QED
        BY <2>4, <3>1, <3>2, <4>1
    <3>3. CASE rows'[m] # rows[m]
      <4>1. m = mobile[p] /\ rows'[m] = rows[m] + 1 /\ p \in Logins(m)'
        BY <2>1, <3>3 DEF LoginInv, TypeOK, Logins
      <4>2. (Logins(m) \cup {p}) \in SUBSET Logins(m)'
        BY <2>4, <4>1
      <4>3. IsFiniteSet(Logins(m)) /\ p \notin Logins(m)
        BY <2>4
      <4>4. Cardinality(Logins(m) \cup {p}) = Cardinality(Logins(m)) + 1
        BY <4>3, FS_AddElement
      <4>5. Cardinality(Logins(m) \cup {p}) <= Cardinality(Logins(m)')
        BY <2>4, <4>2, FS_Subset
      <4> QED
        BY <2>4, <3>1, <4>1, <4>4, <4>5
    <3> QED
      BY <3>2, <3>3
  <2> QED
    BY <2>2, <2>5 DEF EarnedInv, RowsEarned
<1> QED
  BY <1>1, <1>2

\* However many logins of one user overlap, and whichever inserts are lost or
\* answered late, the table never holds more rows of the user than logins that
\* proved their code.
THEOREM RowsAreEarned == Spec => []RowsEarned
<1>1. Init => EarnedInv
  <2> SUFFICES ASSUME Init PROVE EarnedInv
    OBVIOUS
  <2>1. Started = {} /\ \A m \in Mobiles : Logins(m) = {}
    BY DEF Init, Started, Logins
  <2>2. IsFiniteSet(Started) /\ \A m \in Mobiles : Cardinality(Logins(m)) = 0
    BY <2>1, FS_EmptySet
  <2> QED
    BY <2>2 DEF Init, EarnedInv, RowsEarned
<1>2. LoginInv /\ EarnedInv /\ [Next]_vars => EarnedInv'
  BY StepEarned
<1>3. EarnedInv => RowsEarned
  BY DEF EarnedInv
<1> QED
  BY <1>1, <1>2, <1>3, LoginInvariance, PTL DEF Spec
=============================================================================
