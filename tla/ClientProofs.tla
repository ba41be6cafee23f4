---------------------------- MODULE ClientProofs ----------------------------
(***************************************************************************)
(* The code of the test client, for every set of clients and of codes,     *)
(* every number of commands, and every way in which TCP cuts or joins the  *)
(* responses.                                                              *)
(***************************************************************************)
EXTENDS Client, SequenceTheorems, TLAPS

CodeValue == Codes \cup {NoCode}
Request == [kind : {"code", "login"}, code : CodeValue]
Unit == [part : {"head", "body"}, kind : {"code", "login"}, code : CodeValue]

\* A request in the pool.  Nothing depends on its number.
IsJob(j) ==
    /\ j = [conn |-> j.conn, nr |-> j.nr, kind |-> j.kind, code |-> j.code]
    /\ j.conn \in Clients /\ j.kind \in {"store", "code", "login"} /\ j.code \in CodeValue

\* Every variable has its type.
ClientTyped ==
    /\ pc \in [Clients -> {"start", "run", "done", "ub"}]
    /\ icode \in [Clients -> CodeValue]
    /\ reqs \in [Clients -> Seq(Request)]
    /\ \A j \in jobs : IsJob(j)
    /\ due \in [Clients -> BOOLEAN]
    /\ cell \in [Clients -> Clients]
    /\ wire \in [Clients -> Seq(Unit)]
    /\ open \in [Clients -> BOOLEAN]
    /\ lost \in [Clients -> BOOLEAN]
    /\ m2c \in CodeValue

\* A header on the wire is followed by its payload.
Paired(w) ==
    \A i \in 1..Len(w) : w[i].part = "head" =>
        i + 1 \in 1..Len(w) /\ w[i + 1] = [part |-> "body", kind |-> w[i].kind, code |-> w[i].code]

HasCode(w) == \E i \in 1..Len(w) : w[i].kind = "code"

\* i is the last unit of a code response on the wire.
LastCodeUnit(w, i) == w[i].kind = "code" /\ \A j \in 1..Len(w) : j > i => w[j].kind # "code"

\* The last code response on the wire holds k.
LastCode(w, k) == \A i \in 1..Len(w) : LastCodeUnit(w, i) => w[i].code = k

\* The invariant of one client.  A connection without a stray response has at
\* most one request in the pool, and that one while its session waits; a request
\* of a connection that ended is known to be late.  The code that was stored for
\* c last is on its way through the worker and over the wire, in that order, and
\* behind every older code.
Fine(c) ==
    /\ Paired(wire[c])
    /\ pc[c] = "start" => open[c] = FALSE /\ owner # c /\ JobsOf(c) = {}
    /\ JobsOf(c) # {} => open[c] = TRUE \/ c \in late
    /\ open[c] = TRUE /\ c \notin stray =>
         /\ \A i, j \in JobsOf(c) : i = j
         /\ due[c] = FALSE => JobsOf(c) = {}
    /\ owner = c /\ open[c] = TRUE /\ pc[c] = "run" /\ c \notin stray =>
         \/ \E j \in JobsOf(c) : j.kind = "code" /\ j.code = m2c
         \/ /\ \A j \in JobsOf(c) : j.kind # "code"
            /\ LastCode(wire[c], m2c)
            /\ HasCode(wire[c]) \/ lost[c] = TRUE \/ icode[c] = m2c

\* Two open connections have their sessions in different places.
Apart ==
    \A c, d \in Clients : open[c] = TRUE /\ open[d] = TRUE /\ cell[c] = cell[d] => c = d

\* Without a late request no freed session is used.
Blame == stray # {} \/ wild = TRUE => late # {}

\* The inductive invariant.
CInv == ClientTyped /\ (\A c \in Clients : Fine(c)) /\ Apart /\ Blame

-----------------------------------------------------------------------------
(***************************************************************************)
(* Responses on the wire.                                                  *)
(***************************************************************************)

\* The server writes a response: header and payload.
LEMMA UnitsFacts ==
  ASSUME NEW w \in Seq(Unit), Paired(w), NEW kind \in {"code", "login"}, NEW k \in CodeValue
  PROVE  /\ w \o Units(kind, k) \in Seq(Unit)
         /\ Paired(w \o Units(kind, k))
         /\ kind = "code" => /\ LastCode(w \o Units(kind, k), k)
                             /\ HasCode(w \o Units(kind, k))
         /\ kind # "code" =>
              /\ \A m : LastCode(w, m) => LastCode(w \o Units(kind, k), m)
              /\ HasCode(w) => HasCode(w \o Units(kind, k))
<1>1. PICK h : h = [part |-> "head", kind |-> kind, code |-> k]
  OBVIOUS
<1>2. PICK b : b = [part |-> "body", kind |-> kind, code |-> k]
  OBVIOUS
<1>3. PICK n : n = Len(w)
  OBVIOUS
<1>4. n \in Nat
  BY <1>3, LenProperties
<1>5. PICK u : u = w \o <<h, b>>
  OBVIOUS
<1>6. h \in Unit /\ b \in Unit
  BY <1>1, <1>2 DEF Unit
<1>7. /\ u \in Seq(Unit) /\ Len(u) = n + 2
      /\ \A i \in 1..n : u[i] = w[i]
      /\ u[n + 1] = h /\ u[n + 2] = b
  <2>1. <<h, b>> \in Seq(Unit) /\ Len(<<h, b>>) = 2 /\ <<h, b>>[1] = h /\ <<h, b>>[2] = b
    BY <1>6
  <2>2. PICK t : t = <<h, b>>
    OBVIOUS
  <2>3. t \in Seq(Unit) /\ Len(t) = 2 /\ t[1] = h /\ t[2] = b
    BY <2>1, <2>2
  <2>4. /\ u \in Seq(Unit) /\ Len(u) = Len(w) + Len(t)
        /\ \A i \in 1..Len(w) + Len(t) : u[i] = IF i <= Len(w) THEN w[i] ELSE t[i - Len(w)]
    BY <1>5, <2>2, <2>3, ConcatProperties
  <2>5. Len(u) = n + 2 /\ \A i \in 1..(n + 2) : u[i] = IF i <= n THEN w[i] ELSE t[i - n]
    BY <1>3, <2>3, <2>4
  <2>6. \A i \in 1..n : u[i] = w[i]
    BY <1>4, <2>5
  <2>7. u[n + 1] = h
    <3>1. n + 1 \in 1..(n + 2) /\ ~(n + 1 <= n) /\ (n + 1) - n = 1
      BY <1>4
    <3> QED
      BY <2>3, <2>5, <3>1
  <2>8. u[n + 2] = b
    <3>1. n + 2 \in 1..(n + 2) /\ ~(n + 2 <= n) /\ (n + 2) - n = 2
      BY <1>4
    <3> QED
      BY <2>3, <2>5, <3>1
  <2> QED
    BY <2>4, <2>5, <2>6, <2>7, <2>8
<1>8. w \o Units(kind, k) = u
  BY <1>1, <1>2, <1>5 DEF Units
<1>9. \A i \in 1..Len(u) : i \in 1..n \/ i = n + 1 \/ i = n + 2
  BY <1>4, <1>7
<1>10. Paired(u)
  <2> SUFFICES ASSUME NEW i \in 1..Len(u), u[i].part = "head"
               PROVE  /\ i + 1 \in 1..Len(u)
                      /\ u[i + 1] = [part |-> "body", kind |-> u[i].kind, code |-> u[i].code]
    BY DEF Paired
  <2>1. CASE i \in 1..n
    <3>1. u[i] = w[i]
      BY <1>7, <2>1
    <3>2. i + 1 \in 1..n /\ w[i + 1] = [part |-> "body", kind |-> w[i].kind, code |-> w[i].code]
      BY <1>3, <2>1, <3>1 DEF Paired
    <3>3. u[i + 1] = w[i + 1] /\ i + 1 \in 1..Len(u)
      BY <1>4, <1>7, <3>2
    <3> QED
      BY <3>1, <3>2, <3>3
  <2>2. CASE i = n + 1
    <3>1. i + 1 = n + 2 /\ n + 2 \in 1..Len(u)
      BY <1>4, <1>7, <2>2
    <3>2. u[i].kind = kind /\ u[i].code = k
      BY <1>1, <1>7, <2>2
    <3> QED
      BY <1>2, <1>7, <3>1, <3>2
  <2>3. CASE i = n + 2
    BY <1>2, <1>7, <2>3
  <2> QED
    BY <1>9, <2>1, <2>2, <2>3
<1>11. ASSUME kind = "code" PROVE LastCode(u, k) /\ HasCode(u)
  <2>1. n + 2 \in 1..Len(u) /\ u[n + 2].kind = "code" /\ u[n + 2].code = k
    BY <1>2, <1>4, <1>7, <1>11
  <2>2. ASSUME NEW i \in 1..Len(u), LastCodeUnit(u, i) PROVE u[i].code = k
    <3>1. ~(n + 2 > i)
      BY <2>1, <2>2 DEF LastCodeUnit
    <3>2. i = n + 2
      BY <1>4, <1>7, <3>1
    <3> QED
      BY <2>1, <3>2
  <2> QED
    BY <2>1, <2>2 DEF LastCode, HasCode
<1>12. ASSUME kind # "code" PROVE HasCode(w) => HasCode(u)
  <2> SUFFICES ASSUME NEW i \in 1..Len(w), w[i].kind = "code" PROVE HasCode(u)
    BY DEF HasCode
  <2>1. i \in 1..Len(u) /\ u[i] = w[i]
    BY <1>3, <1>4, <1>7
  <2> QED
    BY <2>1 DEF HasCode
<1>13. ASSUME kind # "code", NEW m, LastCode(w, m) PROVE LastCode(u, m)
  <2> SUFFICES ASSUME NEW i \in 1..Len(u), LastCodeUnit(u, i) PROVE u[i].code = m
    BY DEF LastCode
  <2>1. u[n + 1].kind = kind /\ u[n + 2].kind = kind
    BY <1>1, <1>2, <1>7
  <2>2. i \in 1..n
    BY <1>9, <1>13, <2>1 DEF LastCodeUnit
  <2>3. u[i] = w[i] /\ i \in 1..Len(w)
    BY <1>3, <1>7, <2>2
  <2>4. LastCodeUnit(w, i)
    <3> SUFFICES ASSUME NEW j \in 1..Len(w), j > i PROVE w[j].kind # "code"
      BY <2>3 DEF LastCodeUnit
    <3>1. j \in 1..Len(u) /\ u[j] = w[j]
      BY <1>3, <1>4, <1>7
    <3> QED
      BY <3>1 DEF LastCodeUnit
  <2> QED
    BY <1>13, <2>3, <2>4 DEF LastCode
<1> QED
  BY <1>7, <1>8, <1>10, <1>11, <1>12, <1>13

\* The client reads n units: v is left.
Rest(w, n, v) == v = SubSeq(w, n + 1, Len(w))

LEMMA ReadFacts ==
  ASSUME NEW w \in Seq(Unit), Paired(w), NEW n \in 1..Len(w),
         NEW v, Rest(w, n, v)
  PROVE  /\ v \in Seq(Unit) /\ Paired(v)
         /\ \A m : LastCode(w, m) => LastCode(v, m)
         /\ \A i \in 1..Len(w) : i > n /\ w[i].kind = "code" => HasCode(v)
<1>1. Len(w) \in Nat /\ n \in Nat /\ n <= Len(w) /\ n >= 1
  BY LenProperties
<1>2. \A i \in n + 1 .. Len(w) : w[i] \in Unit
  <2>1. \A i \in n + 1 .. Len(w) : i \in 1..Len(w)
    BY <1>1
  <2> QED
    BY <2>1, ElementOfSeq
<1>3. /\ v \in Seq(Unit)
      /\ Len(v) = IF n + 1 <= Len(w) THEN Len(w) - (n + 1) + 1 ELSE 0
      /\ \A i \in 1 .. Len(w) - (n + 1) + 1 : v[i] = w[(n + 1) + i - 1]
  <2>1. n + 1 \in Int /\ Len(w) \in Int
    BY <1>1
  <2> QED
    BY <1>2, <2>1, SubSeqProperties DEF Rest
<1>4. Len(v) = Len(w) - n
  BY <1>1, <1>3
<1>5. ASSUME NEW i \in 1..Len(v) PROVE v[i] = w[i + n] /\ i + n \in 1..Len(w)
  <2>1. i \in 1 .. Len(w) - (n + 1) + 1 /\ (n + 1) + i - 1 = i + n /\ i + n \in 1..Len(w)
    BY <1>1, <1>4
  <2> QED
    BY <1>3, <2>1
<1>6. Paired(v)
  <2> SUFFICES ASSUME NEW i \in 1..Len(v), v[i].part = "head"
               PROVE  /\ i + 1 \in 1..Len(v)
                      /\ v[i + 1] = [part |-> "body", kind |-> v[i].kind, code |-> v[i].code]
    BY DEF Paired
  <2>1. PICK p : p = i + n
    OBVIOUS
  <2>2. v[i] = w[p] /\ p \in 1..Len(w)
    BY <1>5, <2>1
  <2>3. p + 1 \in 1..Len(w) /\ w[p + 1] = [part |-> "body", kind |-> w[p].kind, code |-> w[p].code]
    BY <2>2 DEF Paired
  <2>4. i + 1 \in 1..Len(v) /\ (i + 1) + n = p + 1
    BY <1>1, <1>4, <2>1, <2>3
  <2>5. PICK q : q = i + 1
    OBVIOUS
  <2>6. v[q] = w[q + n] /\ q + n = p + 1
    BY <1>5, <2>4, <2>5
  <2> QED
    BY <2>2, <2>3, <2>4, <2>5, <2>6
<1>7. ASSUME NEW i \in 1..Len(w), i > n, w[i].kind = "code" PROVE HasCode(v)
  <2>1. PICK j : j = i - n
    OBVIOUS
  <2>2. j \in 1..Len(v) /\ j + n = i
    BY <1>1, <1>4, <1>7, <2>1
  <2>3. v[j] = w[i]
    BY <1>5, <2>2
  <2> QED
    BY <1>7, <2>2, <2>3 DEF HasCode
<1>8. ASSUME NEW m, LastCode(w, m) PROVE LastCode(v, m)
  <2> SUFFICES ASSUME NEW i \in 1..Len(v), LastCodeUnit(v, i) PROVE v[i].code = m
    BY DEF LastCode
  <2>1. PICK p : p = i + n
    OBVIOUS
  <2>2. v[i] = w[p] /\ p \in 1..Len(w)
    BY <1>5, <2>1
  <2>3. LastCodeUnit(w, p)
    <3> SUFFICES ASSUME NEW j \in 1..Len(w), j > p PROVE w[j].kind # "code"
      BY <2>2 DEF LastCodeUnit
    <3>1. PICK q : q = j - n
      OBVIOUS
    <3>2. q \in 1..Len(v) /\ q > i /\ q + n = j
      BY <1>1, <1>4, <2>1, <3>1
    <3>3. v[q] = w[j]
      BY <1>5, <3>2
    <3> QED
      BY <3>2, <3>3 DEF LastCodeUnit
  <2> QED
    BY <1>8, <2>2, <2>3 DEF LastCode
<1> QED
  BY <1>3, <1>6, <1>7, <1>8

\* A code response that is read whole and alone, with no code response behind
\* it, is the last one.
LEMMA WholeResponse ==
  ASSUME NEW w \in Seq(Unit), Paired(w), NEW n \in 1..Len(w), n >= 2,
         w[1].part = "head",
         {i \in 1..n : w[i].kind = "code"} = {1, 2},
         \A i \in 1..Len(w) : i > n => w[i].kind # "code",
         NEW m, LastCode(w, m)
  PROVE  w[1].code = m
<1>1. Len(w) \in Nat /\ n \in Nat /\ n <= Len(w) /\ n >= 2 /\ 2 \in 1..Len(w) /\ 1 \in 1..Len(w)
  BY LenProperties
<1>2. w[2].code = w[1].code
  <2>1. w[1 + 1] = [part |-> "body", kind |-> w[1].kind, code |-> w[1].code]
    BY <1>1 DEF Paired
  <2> QED
    BY <2>1
<1>3. 2 \in {i \in 1..n : w[i].kind = "code"}
  OBVIOUS
<1>4. w[2].kind = "code"
  BY <1>3
<1>5. ASSUME NEW j \in 1..Len(w), j > 2 PROVE w[j].kind # "code"
  <2>1. CASE j > n
    BY <2>1
  <2>2. CASE ~(j > n)
    <3>1. j \in 1..n /\ j # 1 /\ j # 2
      BY <1>1, <1>5, <2>2
    <3>2. j \notin {i \in 1..n : w[i].kind = "code"}
      BY <3>1
    <3> QED
      BY <3>1, <3>2
  <2> QED
    BY <2>1, <2>2
<1>6. LastCodeUnit(w, 2)
  BY <1>4, <1>5 DEF LastCodeUnit
<1> QED
  BY <1>1, <1>2, <1>6 DEF LastCode

-----------------------------------------------------------------------------
(***************************************************************************)
(* The actions.                                                            *)
(***************************************************************************)

\* A step of one client and its requests leaves the others alone, unless it
\* stores a code.
Same(d) ==
    /\ pc'[d] = pc[d] /\ open'[d] = open[d] /\ due'[d] = due[d]
    /\ wire'[d] = wire[d] /\ lost'[d] = lost[d] /\ icode'[d] = icode[d]
    /\ JobsOf(d)' = JobsOf(d)
    /\ (d \in stray' <=> d \in stray) /\ (d \in late => d \in late')
    /\ (owner' = owner /\ m2c' = m2c) \/ owner' # d

LEMMA OthersFine ==
  ASSUME NEW d \in Clients, Fine(d), Same(d)
  PROVE  Fine(d)'
  BY DEF Fine, Same

\* main of the client.
LEMMA StartFine ==
  ASSUME CInv, NEW c \in Clients, Start(c)
  PROVE  CInv'
<1>1. ClientTyped /\ (\A d \in Clients : Fine(d)) /\ Apart /\ Blame
  BY DEF CInv
<1>2. /\ pc[c] = "start" /\ TcpConnect(c)
      /\ pc' = [pc EXCEPT ![c] = IF open'[c] THEN "run" ELSE "done"]
      /\ UNCHANGED <<icode, typed, reqs, jobs, due, wire, m2c, owner, lost, late, stray, wild>>
  BY DEF Start
<1>3. /\ open' \in [Clients -> BOOLEAN] /\ \A d \in Clients : d # c => open'[d] = open[d]
      /\ cell' \in [Clients -> Clients] /\ \A d \in Clients : d # c => cell'[d] = cell[d]
      /\ open'[c] = TRUE => open[c] = TRUE \/ \A d \in Clients : open[d] = TRUE => cell[d] # cell'[c]
  <2>1. CASE UNCHANGED <<open, cell>>
    BY <1>1, <2>1 DEF ClientTyped
  <2>2. CASE open' = [open EXCEPT ![c] = TRUE] /\ \E a \in Places(c) : cell' = [cell EXCEPT ![c] = a]
    <3>1. PICK a \in Places(c) : cell' = [cell EXCEPT ![c] = a]
      BY <2>2
    <3>2. a \in Clients /\ \A d \in Clients : open[d] = TRUE => cell[d] # a
      BY <1>1 DEF Places, InUse, ClientTyped
    <3>3. cell'[c] = a
      BY <1>1, <3>1 DEF ClientTyped
    <3> QED
      BY <1>1, <2>2, <3>1, <3>2, <3>3 DEF ClientTyped
  <2> QED
    BY <1>2, <2>1, <2>2 DEF TcpConnect
<1>4. /\ pc' \in [Clients -> {"start", "run", "done", "ub"}] /\ pc'[c] # "start"
      /\ \A d \in Clients : d # c => pc'[d] = pc[d]
  BY <1>1, <1>2 DEF ClientTyped
<1>5. ClientTyped'
  BY <1>1, <1>2, <1>3, <1>4 DEF ClientTyped
<1>6. \A d \in Clients : JobsOf(d)' = JobsOf(d)
  BY <1>2 DEF JobsOf
<1>7. ASSUME NEW d \in Clients PROVE Fine(d)'
  <2>1. CASE d = c
    <3>1. owner # c /\ Paired(wire[c]) /\ JobsOf(c) = {}
      BY <1>1, <1>2 DEF Fine
    <3> QED
      BY <1>2, <1>4, <1>6, <2>1, <3>1 DEF Fine
  <2>2. CASE d # c
    <3>1. Same(d)
      BY <1>2, <1>3, <1>4, <1>6, <2>2 DEF Same
    <3> QED
      BY <1>1, <3>1, OthersFine
  <2> QED
    BY <2>1, <2>2
<1>8. Apart'
  <2>1. open[c] = FALSE
    BY <1>1, <1>2 DEF Fine
  <2> QED
    BY <1>1, <1>3, <2>1 DEF Apart
<1>9. Blame'
  BY <1>1, <1>2 DEF Blame
<1> QED
  BY <1>5, <1>7, <1>8, <1>9 DEF CInv

\* A step that leaves the server alone.
LEMMA SessionsKept ==
  ASSUME CInv, UNCHANGED sessVars
  PROVE  /\ Apart' /\ Blame' /\ (\A d \in Clients : JobsOf(d)' = JobsOf(d))
         /\ (\A j \in jobs' : IsJob(j)) /\ UNCHANGED <<due, cell, open, late, stray>>
  BY DEF CInv, ClientTyped, Apart, Blame, JobsOf, sessVars

\* A command at the terminal: only requests are added.
LEMMA TypeFine ==
  ASSUME CInv, NEW c \in Clients, NEW cmd, Type(c, cmd)
  PROVE  CInv'
<1>1. ClientTyped /\ \A d \in Clients : Fine(d)
  BY DEF CInv
<1>2. /\ reqs' = [reqs EXCEPT ![c] =
                    CASE cmd = "send_mr" -> Append(@, [kind |-> "code", code |-> NoCode])
                      [] cmd = "send_lr" -> Append(@, [kind |-> "login", code |-> icode[c]])
                      [] OTHER -> @]
      /\ UNCHANGED <<pc, icode, sessVars, wire, m2c, owner, lost>>
  BY DEF Type
<1>3. reqs' \in [Clients -> Seq(Request)]
  <2>1. /\ reqs \in [Clients -> Seq(Request)] /\ reqs[c] \in Seq(Request)
        /\ icode[c] \in CodeValue
    BY <1>1 DEF ClientTyped
  <2>2. /\ [kind |-> "code", code |-> NoCode] \in Request
        /\ [kind |-> "login", code |-> icode[c]] \in Request
    BY <2>1 DEF Request, CodeValue
  <2>3. /\ Append(reqs[c], [kind |-> "code", code |-> NoCode]) \in Seq(Request)
        /\ Append(reqs[c], [kind |-> "login", code |-> icode[c]]) \in Seq(Request)
    BY <2>1, <2>2, AppendProperties
  <2> QED
    BY <1>2, <2>1, <2>3
<1>4. ClientTyped'
  BY <1>1, <1>2, <1>3, SessionsKept DEF ClientTyped
<1>5. ASSUME NEW d \in Clients PROVE Fine(d)'
  <2>1. Same(d)
    BY <1>2, SessionsKept DEF Same
  <2> QED
    BY <1>1, <2>1, OthersFine
<1> QED
  BY <1>2, <1>4, <1>5, SessionsKept DEF CInv

\* A client that is no longer followed, whatever it did before.
LEMMA EndedFine ==
  ASSUME CInv, NEW c \in Clients, pc[c] = "run", NEW how \in {"done", "ub"}, Ends(c, how),
         UNCHANGED <<reqs, sessVars, m2c, owner>>,
         icode' \in [Clients -> CodeValue], lost' \in [Clients -> BOOLEAN],
         \A d \in Clients : d # c => icode'[d] = icode[d] /\ lost'[d] = lost[d]
  PROVE  CInv'
<1>1. ClientTyped /\ \A d \in Clients : Fine(d)
  BY DEF CInv
<1>2. /\ pc' \in [Clients -> {"start", "run", "done", "ub"}] /\ pc'[c] = how
      /\ \A d \in Clients : d # c => pc'[d] = pc[d]
  BY <1>1 DEF ClientTyped, Ends
<1>3. /\ wire' \in [Clients -> Seq(Unit)] /\ wire'[c] = <<>>
      /\ \A d \in Clients : d # c => wire'[d] = wire[d]
  <2>1. <<>> \in Seq(Unit)
    BY EmptySeq
  <2> QED
    BY <1>1, <2>1 DEF ClientTyped, Ends
<1>4. ClientTyped'
  BY <1>1, <1>2, <1>3, SessionsKept DEF ClientTyped
<1>5. ASSUME NEW d \in Clients PROVE Fine(d)'
  <2>1. CASE d = c
    <3>1. Fine(c) /\ Paired(<<>>)
      BY <1>1 DEF Paired
    <3>2. Paired(wire[c])'
      BY <1>3, <3>1
    <3> QED
      BY <1>2, <2>1, <3>1, <3>2, SessionsKept DEF Fine
  <2>2. CASE d # c
    <3>1. Same(d)
      BY <1>2, <1>3, <2>2, SessionsKept DEF Same
    <3> QED
      BY <1>1, <3>1, OthersFine
  <2> QED
    BY <2>1, <2>2
<1> QED
  BY <1>4, <1>5, SessionsKept DEF CInv

\* The end of the client, by its terminal or by its socket.
LEMMA EndFine ==
  ASSUME CInv, NEW c \in Clients, TypeEnds(c) \/ EventCb(c)
  PROVE  CInv'
<1>1. /\ pc[c] = "run" /\ UNCHANGED <<icode, reqs, sessVars, m2c, owner, lost>>
      /\ \E how \in {"done", "ub"} : Ends(c, how)
  BY DEF TypeEnds, EventCb
<1>2. /\ icode' \in [Clients -> CodeValue] /\ lost' \in [Clients -> BOOLEAN]
      /\ \A d \in Clients : d # c => icode'[d] = icode[d] /\ lost'[d] = lost[d]
  BY <1>1 DEF CInv, ClientTyped
<1> QED
  BY <1>1, <1>2, EndedFine

\* A request goes to the pool.
LEMMA DispatchFine ==
  ASSUME CInv, NEW c \in Clients, Dispatch(c)
  PROVE  CInv'
<1>1. ClientTyped /\ (\A d \in Clients : Fine(d)) /\ Apart /\ Blame
  BY DEF CInv
<1>2. /\ open[c] = TRUE /\ due[c] = FALSE /\ reqs[c] # <<>>
      /\ reqs' = [reqs EXCEPT ![c] = Tail(@)]
      /\ due' = [due EXCEPT ![c] = TRUE]
      /\ UNCHANGED <<pc, icode, cell, wire, open, m2c, owner, lost, late, stray, wild>>
  BY <1>1 DEF Dispatch, ClientTyped
<1>3. PICK r : r = Head(reqs[c])
  OBVIOUS
<1>4. PICK n : n = Number(c)
  OBVIOUS
<1>5. PICK k \in Codes :
          jobs' = jobs \cup {[conn |-> c, nr |-> n,
                             kind |-> IF r.kind = "code" THEN "store" ELSE "login",
                             code |-> IF r.kind = "code" THEN k ELSE r.code]}
  BY <1>3, <1>4 DEF Dispatch
<1>6. r \in Request /\ reqs' \in [Clients -> Seq(Request)]
  <2>1. reqs \in [Clients -> Seq(Request)] /\ reqs[c] \in Seq(Request)
    BY <1>1 DEF ClientTyped
  <2>2. Head(reqs[c]) \in Request /\ Tail(reqs[c]) \in Seq(Request)
    BY <1>2, <2>1, HeadTailProperties
  <2> QED
    BY <1>2, <1>3, <2>1, <2>2
<1>7. PICK x : x = [conn |-> c, nr |-> n,
                    kind |-> IF r.kind = "code" THEN "store" ELSE "login",
                    code |-> IF r.kind = "code" THEN k ELSE r.code]
  OBVIOUS
<1>8. IsJob(x) /\ x.conn = c /\ x.kind # "code"
  BY <1>6, <1>7 DEF IsJob, Request, CodeValue
<1>9. jobs' = jobs \cup {x}
  BY <1>5, <1>7
<1>10. JobsOf(c)' = JobsOf(c) \cup {x} /\ \A d \in Clients : d # c => JobsOf(d)' = JobsOf(d)
  BY <1>8, <1>9 DEF JobsOf
<1>11. /\ due' \in [Clients -> BOOLEAN] /\ due'[c] = TRUE
       /\ \A d \in Clients : d # c => due'[d] = due[d]
  BY <1>1, <1>2 DEF ClientTyped
<1>12. ClientTyped'
  BY <1>1, <1>2, <1>6, <1>8, <1>9, <1>11 DEF ClientTyped
<1>13. Fine(c)'
  <2>1. Fine(c)
    BY <1>1
  <2>2. c \notin stray => JobsOf(c) = {}
    BY <1>2, <2>1 DEF Fine
  <2>3. pc[c] # "start"
    BY <1>2, <2>1 DEF Fine
  <2>4. c \notin stray => JobsOf(c)' = {x}
    BY <1>10, <2>2
  <2>5. ASSUME owner = c, pc[c] = "run", c \notin stray
        PROVE  /\ LastCode(wire[c], m2c)
               /\ HasCode(wire[c]) \/ lost[c] = TRUE \/ icode[c] = m2c
    BY <1>2, <2>1, <2>2, <2>5 DEF Fine
  <2> QED
    BY <1>2, <1>8, <1>11, <2>1, <2>3, <2>4, <2>5 DEF Fine
<1>14. ASSUME NEW d \in Clients PROVE Fine(d)'
  <2>1. CASE d # c
    <3>1. Same(d)
      BY <1>2, <1>10, <1>11, <2>1 DEF Same
    <3> QED
      BY <1>1, <3>1, OthersFine
  <2> QED
    BY <1>13, <2>1
<1>15. Apart' /\ Blame'
  BY <1>1, <1>2 DEF Apart, Blame
<1> QED
  BY <1>12, <1>14, <1>15 DEF CInv

\* handle_error: a request that the pool still has is late from now on.
LEMMA CloseConnFine ==
  ASSUME CInv, NEW c \in Clients, CloseConn(c)
  PROVE  CInv'
<1>1. ClientTyped /\ (\A d \in Clients : Fine(d)) /\ Apart /\ Blame
  BY DEF CInv
<1>2. /\ open' = [open EXCEPT ![c] = FALSE]
      /\ reqs' = [reqs EXCEPT ![c] = <<>>]
      /\ late' = IF JobsOf(c) # {} THEN late \cup {c} ELSE late
      /\ UNCHANGED <<pc, icode, jobs, due, cell, wire, m2c, owner, lost, stray, wild>>
  BY DEF CloseConn
<1>3. /\ open' \in [Clients -> BOOLEAN] /\ open'[c] = FALSE
      /\ \A d \in Clients : d # c => open'[d] = open[d]
  BY <1>1, <1>2 DEF ClientTyped
<1>4. reqs' \in [Clients -> Seq(Request)]
  <2>1. <<>> \in Seq(Request)
    BY EmptySeq
  <2> QED
    BY <1>1, <1>2, <2>1 DEF ClientTyped
<1>5. ClientTyped'
  BY <1>1, <1>2, <1>3, <1>4 DEF ClientTyped
<1>6. /\ \A d \in Clients : JobsOf(d)' = JobsOf(d)
      /\ late \subseteq late' /\ (JobsOf(c) # {} => c \in late')
  BY <1>2 DEF JobsOf
<1>7. ASSUME NEW d \in Clients PROVE Fine(d)'
  <2>1. CASE d = c
    <3>1. Fine(c)
      BY <1>1
    <3> QED
      BY <1>2, <1>3, <1>6, <2>1, <3>1 DEF Fine
  <2>2. CASE d # c
    <3>1. Same(d)
      BY <1>2, <1>3, <1>6, <2>2 DEF Same
    <3> QED
      BY <1>1, <3>1, OthersFine
  <2> QED
    BY <2>1, <2>2
<1>8. Apart'
  BY <1>1, <1>2, <1>3 DEF Apart
<1>9. Blame'
  BY <1>1, <1>2, <1>6 DEF Blame
<1> QED
  BY <1>5, <1>7, <1>8, <1>9 DEF CInv

\* m2c_[mobile_] = icode: from now on this is the code that counts.
LEMMA StoreCodeFine ==
  ASSUME CInv, NEW c \in Clients, NEW j \in JobsOf(c), StoreCode(j)
  PROVE  CInv'
<1>1. ClientTyped /\ (\A d \in Clients : Fine(d)) /\ Apart /\ Blame
  BY DEF CInv
<1>2. /\ j \in jobs /\ j.conn = c /\ IsJob(j) /\ j.kind = "store"
      /\ m2c' = j.code /\ owner' = c
      /\ UNCHANGED <<pc, icode, reqs, due, cell, wire, open, lost, late, stray, wild>>
  BY <1>1 DEF StoreCode, JobsOf, ClientTyped
<1>3. PICK x : x = [j EXCEPT !.kind = "code"]
  OBVIOUS
<1>4. jobs' = (jobs \ {j}) \cup {x}
  BY <1>3 DEF StoreCode
<1>5. IsJob(x) /\ x.conn = c /\ x.kind = "code" /\ x.code = j.code
  <2>1. x = [conn |-> j.conn, nr |-> j.nr, kind |-> "code", code |-> j.code]
    <3>1. PICK y : y = [conn |-> j.conn, nr |-> j.nr, kind |-> j.kind, code |-> j.code]
      OBVIOUS
    <3>2. j = y
      BY <1>2, <3>1 DEF IsJob
    <3>3. [y EXCEPT !.kind = "code"] = [conn |-> j.conn, nr |-> j.nr, kind |-> "code", code |-> j.code]
      BY <3>1
    <3> QED
      BY <1>3, <3>2, <3>3
  <2> QED
    BY <1>2, <2>1 DEF IsJob
<1>6. /\ JobsOf(c)' = (JobsOf(c) \ {j}) \cup {x}
      /\ \A d \in Clients : d # c => JobsOf(d)' = JobsOf(d)
  BY <1>2, <1>4, <1>5 DEF JobsOf
<1>7. m2c' \in CodeValue
  BY <1>2 DEF IsJob
<1>8. ClientTyped'
  BY <1>1, <1>2, <1>4, <1>5, <1>7 DEF ClientTyped
<1>9. Fine(c)'
  <2>1. Fine(c) /\ JobsOf(c) # {}
    BY <1>1
  <2>2. pc[c] # "start"
    BY <2>1 DEF Fine
  <2>3. x \in JobsOf(c)'
    BY <1>6
  <2>4. ASSUME open[c] = TRUE, c \notin stray PROVE JobsOf(c)' = {x} /\ due[c] # FALSE
    <3>1. JobsOf(c) = {j} /\ due[c] # FALSE
      BY <2>1, <2>4 DEF Fine
    <3> QED
      BY <1>6, <3>1
  <2> QED
    BY <1>2, <1>5, <2>1, <2>2, <2>3, <2>4 DEF Fine
<1>10. ASSUME NEW d \in Clients PROVE Fine(d)'
  <2>1. CASE d # c
    <3>1. Same(d)
      BY <1>2, <1>6, <2>1 DEF Same
    <3> QED
      BY <1>1, <3>1, OthersFine
  <2> QED
    BY <1>9, <2>1
<1>11. Apart' /\ Blame'
  BY <1>1, <1>2 DEF Apart, Blame
<1> QED
  BY <1>8, <1>10, <1>11 DEF CInv

\* The response to a connection that is open goes to that connection; else to
\* nobody, or to somebody who is then known to have got a stray one.
LEMMA RespondFine ==
  ASSUME CInv, NEW c \in Clients, NEW j \in JobsOf(c), Respond(j)
  PROVE  CInv'
<1>1. ClientTyped /\ (\A d \in Clients : Fine(d)) /\ Apart /\ Blame
  BY DEF CInv
<1>2. /\ j \in jobs /\ j.conn = c /\ IsJob(j) /\ j.kind \in {"code", "login"}
      /\ j.code \in CodeValue /\ jobs' = jobs \ {j}
      /\ UNCHANGED <<pc, icode, reqs, cell, open, m2c, owner, lost, late>>
  BY <1>1 DEF Respond, JobsOf, ClientTyped, IsJob
<1>3. /\ JobsOf(c)' = JobsOf(c) \ {j}
      /\ \A d \in Clients : d # c => JobsOf(d)' = JobsOf(d)
  BY <1>2 DEF JobsOf
<1>4. Fine(c) /\ pc[c] # "start" /\ (open[c] = TRUE \/ c \in late)
  BY <1>1 DEF Fine
<1>5. CASE Sessions(j) = {}
  <2>1. wild' = TRUE /\ UNCHANGED <<wire, due, stray>>
    BY <1>5 DEF Respond
  <2>2. open[c] # TRUE
    BY <1>2, <1>5 DEF Sessions
  <2>3. Fine(c)'
    BY <1>2, <1>4, <2>1, <2>2 DEF Fine
  <2>4. ASSUME NEW d \in Clients PROVE Fine(d)'
    <3>1. CASE d # c
      <4>1. Same(d)
        BY <1>2, <1>3, <2>1, <3>1 DEF Same
      <4> QED
        BY <1>1, <4>1, OthersFine
    <3> QED
      BY <2>3, <3>1
  <2>5. ClientTyped' /\ Apart'
    BY <1>1, <1>2, <2>1 DEF ClientTyped, Apart
  <2>6. Blame'
    BY <1>2, <1>4, <2>2 DEF Blame
  <2> QED
    BY <2>4, <2>5, <2>6 DEF CInv
<1>6. ASSUME NEW d \in Sessions(j),
             wire' = [wire EXCEPT ![d] = IF pc[d] = "run" THEN @ \o Units(j.kind, j.code) ELSE @],
             due' = [due EXCEPT ![d] = FALSE],
             stray' = stray \cup ({d} \ {j.conn}),
             UNCHANGED wild
      PROVE  CInv'
  <2>1. d \in Clients /\ open[d] = TRUE /\ cell[d] = cell[c]
    BY <1>1, <1>2 DEF Sessions, ClientTyped
  <2>2. d = c \/ open[c] # TRUE
    BY <1>1, <2>1 DEF Apart
  <2>3. PICK kind \in {"code", "login"} : kind = j.kind
    BY <1>2
  <2>4. PICK k \in CodeValue : k = j.code
    BY <1>2
  <2>5. PICK w \in Seq(Unit) : w = wire[d]
    BY <1>1, <2>1 DEF ClientTyped
  <2>6. PICK u : u = w \o Units(kind, k)
    OBVIOUS
  <2>7. Paired(w)
    BY <1>1, <2>1, <2>5 DEF Fine
  <2>8. /\ u \in Seq(Unit) /\ Paired(u)
        /\ kind = "code" => LastCode(u, k) /\ HasCode(u)
        /\ kind # "code" =>
             /\ \A m : LastCode(w, m) => LastCode(u, m)
             /\ HasCode(w) => HasCode(u)
    BY <2>6, <2>7, UnitsFacts
  <2>9. PICK v : v = IF pc[d] = "run" THEN u ELSE w
    OBVIOUS
  <2>10. v \in Seq(Unit) /\ Paired(v) /\ (pc[d] = "run" => v = u)
    BY <2>7, <2>8, <2>9
  <2>11. /\ wire' \in [Clients -> Seq(Unit)] /\ wire'[d] = v
         /\ \A e \in Clients : e # d => wire'[e] = wire[e]
    <3>1. wire' = [wire EXCEPT ![d] = v]
      BY <1>6, <2>3, <2>4, <2>5, <2>6, <2>9
    <3> QED
      BY <1>1, <2>1, <2>10, <3>1 DEF ClientTyped
  <2>12. /\ due' \in [Clients -> BOOLEAN] /\ \A e \in Clients : e # d => due'[e] = due[e]
    BY <1>1, <1>6, <2>1 DEF ClientTyped
  <2>13. ClientTyped'
    BY <1>1, <1>2, <2>11, <2>12 DEF ClientTyped
  <2>14. CASE d = c
    <3>1. stray' = stray
      BY <1>2, <1>6, <2>14
    <3>2. c \notin stray => JobsOf(c) = {j} /\ JobsOf(c)' = {}
      <4>1. c \notin stray => \A i \in JobsOf(c) : i = j
        BY <1>4, <2>1, <2>14 DEF Fine
      <4> QED
        BY <1>3, <4>1
    <3>3. ASSUME owner = c, pc[c] = "run", c \notin stray
          PROVE  /\ LastCode(u, m2c)
                 /\ HasCode(u) \/ lost[c] = TRUE \/ icode[c] = m2c
      <4>1. CASE kind = "code"
        <5>1. k = m2c
          BY <1>4, <2>1, <2>3, <2>4, <2>14, <3>2, <3>3, <4>1 DEF Fine
        <5> QED
          BY <2>8, <4>1, <5>1
      <4>2. CASE kind # "code"
        <5>1. /\ LastCode(w, m2c)
              /\ HasCode(w) \/ lost[c] = TRUE \/ icode[c] = m2c
          BY <1>4, <2>1, <2>3, <2>5, <2>14, <3>2, <3>3, <4>2 DEF Fine
        <5> QED
          BY <2>8, <4>2, <5>1
      <4> QED
        BY <4>1, <4>2
    <3>4. Fine(c)'
      BY <1>2, <1>4, <2>1, <2>10, <2>11, <2>14, <3>1, <3>2, <3>3 DEF Fine
    <3>5. ASSUME NEW e \in Clients PROVE Fine(e)'
      <4>1. CASE e # c
        <5>1. Same(e)
          BY <1>2, <1>3, <2>11, <2>12, <2>14, <3>1, <4>1 DEF Same
        <5> QED
          BY <1>1, <5>1, OthersFine
      <4> QED
        BY <3>4, <4>1
    <3>6. Apart' /\ Blame'
      BY <1>1, <1>2, <1>6, <3>1 DEF Apart, Blame
    <3> QED
      BY <2>13, <3>5, <3>6 DEF CInv
  <2>15. CASE d # c
    <3>1. open[c] # TRUE /\ c \in late
      BY <1>4, <2>2, <2>15
    <3>2. d \in stray' /\ \A e \in Clients : e # d => (e \in stray' <=> e \in stray)
      BY <1>2, <1>6, <2>15
    <3>3. Fine(c)'
      BY <1>2, <1>4, <2>11, <2>15, <3>1 DEF Fine
    <3>4. Fine(d)'
      <4>1. Fine(d) /\ pc[d] # "start"
        BY <1>1, <2>1 DEF Fine
      <4> QED
        BY <1>2, <2>1, <2>10, <2>11, <3>2, <4>1 DEF Fine
    <3>5. ASSUME NEW e \in Clients PROVE Fine(e)'
      <4>1. CASE e # c /\ e # d
        <5>1. Same(e)
          BY <1>2, <1>3, <2>11, <2>12, <3>2, <4>1 DEF Same
        <5> QED
          BY <1>1, <5>1, OthersFine
      <4> QED
        BY <3>3, <3>4, <4>1
    <3>6. Apart' /\ Blame'
      BY <1>1, <1>2, <3>1 DEF Apart, Blame
    <3> QED
      BY <2>13, <3>5, <3>6 DEF CInv
  <2> QED
    BY <2>14, <2>15
<1> QED
  BY <1>5, <1>6 DEF Respond

\* server_msg_cb: a read that takes a code away without understanding it is
\* recorded in lost.
LEMMA ServerMsgFine ==
  ASSUME CInv, NEW c \in Clients, NEW n \in 1..BufUnits, n <= Len(wire[c]), ServerMsg(c, n)
  PROVE  CInv'
<1>1. ClientTyped /\ \A d \in Clients : Fine(d)
  BY DEF CInv
<1>2. PICK w : w = wire[c]
  OBVIOUS
<1>3. w \in Seq(Unit) /\ Paired(w) /\ Fine(c) /\ Len(w) \in Nat
  BY <1>1, <1>2, LenProperties DEF ClientTyped, Fine
<1>4. n \in 1..Len(w) /\ 1 \in 1..n /\ 1 \in 1..Len(w)
  BY <1>2, <1>3, ClientAssumption
<1>5. PICK v : Rest(w, n, v)
  BY DEF Rest
<1>6. /\ v \in Seq(Unit) /\ Paired(v)
      /\ \A m : LastCode(w, m) => LastCode(v, m)
      /\ \A i \in 1..Len(w) : i > n /\ w[i].kind = "code" => HasCode(v)
  <2>1. w \in Seq(Unit) /\ Paired(w) /\ n \in 1..Len(w)
    BY <1>3, <1>4
  <2> QED
    BY <2>1, <1>5, ReadFacts
<1>7. PICK K : K = {i \in 1..n : w[i].kind = "code"}
  OBVIOUS
<1>8. /\ pc[c] = "run"
      /\ \/ n = BufUnits /\ Ends(c, "ub")
         \/ wire' = [wire EXCEPT ![c] = v] /\ UNCHANGED pc
      /\ \/ /\ w[1].part = "head" /\ w[1].kind = "code"
            /\ \E k \in Codes \cup {NoCode} :
                  /\ n >= 2 /\ w[1].part = "head" => k = NewCode(w[1])
                  /\ icode' = [icode EXCEPT ![c] = k]
         \/ ~(w[1].part = "head" /\ w[1].kind = "code") /\ UNCHANGED icode
      /\ lost' = [lost EXCEPT ![c] =
                    IF K = {} THEN @
                    ELSE ~(n >= 2 /\ w[1].part = "head" /\ w[1].kind = "code" /\ K = {1, 2})]
      /\ UNCHANGED <<reqs, sessVars, m2c, owner>>
  BY <1>2, <1>5, <1>7 DEF ServerMsg, CodeUnits, Rest
<1>10. /\ icode' \in [Clients -> CodeValue]
       /\ \A d \in Clients : d # c => icode'[d] = icode[d]
       /\ ~(w[1].part = "head" /\ w[1].kind = "code") => icode'[c] = icode[c]
       /\ n >= 2 /\ w[1].part = "head" /\ w[1].kind = "code" => icode'[c] = w[1].code
  <2>1. CASE w[1].part = "head" /\ w[1].kind = "code"
    <3>1. PICK k \in Codes \cup {NoCode} :
             /\ n >= 2 /\ w[1].part = "head" => k = NewCode(w[1])
             /\ icode' = [icode EXCEPT ![c] = k]
      BY <1>8, <2>1
    <3>2. icode \in [Clients -> CodeValue] /\ k \in CodeValue
      BY <1>1 DEF ClientTyped, CodeValue
    <3>3. n >= 2 => k = w[1].code
      BY <2>1, <3>1 DEF NewCode
    <3> QED
      BY <2>1, <3>1, <3>2, <3>3
  <2>2. CASE ~(w[1].part = "head" /\ w[1].kind = "code")
    <3>1. UNCHANGED icode
      BY <1>8, <2>2
    <3> QED
      BY <1>1, <2>2, <3>1 DEF ClientTyped
  <2> QED
    BY <2>1, <2>2
<1>11. /\ lost' \in [Clients -> BOOLEAN]
       /\ \A d \in Clients : d # c => lost'[d] = lost[d]
       /\ K = {} => lost'[c] = lost[c]
       /\ K # {} /\ ~(n >= 2 /\ w[1].part = "head" /\ w[1].kind = "code" /\ K = {1, 2})
            => lost'[c] = TRUE
  BY <1>1, <1>8 DEF ClientTyped
<1>12. CASE n = BufUnits /\ Ends(c, "ub")
  BY <1>8, <1>10, <1>11, <1>12, EndedFine
<1>13. CASE wire' = [wire EXCEPT ![c] = v] /\ UNCHANGED pc
  <2>1. /\ wire' \in [Clients -> Seq(Unit)] /\ wire'[c] = v
        /\ \A d \in Clients : d # c => wire'[d] = wire[d]
    BY <1>1, <1>6, <1>13 DEF ClientTyped
  <2>2. ClientTyped'
    BY <1>1, <1>8, <1>10, <1>11, <1>13, <2>1, SessionsKept DEF ClientTyped
  <2>3. ASSUME owner = c, open[c] = TRUE, c \notin stray, \A j \in JobsOf(c) : j.kind # "code"
        PROVE  /\ LastCode(v, m2c)
               /\ HasCode(v) \/ lost'[c] = TRUE \/ icode'[c] = m2c
    <3>1. /\ LastCode(w, m2c)
          /\ HasCode(w) \/ lost[c] = TRUE \/ icode[c] = m2c
      BY <1>2, <1>3, <1>8, <2>3 DEF Fine
    <3>2. LastCode(v, m2c)
      BY <1>6, <3>1
    <3>3. ASSUME ~HasCode(v), lost'[c] # TRUE PROVE icode'[c] = m2c
      <4>1. \A i \in 1..Len(w) : i > n => w[i].kind # "code"
        BY <1>6, <3>3
      <4>2. CASE K = {}
        <5>1. w[1].kind # "code"
          BY <1>4, <1>7, <4>2
        <5>2. ~HasCode(w)
          <6> SUFFICES ASSUME NEW i \in 1..Len(w), w[i].kind = "code" PROVE FALSE
            BY DEF HasCode
          <6>1. i \in 1..n
            BY <1>3, <1>4, <4>1
          <6> QED
            BY <1>7, <4>2, <6>1
        <5> QED
          BY <1>10, <1>11, <3>1, <3>3, <4>2, <5>1, <5>2
      <4>3. CASE K # {}
        <5>1. n >= 2 /\ w[1].part = "head" /\ w[1].kind = "code" /\ K = {1, 2}
          BY <1>11, <3>3, <4>3
        <5>2. w[1].code = m2c
          BY <1>3, <1>4, <1>7, <3>1, <4>1, <5>1, WholeResponse
        <5> QED
          BY <1>10, <5>1, <5>2
      <4> QED
        BY <4>2, <4>3
    <3> QED
      BY <3>2, <3>3
  <2>4. Fine(c)'
    <3>1. JobsOf(c)' = JobsOf(c) /\ UNCHANGED <<due, open, late, stray, m2c, owner>>
      BY <1>8, SessionsKept
    <3>2. Paired(wire[c])'
      BY <1>6, <2>1
    <3>3. ASSUME owner = c, open[c] = TRUE, c \notin stray
          PROVE  \/ \E j \in JobsOf(c) : j.kind = "code" /\ j.code = m2c
                 \/ /\ \A j \in JobsOf(c) : j.kind # "code"
                    /\ LastCode(v, m2c)
                    /\ HasCode(v) \/ lost'[c] = TRUE \/ icode'[c] = m2c
      BY <1>3, <1>8, <2>3, <3>3 DEF Fine
    <3> QED
      BY <1>3, <1>8, <1>13, <2>1, <3>1, <3>2, <3>3 DEF Fine
  <2>5. ASSUME NEW d \in Clients PROVE Fine(d)'
    <3>1. CASE d # c
      <4>1. Same(d)
        BY <1>8, <1>10, <1>11, <1>13, <2>1, <3>1, SessionsKept DEF Same
      <4> QED
        BY <1>1, <4>1, OthersFine
    <3> QED
      BY <2>4, <3>1
  <2> QED
    BY <1>8, <2>2, <2>5, SessionsKept DEF CInv
<1> QED
  BY <1>8, <1>12, <1>13

-----------------------------------------------------------------------------
(***************************************************************************)
(* The theorem.                                                            *)
(***************************************************************************)

\* At the start nobody is connected.
LEMMA ClientStart == Init => CInv
<1> SUFFICES ASSUME Init PROVE CInv
  OBVIOUS
<1>1. /\ \A c \in Clients : pc[c] = "start" /\ wire[c] = <<>> /\ open[c] = FALSE
      /\ jobs = {} /\ owner = NoClient
  BY DEF Init
<1>2. ClientTyped
  <2>1. <<>> \in Seq(Request) /\ <<>> \in Seq(Unit) /\ NoCode \in CodeValue
    BY EmptySeq DEF CodeValue
  <2>2. /\ pc \in [Clients -> {"start", "run", "done", "ub"}]
        /\ icode \in [Clients -> CodeValue]
        /\ reqs \in [Clients -> Seq(Request)]
        /\ cell \in [Clients -> Clients]
        /\ wire \in [Clients -> Seq(Unit)]
        /\ m2c \in CodeValue
    BY <2>1 DEF Init
  <2>3. open \in [Clients -> BOOLEAN] /\ lost \in [Clients -> BOOLEAN] /\ due \in [Clients -> BOOLEAN]
    BY DEF Init
  <2> QED
    BY <1>1, <2>2, <2>3 DEF ClientTyped
<1>3. ASSUME NEW c \in Clients PROVE Fine(c)
  <2>1. owner # c /\ Len(<<>>) = 0 /\ JobsOf(c) = {}
    BY <1>1, ClientAssumption DEF JobsOf
  <2> QED
    BY <1>1, <2>1 DEF Fine, Paired
<1>4. Apart
  BY <1>1 DEF Apart
<1>5. Blame
  BY DEF Init, Blame
<1> QED
  BY <1>2, <1>3, <1>4, <1>5 DEF CInv

\* Every step of clients and server keeps the invariant.
LEMMA ClientStep == CInv /\ [Next]_vars => CInv'
<1> SUFFICES ASSUME CInv, [Next]_vars PROVE CInv'
  OBVIOUS
<1>1. CASE UNCHANGED vars
  <2>1. /\ UNCHANGED <<pc, icode, reqs, wire, m2c, owner, lost, jobs, due, cell, open, late, stray, wild>>
    BY <1>1 DEF vars, sessVars
  <2>2. ClientTyped' /\ Apart' /\ Blame' /\ \A d \in Clients : JobsOf(d)' = JobsOf(d)
    BY <2>1 DEF CInv, ClientTyped, Apart, Blame, JobsOf
  <2>3. ASSUME NEW d \in Clients PROVE Fine(d)'
    <3>1. Fine(d) /\ Same(d)
      BY <2>1, <2>2 DEF CInv, Same
    <3> QED
      BY <3>1, OthersFine
  <2> QED
    BY <2>2, <2>3 DEF CInv
<1>2. ASSUME NEW c \in Clients,
             \/ Start(c)
             \/ \E cmd \in {"send_mr", "send_lr"} : Type(c, cmd)
             \/ TypeEnds(c)
             \/ \E n \in 1..BufUnits : n <= Len(wire[c]) /\ ServerMsg(c, n)
             \/ EventCb(c)
             \/ Dispatch(c) \/ CloseConn(c)
             \/ \E j \in JobsOf(c) : StoreCode(j) \/ Respond(j)
      PROVE  CInv'
  BY <1>2, StartFine, TypeFine, EndFine, ServerMsgFine, DispatchFine, StoreCodeFine, RespondFine,
     CloseConnFine
<1> QED
  BY <1>1, <1>2 DEF Next

\* A client's code is the one the server compares with, unless a code is still
\* on the way, another client of the same mobile asked later, server_msg_cb
\* read a response in pieces or together with another one, or the response to
\* somebody else came in between; and that happens only when a connection ended
\* while the pool had its request.
THEOREM CodesInSync == Spec => []CodeInSync
<1>1. CInv => CodeInSync
  <2>1. ASSUME CInv, NEW c \in Clients,
               pc[c] = "run", open[c], owner = c, ~CodePending(c), ~Disturbed(c)
        PROVE  icode[c] = m2c
    <3>1. Fine(c) /\ open[c] = TRUE /\ wire[c] \in Seq(Unit)
      BY <2>1 DEF CInv, ClientTyped
    <3>2. \A j \in JobsOf(c) : j.kind # "code"
      BY <2>1 DEF CodePending
    <3>3. ~HasCode(wire[c])
      <4>1. DOMAIN wire[c] = 1..Len(wire[c])
        BY <3>1, LenProperties
      <4> QED
        BY <2>1, <4>1 DEF HasCode, CodePending
    <3> QED
      BY <2>1, <3>1, <3>2, <3>3 DEF Fine, Disturbed
  <2>2. ASSUME CInv PROVE stray # {} \/ wild => late # {}
    BY <2>2 DEF CInv, Blame
  <2> QED
    BY <2>1, <2>2 DEF CodeInSync
<1> QED
  BY <1>1, ClientStart, ClientStep, PTL DEF Spec
=============================================================================
