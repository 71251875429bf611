---------------------------- MODULE SessionsProofs ----------------------------
(* Proofs about Sessions, for any number of rows, requests and links.      *)
EXTENDS Sessions, TLAPS

LEMMA IdleRequest == Idle \in Request /\ Idle.op = "idle"
BY DEF Idle, Request

LEMMA InitTypes == Init => TypeOK
<1> SUFFICES ASSUME Init PROVE TypeOK
  OBVIOUS
<1>1. session \in [Rows -> Session] /\ \A s \in Rows : Unused(s) /\ ~Live(s)
  BY DEF Init, Session, Reason, Unused, Live
<1>2. request \in [Requests -> Request] /\ \A q \in Requests : request[q].op = "idle"
  BY IdleRequest DEF Init
<1>3. line \in [Rows -> Rows \cup {None}] /\ late \in SUBSET Rows
        /\ password \in Nat /\ token \in [Tokens -> {"none", "sent", "used"}]
  BY DEF Init
<1>4. QED
  BY <1>1, <1>2, <1>3 DEF TypeOK

-----------------------------------------------------------------------------
(* What the operators that write do *)

LEMMA Revoked ==
  ASSUME TypeOK, NEW rows \in SUBSET Rows, NEW reason \in Ending,
         session' = RevokeLive(rows, reason)
  PROVE  /\ session' \in [Rows -> Session]
         /\ \A s \in Rows :
              /\ s \in rows => ~Live(s)'
              /\ Live(s)' => Live(s) /\ session'[s] = session[s]
              /\ ~(s \in rows /\ Live(s)) => session'[s] = session[s]
              /\ Live(s) /\ s \in rows => session'[s].reason = reason
              /\ Family(s)' = Family(s) /\ session'[s].password = session[s].password
              /\ Unused(s)' <=> Unused(s)
              /\ Live(s)' <=> ~Unused(s)' /\ session'[s].reason = "none"
<1>1. ASSUME NEW s \in Rows, s \in rows, Live(s)
      PROVE  /\ session'[s] \in Session /\ session'[s].status = "revoked"
             /\ session'[s].reason = reason /\ session'[s].family = session[s].family
             /\ session'[s].password = session[s].password
  <2>1. session[s] \in Session
    BY DEF TypeOK
  <2>2. session'[s] = [session[s] EXCEPT !.status = "revoked", !.reason = reason]
    BY <1>1 DEF RevokeLive
  <2>3. QED
    BY <2>1, <2>2 DEF Session, Reason
<1>2. ASSUME NEW s \in Rows, ~(s \in rows /\ Live(s)) PROVE session'[s] = session[s]
  BY <1>2 DEF RevokeLive
<1>3. session' \in [Rows -> Session]
  BY <1>1, <1>2 DEF RevokeLive, TypeOK
<1>4. reason # "none"
  BY DEF Ending
<1>5. QED
  BY <1>1, <1>2, <1>3, <1>4 DEF Live, Family, Unused, TypeOK

LEMMA Ended ==
  ASSUME TypeOK, NEW q \in Requests, Done(q)
  PROVE  /\ request' \in [Requests -> Request]
         /\ request'[q].op = "idle"
         /\ \A p \in Requests \ {q} : request'[p] = request[p]
BY IdleRequest DEF Done, TypeOK

-----------------------------------------------------------------------------
(* Types *)

LEMMA RevokeTypes ==
  ASSUME TypeOK, NEW rows \in SUBSET Rows, NEW reason \in Ending,
         session' = RevokeLive(rows, reason)
  PROVE  /\ session' \in [Rows -> Session]
         /\ \A s \in Rows : (~Unused(s) => Family(s) \in Rows /\ ~Unused(Family(s)))'
         /\ \A s \in Rows : (Live(s) <=> ~Unused(s) /\ session[s].reason = "none")'
         /\ \A s \in Rows : Unused(s)' <=> Unused(s)
<1>1. \A s \in Rows : session'[s].family = session[s].family /\ (session'[s].status = "none" <=> session[s].status = "none")
  BY Revoked DEF Family, Unused
<1>2. \A s \in Rows : session[s].status # "none" => session[s].family \in Rows /\ session[session[s].family].status # "none"
  BY DEF TypeOK, Unused, Family
<1>3. \A s \in Rows : (~Unused(s) => Family(s) \in Rows /\ ~Unused(Family(s)))'
  BY <1>1, <1>2 DEF Unused, Family
<1>4. QED
  BY Revoked, <1>1, <1>3 DEF Unused

(* A row is inserted, in a family of its own or in that of a used row, and *)
(* a row may be rotated.                                                   *)
LEMMA InsertTypes ==
  ASSUME TypeOK, NEW n \in Rows, Unused(n), NEW f \in Rows, f = n \/ ~Unused(f), NEW pw \in Nat,
         session' \in [Rows -> Session], session'[n] = New(f, pw),
         \A s \in Rows \ {n} : session'[s] = session[s] \/
            /\ ~Unused(s) /\ session'[s].status = "revoked"
            /\ session'[s].reason = "rotated" /\ session'[s].family = session[s].family
  PROVE  /\ \A s \in Rows : (~Unused(s) => Family(s) \in Rows /\ ~Unused(Family(s)))'
         /\ \A s \in Rows : (Live(s) <=> ~Unused(s) /\ session[s].reason = "none")'
         /\ \A s \in Rows : ~Unused(s) => ~Unused(s)'
         /\ \A s \in Rows : Unused(s)' <=> Unused(s) /\ s # n
<1>1. session'[n].status = "live" /\ session'[n].family = f /\ session'[n].reason = "none"
  BY DEF New
<1>2. \A s \in Rows \ {n} : session'[s].family = session[s].family /\ (session'[s].status = "none" <=> session[s].status = "none")
  BY DEF Unused
<1>3. \A s \in Rows : session[s].status # "none" => session[s].family \in Rows /\ session[session[s].family].status # "none"
  BY DEF TypeOK, Unused, Family
<1>4. \A s \in Rows : session[s].status # "none" => session'[s].status # "none"
  BY <1>1, <1>2
<1>5. \A s \in Rows : session'[s].status # "none" => session'[s].family \in Rows /\ session'[session'[s].family].status # "none"
  <2>1. ASSUME NEW s \in Rows, session'[s].status # "none"
        PROVE  session'[s].family \in Rows /\ session'[session'[s].family].status # "none"
    <3>1. CASE s = n
      BY <3>1, <1>1, <1>4 DEF Unused
    <3>2. CASE s # n
      BY <3>2, <2>1, <1>2, <1>3, <1>4
    <3>3. QED
      BY <3>1, <3>2
  <2>2. QED
    BY <2>1
<1>6. \A s \in Rows : session'[s].status = "live" <=> session'[s].status # "none" /\ session'[s].reason = "none"
  <2>1. ASSUME NEW s \in Rows PROVE session'[s].status = "live" <=> session'[s].status # "none" /\ session'[s].reason = "none"
    <3>1. CASE s = n
      BY <3>1, <1>1
    <3>2. CASE s # n /\ session'[s] = session[s]
      BY <3>2 DEF TypeOK, Live, Unused
    <3>3. CASE s # n /\ session'[s] # session[s]
      BY <3>3
    <3>4. QED
      BY <3>1, <3>2, <3>3
  <2>2. QED
    BY <2>1
<1>7. QED
  BY <1>1, <1>2, <1>4, <1>5, <1>6 DEF Unused, Family, Live

LEMMA SessionsKept ==
  ASSUME TypeOK, UNCHANGED session
  PROVE  /\ session' \in [Rows -> Session]
         /\ \A s \in Rows : (~Unused(s) => Family(s) \in Rows /\ ~Unused(Family(s)))'
         /\ \A s \in Rows : (Live(s) <=> ~Unused(s) /\ session[s].reason = "none")'
         /\ \A s \in Rows : Unused(s)' <=> Unused(s)
BY DEF TypeOK, Unused, Family, Live

(* The lines, when no row is inserted, and when one is                     *)
LEMMA LinesKept ==
  ASSUME TypeOK, UNCHANGED history, \A s \in Rows : Unused(s)' <=> Unused(s)
  PROVE  /\ line' \in [Rows -> Rows \cup {None}] /\ late' \in SUBSET Rows
         /\ \A s \in Rows : ~Unused(s)' => line'[s] \in Rows /\ ~Unused(line[s])'
<1>1. \A s \in Rows : ~Unused(s) => line[s] \in Rows /\ ~Unused(line[s])
  BY DEF TypeOK
<1>2. line' = line /\ late' = late
  BY DEF history
<1>3. ASSUME NEW s \in Rows, ~Unused(s)' PROVE line'[s] \in Rows /\ ~Unused(line[s])'
  <2>1. line[s] \in Rows /\ ~Unused(line[s])
    BY <1>1, <1>3
  <2>2. session'[line[s]].status # "none"
    BY <2>1 DEF Unused
  <2>3. QED
    BY <1>2, <2>1, <2>2 DEF Unused
<1>4. QED
  BY <1>2, <1>3 DEF TypeOK

LEMMA LinesGrow ==
  ASSUME TypeOK, NEW n \in Rows, NEW l \in Rows, l = n \/ ~Unused(l),
         \A s \in Rows : Unused(s)' <=> Unused(s) /\ s # n,
         line' = [line EXCEPT ![n] = l], late' = late \/ late' = late \cup {n}
  PROVE  /\ line' \in [Rows -> Rows \cup {None}] /\ late' \in SUBSET Rows
         /\ \A s \in Rows : ~Unused(s)' => line'[s] \in Rows /\ ~Unused(line[s])'
<1>1. \A s \in Rows : session'[s].status = "none" <=> session[s].status = "none" /\ s # n
  BY DEF Unused
<1>2. line'[n] = l /\ \A s \in Rows \ {n} : line'[s] = line[s]
  BY DEF TypeOK
<1>3. \A s \in Rows : session[s].status # "none" => line[s] \in Rows /\ session[line[s]].status # "none"
  BY DEF TypeOK, Unused
<1>4. session'[l].status # "none"
  BY <1>1 DEF Unused
<1>5. ASSUME NEW s \in Rows, session'[s].status # "none"
      PROVE  line'[s] \in Rows /\ session'[line'[s]].status # "none"
  BY <1>1, <1>2, <1>3, <1>4, <1>5
<1>6. QED
  BY <1>5 DEF TypeOK, Unused

LEMMA Retyped ==
  ASSUME TypeOK,
         /\ session' \in [Rows -> Session]
         /\ \A s \in Rows : (~Unused(s) => Family(s) \in Rows /\ ~Unused(Family(s)))'
         /\ \A s \in Rows : (Live(s) <=> ~Unused(s) /\ session[s].reason = "none")'
         /\ \A s \in Rows : ~Unused(s) => ~Unused(s)',
         /\ line' \in [Rows -> Rows \cup {None}] /\ late' \in SUBSET Rows
         /\ \A s \in Rows : ~Unused(s)' => line'[s] \in Rows /\ ~Unused(line[s])',
         password' \in Nat,
         token' \in [Tokens -> {"none", "sent", "used"}],
         \A t \in Tokens : token[t] # "none" => token'[t] # "none",
         request' \in [Requests -> Request],
         \A q \in Requests :
            \/ request'[q] = request[q]
            \/ request'[q].op \in {"idle", "login", "switched"}
            \/ /\ request'[q].op \in {"refresh", "reuse", "switch"} /\ request'[q].row \in Rows
               /\ ~Unused(request'[q].row) /\ (request'[q].op = "refresh" => request'[q].live)
            \/ request'[q].op = "reset" /\ request'[q].token \in Tokens /\ token[request'[q].token] # "none"
  PROVE  TypeOK'
<1>1. ASSUME NEW q \in Requests
      PROVE  (/\ request[q].op \in {"refresh", "reuse", "switch"} => request[q].row \in Rows /\ ~Unused(request[q].row)
              /\ request[q].op = "refresh" => request[q].live
              /\ request[q].op = "reset" => request[q].token \in Tokens /\ token[request[q].token] # "none")'
  <2>1. CASE request'[q] = request[q]
    BY <2>1 DEF TypeOK, Unused
  <2>2. CASE request'[q].op \in {"idle", "login", "switched"}
    BY <2>2
  <2>3. CASE /\ request'[q].op \in {"refresh", "reuse", "switch"} /\ request'[q].row \in Rows
               /\ ~Unused(request'[q].row) /\ (request'[q].op = "refresh" => request'[q].live)
    BY <2>3 DEF Unused
  <2>4. CASE request'[q].op = "reset" /\ request'[q].token \in Tokens /\ token[request'[q].token] # "none"
    BY <2>4
  <2>5. QED
    BY <2>1, <2>2, <2>3, <2>4
<1>2. QED
  BY <1>1 DEF TypeOK, Unused

LEMMA NextTypes == TypeOK /\ [Next]_vars => TypeOK'
<1> SUFFICES ASSUME TypeOK, [Next]_vars PROVE TypeOK'
  OBVIOUS
<1> USE DEF TypeOK
<1>1. ASSUME NEW q \in Requests, StartLogin(q) PROVE TypeOK'
  <2>1. request' \in [Requests -> Request] /\ request'[q].op = "login"
        /\ \A p \in Requests \ {q} : request'[p] = request[p]
    BY <1>1 DEF StartLogin, Start, Request, Opening
  <2>2. QED
    BY <1>1, <2>1, SessionsKept, LinesKept, Retyped DEF StartLogin
<1>2. ASSUME NEW q \in Requests, NEW s \in Rows, OpenSession(q, s) PROVE TypeOK'
  <2>1. request[q].password \in Nat
    BY DEF Request
  <2>2. session' \in [Rows -> Session] /\ session'[s] = New(s, request[q].password)
    BY <1>2, <2>1 DEF OpenSession, New, Session, Reason
  <2>3. \A r \in Rows \ {s} : session'[r] = session[r]
    BY <1>2 DEF OpenSession
  <2>4. /\ \A r \in Rows : (~Unused(r) => Family(r) \in Rows /\ ~Unused(Family(r)))'
        /\ \A r \in Rows : (Live(r) <=> ~Unused(r) /\ session[r].reason = "none")'
        /\ \A r \in Rows : ~Unused(r) => ~Unused(r)'
        /\ \A r \in Rows : Unused(r)' <=> Unused(r) /\ r # s
    BY <1>2, <2>1, <2>2, <2>3, InsertTypes DEF OpenSession
  <2>5. /\ line' \in [Rows -> Rows \cup {None}] /\ late' \in SUBSET Rows
        /\ \A r \in Rows : ~Unused(r)' => line'[r] \in Rows /\ ~Unused(line[r])'
    <3>1. line' = [line EXCEPT ![s] = s] /\ (late' = late \/ late' = late \cup {s})
      BY <1>2 DEF OpenSession
    <3>2. QED
      BY <2>4, <3>1, LinesGrow
  <2>6. QED
    BY <1>2, <2>2, <2>4, <2>5, Ended, Retyped DEF OpenSession
<1>3. ASSUME NEW q \in Requests, NEW s \in Rows, StartRefresh(q, s) PROVE TypeOK'
  <2>1. PICK op \in {"refresh", "reuse"} :
          Start(q, op, s, 0, None) /\ (op = "refresh" => Live(s))
    BY <1>3 DEF StartRefresh, Reusable
  <2>2. request' \in [Requests -> Request] /\ request'[q].op = op /\ request'[q].row = s
        /\ (op = "refresh" => request'[q].live)
        /\ \A p \in Requests \ {q} : request'[p] = request[p]
    BY <2>1, SessionsAssumption DEF Start, Request, Opening
  <2>3. QED
    BY <1>3, <2>2, SessionsKept, LinesKept, Retyped DEF StartRefresh
<1>4. ASSUME NEW q \in Requests, NEW n \in Rows, Rotate(q, n) PROVE TypeOK'
  <2> DEFINE s == request[q].row
  <2>1. s \in Rows /\ ~Unused(s) /\ s # n /\ Unused(n)
    BY <1>4 DEF Rotate
  <2>2. session[s] \in Session /\ session[n] \in Session /\ Family(s) \in Rows /\ ~Unused(Family(s))
    BY <2>1
  <2>3. session' = [session EXCEPT ![s].status = "revoked", ![s].reason = "rotated",
                                   ![n] = New(Family(s), session[s].password)]
    BY <1>4 DEF Rotate
  <2>4. New(Family(s), session[s].password) \in Session /\ session[s].password \in Nat
    BY <2>2 DEF New, Session, Reason
  <2>5. /\ session'[n] = New(Family(s), session[s].password)
        /\ session'[s] = [status |-> "revoked", reason |-> "rotated",
                          family |-> session[s].family, password |-> session[s].password]
        /\ \A r \in Rows \ {s, n} : session'[r] = session[r]
        /\ DOMAIN session' = Rows /\ session' = [r \in Rows |-> session'[r]]
    BY <2>1, <2>2, <2>3 DEF Session
  <2>6. session'[s] \in Session
    BY <2>2, <2>5 DEF Session, Reason
  <2>7. session' \in [Rows -> Session]
    BY <2>4, <2>5, <2>6
  <2>8. /\ \A r \in Rows : (~Unused(r) => Family(r) \in Rows /\ ~Unused(Family(r)))'
        /\ \A r \in Rows : (Live(r) <=> ~Unused(r) /\ session[r].reason = "none")'
        /\ \A r \in Rows : ~Unused(r) => ~Unused(r)'
        /\ \A r \in Rows : Unused(r)' <=> Unused(r) /\ r # n
    <3>1. \A r \in Rows \ {n} : session'[r] = session[r] \/
            /\ ~Unused(r) /\ session'[r].status = "revoked"
            /\ session'[r].reason = "rotated" /\ session'[r].family = session[r].family
      BY <2>1, <2>5
    <3>2. QED
      BY <2>1, <2>2, <2>4, <2>5, <2>7, <3>1, InsertTypes
  <2>9. /\ line' \in [Rows -> Rows \cup {None}] /\ late' \in SUBSET Rows
        /\ \A r \in Rows : ~Unused(r)' => line'[r] \in Rows /\ ~Unused(line[r])'
    <3>1. PICK l \in {n, line[s]} : line' = [line EXCEPT ![n] = l]
      BY <1>4 DEF Rotate
    <3>2. l \in Rows /\ (l = n \/ ~Unused(l)) /\ (late' = late \/ late' = late \cup {n})
      BY <1>4, <2>1, <3>1 DEF Rotate
    <3>3. QED
      BY <2>8, <3>1, <3>2, LinesGrow
  <2>10. QED
    BY <1>4, <2>7, <2>8, <2>9, Ended, Retyped DEF Rotate
<1>5. ASSUME NEW q \in Requests, RevokeFamily(q) PROVE TypeOK'
  <2>1. session' = RevokeLive({s \in Rows : Family(s) = Family(request[q].row)}, "token_reuse_detected")
    BY <1>5 DEF RevokeFamily
  <2>2. QED
    BY <1>5, <2>1, RevokeTypes, LinesKept, Ended, Retyped DEF RevokeFamily, Ending
<1>6. ASSUME NEW s \in Rows, Logout(s) PROVE TypeOK'
  BY <1>6, RevokeTypes, LinesKept, Retyped DEF Logout, Ending
<1>7. CASE LogoutAll
  BY <1>7, RevokeTypes, LinesKept, Retyped DEF LogoutAll, Ending
<1>8. ASSUME NEW q \in Requests, NEW s \in Rows, StartSwitch(q, s) PROVE TypeOK'
  <2>1. session[s].password \in Nat /\ ~Unused(s)
    BY <1>8 DEF StartSwitch, Session, Live, Unused
  <2>2. request' \in [Requests -> Request] /\ request'[q].op = "switch" /\ request'[q].row = s
        /\ \A p \in Requests \ {q} : request'[p] = request[p]
    BY <1>8, <2>1 DEF StartSwitch, Start, Request, Opening
  <2>3. QED
    BY <1>8, <2>1, <2>2, SessionsKept, LinesKept, Retyped DEF StartSwitch
<1>9. ASSUME NEW q \in Requests, LeaveOrganization(q) PROVE TypeOK'
  <2>1. request[q] \in Request /\ request[q].row \in Rows
    BY <1>9 DEF LeaveOrganization
  <2>2. request' \in [Requests -> Request] /\ request'[q].op = "switched"
        /\ \A p \in Requests \ {q} : request'[p] = request[p]
    BY <1>9, <2>1 DEF LeaveOrganization, Request, Opening
  <2>3. session' = RevokeLive({request[q].row}, "logout")
    BY <1>9 DEF LeaveOrganization
  <2>4. QED
    BY <1>9, <2>1, <2>2, <2>3, RevokeTypes, LinesKept, Retyped DEF LeaveOrganization, Ending
<1>10. ASSUME NEW t \in Tokens, RequestReset(t) PROVE TypeOK'
  BY <1>10, SessionsKept, LinesKept, Retyped DEF RequestReset
<1>11. ASSUME NEW q \in Requests, NEW t \in Tokens, StartReset(q, t) PROVE TypeOK'
  <2>1. request' \in [Requests -> Request] /\ request'[q].op = "reset" /\ request'[q].token = t
        /\ \A p \in Requests \ {q} : request'[p] = request[p]
    BY <1>11 DEF StartReset, Start, Request
  <2>2. QED
    BY <1>11, <2>1, SessionsKept, LinesKept, Retyped DEF StartReset
<1>12. ASSUME NEW q \in Requests, ResetPassword(q) PROVE TypeOK'
  <2>1. session' = RevokeLive(Rows, "password_reset") /\ password' \in Nat
        /\ token' \in [Tokens -> {"none", "sent", "used"}]
        /\ \A t \in Tokens : token[t] # "none" => token'[t] # "none"
    BY <1>12 DEF ResetPassword
  <2>2. QED
    BY <1>12, <2>1, RevokeTypes, LinesKept, Ended, Retyped DEF ResetPassword, Ending
<1>13. ASSUME NEW q \in Requests, Die(q) PROVE TypeOK'
  BY <1>13, SessionsKept, LinesKept, Ended, Retyped DEF Die
<1>14. CASE UNCHANGED vars
  BY <1>14, SessionsKept, LinesKept, Retyped DEF vars
<1>15. QED
  BY <1>1, <1>2, <1>3, <1>4, <1>5, <1>6, <1>7, <1>8, <1>9, <1>10, <1>11, <1>12, <1>13, <1>14 DEF Next

(* TypeOK holds in every behaviour: in particular a row is live exactly    *)
(* while it has no reason to be revoked, and no request works on a row or  *)
(* a link that does not exist.                                             *)
THEOREM TypeCorrect == Spec => []TypeOK
BY InitTypes, NextTypes, PTL DEF Spec

-----------------------------------------------------------------------------
(* What the steps do to the rows.  Every step but the two that insert one  *)
(* leaves them alone or revokes some.                                      *)

Revokes ==
  \E rows \in SUBSET Rows, reason \in Ending :
    /\ session' = RevokeLive(rows, reason)
    /\ password' = password \/ rows = Rows

LEMMA RowSteps ==
  ASSUME TypeOK, [Next]_vars
  PROVE  \/ \E q \in Requests, s \in Rows : OpenSession(q, s) \/ Rotate(q, s)
         \/ UNCHANGED history /\ (UNCHANGED <<session, password>> \/ Revokes)
<1>1. ASSUME LogoutAll \/ \E s \in Rows : Logout(s) PROVE UNCHANGED history /\ Revokes
  <2>1. PICK rows \in SUBSET Rows : session' = RevokeLive(rows, "logout")
    BY <1>1 DEF LogoutAll, Logout
  <2>2. "logout" \in Ending /\ password' = password /\ UNCHANGED history
    BY <1>1 DEF LogoutAll, Logout, Ending
  <2>3. QED
    BY <2>1, <2>2 DEF Revokes
<1>2. ASSUME NEW q \in Requests, RevokeFamily(q) PROVE UNCHANGED history /\ Revokes
  <2> DEFINE rows == {s \in Rows : Family(s) = Family(request[q].row)}
  <2>1. session' = RevokeLive(rows, "token_reuse_detected")
    BY <1>2 DEF RevokeFamily
  <2>2. "token_reuse_detected" \in Ending /\ password' = password /\ UNCHANGED history
    BY <1>2 DEF RevokeFamily, Ending
  <2>3. rows \in SUBSET Rows
    OBVIOUS
  <2>4. QED
    BY <2>1, <2>2, <2>3 DEF Revokes
<1>3. ASSUME NEW q \in Requests, LeaveOrganization(q) PROVE UNCHANGED history /\ Revokes
  <2>1. session' = RevokeLive({request[q].row}, "logout") /\ {request[q].row} \in SUBSET Rows
    BY <1>3 DEF LeaveOrganization, TypeOK
  <2>2. "logout" \in Ending /\ password' = password /\ UNCHANGED history
    BY <1>3 DEF LeaveOrganization, Ending
  <2>3. QED
    BY <2>1, <2>2 DEF Revokes
<1>4. ASSUME NEW q \in Requests, ResetPassword(q) PROVE UNCHANGED history /\ Revokes
  <2>1. session' = RevokeLive(Rows, "password_reset") /\ "password_reset" \in Ending
        /\ Rows \in SUBSET Rows /\ UNCHANGED history
    BY <1>4 DEF ResetPassword, Ending
  <2>2. QED
    BY <2>1 DEF Revokes
<1>5. ASSUME NEW q \in Requests,
             \/ StartLogin(q) \/ Die(q)
             \/ \E s \in Rows : StartRefresh(q, s) \/ StartSwitch(q, s)
             \/ \E t \in Tokens : StartReset(q, t)
      PROVE  UNCHANGED history /\ UNCHANGED <<session, password>>
  BY <1>5 DEF StartLogin, Die, StartRefresh, StartSwitch, StartReset
<1>6. ASSUME (\E t \in Tokens : RequestReset(t)) \/ UNCHANGED vars
      PROVE  UNCHANGED history /\ UNCHANGED <<session, password>>
  BY <1>6 DEF RequestReset, vars
<1>7. QED
  BY <1>1, <1>2, <1>3, <1>4, <1>5, <1>6 DEF Next

(* What a rotation writes, of a session that is live or of one that is not *)
LEMMA Rotated ==
  ASSUME TypeOK, NEW q \in Requests, NEW n \in Rows, Rotate(q, n)
  PROVE  LET s == request[q].row IN
         /\ s \in Rows /\ ~Unused(s) /\ Unused(n) /\ s # n
         /\ session'[n].status = "live" /\ session'[n].family = session[s].family
         /\ session'[n].password = session[s].password
         /\ session'[s].status = "revoked" /\ session'[s].reason = "rotated"
         /\ session'[s].family = session[s].family
         /\ \A r \in Rows \ {s, n} : session'[r] = session[r]
         /\ \A r \in Rows \ {n} : line'[r] = line[r]
         /\ Live(s) => line'[n] = line[s] /\ late' = late
         /\ ~Live(s) => line'[n] = n /\ late' = late \cup {n}
         /\ password' = password
<1> DEFINE s == request[q].row
<1>1. s \in Rows /\ ~Unused(s) /\ Unused(n) /\ s # n /\ request[q].live
      /\ session[s] \in Session /\ session[n] \in Session
  BY DEF Rotate, TypeOK
<1>2. Overtaken(q) <=> ~Live(s)
  BY <1>1 DEF Overtaken
<1>3. /\ \A r \in Rows \ {n} : line'[r] = line[r]
      /\ Live(s) => line'[n] = line[s] /\ late' = late
      /\ ~Live(s) => line'[n] = n /\ late' = late \cup {n}
      /\ password' = password
  BY <1>2 DEF Rotate, TypeOK
<1>4. session' = [session EXCEPT ![s].status = "revoked", ![s].reason = "rotated",
                                 ![n] = New(Family(s), session[s].password)]
  BY DEF Rotate
<1>5. /\ session'[n] = New(Family(s), session[s].password)
      /\ session'[s] = [status |-> "revoked", reason |-> "rotated",
                        family |-> session[s].family, password |-> session[s].password]
      /\ \A r \in Rows \ {s, n} : session'[r] = session[r]
  BY <1>1, <1>4 DEF Session, TypeOK
<1>6. QED
  BY <1>1, <1>3, <1>5 DEF New, Family

-----------------------------------------------------------------------------
(* One session of a line, and none outlives a reset: both are inductive    *)

(* A row that was not used begins no line.                                 *)
LEMMA NoRelatives ==
  ASSUME TypeOK, NEW n \in Rows, Unused(n), NEW r \in Rows, ~Unused(r)
  PROVE  line[r] # n
BY DEF TypeOK

LEMMA RotateAlone ==
  ASSUME TypeOK, OneSessionPerLogin, NEW q \in Requests, NEW n \in Rows, Rotate(q, n),
         NEW t \in Rows, session'[t].status = "live"
  PROVE  /\ line'[t] = session'[t].family \/ line'[t] \in late'
         /\ \A r \in Rows \ {t} : session'[r].status # "none" /\ line'[r] = line'[t] =>
              session'[r].status # "live" /\ session'[r].reason \notin Ending
<1> DEFINE s == request[q].row
<1>1. /\ s \in Rows /\ ~Unused(s) /\ Unused(n) /\ s # n
      /\ session'[n].status = "live" /\ session'[n].family = session[s].family
      /\ session'[s].status = "revoked" /\ session'[s].reason = "rotated"
      /\ \A r \in Rows \ {s, n} : session'[r] = session[r]
      /\ \A r \in Rows \ {n} : line'[r] = line[r]
      /\ Live(s) => line'[n] = line[s] /\ late' = late
      /\ ~Live(s) => line'[n] = n /\ late' = late \cup {n}
  BY Rotated
<1> HIDE DEF s
<1>2. \A r \in Rows \ {n} : session'[r].status # "none" => session[r].status # "none"
  BY <1>1 DEF Unused
<1>3. "rotated" \notin Ending
  BY DEF Ending
<1>4. \A r \in Rows : session[r].status # "none" => line[r] # n
  BY <1>1, NoRelatives DEF Unused
<1>5. \A u \in Rows : session[u].status = "live" =>
        /\ line[u] = session[u].family \/ line[u] \in late
        /\ \A r \in Rows \ {u} : session[r].status # "none" /\ line[r] = line[u] =>
             session[r].status # "live" /\ session[r].reason \notin Ending
  BY DEF OneSessionPerLogin, Live, Unused, Family
<1>6. CASE t = n /\ Live(s)
  <2>1. line'[t] = line[s] /\ session[s].status = "live"
    BY <1>1, <1>6 DEF Live
  <2>2. line'[t] = session'[t].family \/ line'[t] \in late'
    BY <1>1, <1>5, <1>6, <2>1
  <2>3. ASSUME NEW r \in Rows \ {t}, session'[r].status # "none", line'[r] = line'[t]
        PROVE  session'[r].status # "live" /\ session'[r].reason \notin Ending
    <3>1. CASE r = s
      BY <1>1, <1>3, <3>1
    <3>2. CASE r # s
      <4>1. session'[r] = session[r] /\ line[r] = line[s] /\ session[r].status # "none"
        BY <1>1, <1>2, <1>6, <2>1, <2>3, <3>2
      <4>2. QED
        BY <1>1, <1>5, <2>1, <3>2, <4>1
    <3>3. QED
      BY <3>1, <3>2
  <2>4. QED
    BY <2>2, <2>3
<1>7. CASE t = n /\ ~Live(s)
  <2>1. line'[t] = n /\ n \in late'
    BY <1>1, <1>7
  <2>2. \A r \in Rows \ {n} : session'[r].status # "none" => line'[r] # n
    BY <1>1, <1>2, <1>4
  <2>3. QED
    BY <1>7, <2>1, <2>2
<1>8. CASE t # n
  <2>1. t # s /\ session'[t] = session[t] /\ line'[t] = line[t] /\ session[t].status = "live"
    BY <1>1, <1>8
  <2>2. line'[t] = session'[t].family \/ line'[t] \in late'
    BY <1>1, <1>5, <2>1
  <2>3. ASSUME NEW r \in Rows \ {t}, session'[r].status # "none", line'[r] = line'[t]
        PROVE  session'[r].status # "live" /\ session'[r].reason \notin Ending
    <3>1. CASE r = n
      <4>1. CASE Live(s)
        <5>1. line[s] = line[t] /\ session[s].status # "none" /\ session[s].status = "live"
          BY <1>1, <2>1, <2>3, <3>1, <4>1 DEF Unused, Live
        <5>2. QED
          BY <1>1, <1>5, <2>1, <5>1
      <4>2. CASE ~Live(s)
        BY <1>1, <1>4, <2>1, <2>3, <3>1, <4>2
      <4>3. QED
        BY <4>1, <4>2
    <3>2. CASE r = s
      BY <1>1, <1>3, <3>2
    <3>3. CASE r # n /\ r # s
      BY <1>1, <1>5, <2>1, <2>3, <3>3
    <3>4. QED
      BY <3>1, <3>2, <3>3
  <2>4. QED
    BY <2>2, <2>3
<1>9. QED
  BY <1>6, <1>7, <1>8

LEMMA LoginSteps == TypeOK /\ OneSessionPerLogin /\ [Next]_vars => OneSessionPerLogin'
<1> SUFFICES ASSUME TypeOK, OneSessionPerLogin, [Next]_vars PROVE OneSessionPerLogin'
  OBVIOUS
<1>1. CASE UNCHANGED history /\ UNCHANGED session
  BY <1>1 DEF history, OneSessionPerLogin, Live, Unused, Family
<1>2. CASE UNCHANGED history /\ Revokes
  <2>1. PICK rows \in SUBSET Rows, reason \in Ending : session' = RevokeLive(rows, reason)
    BY <1>2 DEF Revokes
  <2>2. line' = line /\ late' = late
    BY <1>2 DEF history
  <2>3. ASSUME NEW s \in Rows, Live(s)'
        PROVE  /\ line[s] = Family(s)' \/ line[s] \in late
               /\ \A r \in Rows \ {s} : ~Unused(r)' /\ line[r] = line[s] =>
                    ~Live(r)' /\ session'[r].reason \notin Ending
    <3>1. Live(s) /\ Family(s)' = Family(s)
      BY <2>1, <2>3, Revoked
    <3>2. ASSUME NEW r \in Rows \ {s}, ~Unused(r)', line[r] = line[s]
          PROVE  ~Live(r)' /\ session'[r].reason \notin Ending
      <4>1. ~Live(r) /\ session[r].reason \notin Ending
        BY <2>1, <3>1, <3>2, Revoked DEF OneSessionPerLogin
      <4>2. QED
        BY <2>1, <4>1, Revoked
    <3>3. QED
      BY <3>1, <3>2 DEF OneSessionPerLogin
  <2>4. QED
    BY <2>2, <2>3 DEF OneSessionPerLogin
<1>3. ASSUME NEW q \in Requests, NEW n \in Rows, OpenSession(q, n) PROVE OneSessionPerLogin'
  <2>1. /\ Unused(n) /\ session'[n].status = "live" /\ session'[n].family = n
        /\ line'[n] = n /\ late \subseteq late'
        /\ \A r \in Rows \ {n} : session'[r] = session[r] /\ line'[r] = line[r]
    BY <1>3 DEF OpenSession, New, TypeOK
  <2>2. \A r \in Rows : ~Unused(r) => line[r] # n
    BY <2>1, NoRelatives
  <2>3. QED
    BY <2>1, <2>2 DEF OneSessionPerLogin, Live, Unused, Family
<1>4. ASSUME NEW q \in Requests, NEW n \in Rows, Rotate(q, n) PROVE OneSessionPerLogin'
  BY <1>4, RotateAlone DEF OneSessionPerLogin, Live, Unused, Family
<1>5. QED
  BY <1>1, <1>2, <1>3, <1>4, RowSteps

(* Whatever requests of a login are in flight together: a line of sessions *)
(* has one that is good at most, and none once it was reused, logged out or*)
(* reset; and a login has another line only when a rotation was overtaken. *)
THEOREM LoginHasOneSession == Spec => []OneSessionPerLogin
<1>1. Init => OneSessionPerLogin
  BY DEF Init, OneSessionPerLogin, Live
<1>2. QED
  BY <1>1, LoginSteps, TypeCorrect, PTL DEF Spec

LEMMA ResetSteps == TypeOK /\ NoSessionOutlivesReset /\ [Next]_vars => NoSessionOutlivesReset'
<1> SUFFICES ASSUME TypeOK, NoSessionOutlivesReset, [Next]_vars PROVE NoSessionOutlivesReset'
  OBVIOUS
<1>1. CASE UNCHANGED history /\ UNCHANGED <<session, password>>
  BY <1>1 DEF history, NoSessionOutlivesReset, Live
<1>2. CASE UNCHANGED history /\ Revokes
  <2>1. PICK rows \in SUBSET Rows, reason \in Ending :
          session' = RevokeLive(rows, reason) /\ (password' = password \/ rows = Rows)
    BY <1>2 DEF Revokes
  <2>2. line' = line /\ late' = late
    BY <1>2 DEF history
  <2>3. ASSUME NEW s \in Rows, Live(s)'
        PROVE  session'[s].password = password' \/ line[s] \in late
    <3>1. Live(s) /\ s \notin rows /\ session'[s] = session[s]
      BY <2>1, <2>3, Revoked
    <3>2. QED
      BY <2>1, <3>1 DEF NoSessionOutlivesReset
  <2>4. QED
    BY <2>2, <2>3 DEF NoSessionOutlivesReset
<1>3. ASSUME NEW q \in Requests, NEW n \in Rows, OpenSession(q, n) PROVE NoSessionOutlivesReset'
  <2>1. /\ session'[n].password = request[q].password /\ password' = password
        /\ line'[n] = n /\ late \subseteq late' /\ (request[q].password # password => n \in late')
        /\ \A r \in Rows \ {n} : session'[r] = session[r] /\ line'[r] = line[r]
    BY <1>3 DEF OpenSession, New, TypeOK
  <2>2. QED
    BY <2>1 DEF NoSessionOutlivesReset, Live
<1>4. ASSUME NEW q \in Requests, NEW n \in Rows, Rotate(q, n) PROVE NoSessionOutlivesReset'
  <2> DEFINE s == request[q].row
  <2>1. /\ s \in Rows /\ s # n
        /\ session'[n].password = session[s].password /\ session'[s].status = "revoked"
        /\ \A r \in Rows \ {s, n} : session'[r] = session[r]
        /\ \A r \in Rows \ {n} : line'[r] = line[r]
        /\ Live(s) => line'[n] = line[s] /\ late' = late
        /\ ~Live(s) => line'[n] = n /\ late' = late \cup {n}
        /\ password' = password
    BY <1>4, Rotated
  <2> HIDE DEF s
  <2>2. QED
    BY <2>1 DEF NoSessionOutlivesReset, Live
<1>5. QED
  BY <1>1, <1>2, <1>3, <1>4, RowSteps

(* No session with a password that was reset is good afterwards, but those *)
(* of a login, a switch or a rotation that had read what the reset changed,*)
(* and what comes from them.                                               *)
THEOREM ResetEndsSessions == Spec => []NoSessionOutlivesReset
<1>1. Init => NoSessionOutlivesReset
  BY DEF Init, NoSessionOutlivesReset, Live
<1>2. QED
  BY <1>1, ResetSteps, TypeCorrect, PTL DEF Spec

(* A session that was revoked is never good again, whatever the requests   *)
(* in flight do: no operation, wanted or late, makes a row live but the    *)
(* one that inserts it.                                                    *)
RevokedStands == [][\A s \in Rows : ~Unused(s) /\ ~Live(s) => ~Live(s)' /\ ~Unused(s)']_vars

THEOREM RevokedIsForGood == Spec => RevokedStands
<1>1. ASSUME TypeOK, [Next]_vars, NEW s \in Rows, ~Unused(s), ~Live(s)
      PROVE  ~Live(s)' /\ ~Unused(s)'
  <2>1. ASSUME NEW rows \in SUBSET Rows, NEW reason \in Ending, session' = RevokeLive(rows, reason)
        PROVE  ~Live(s)' /\ ~Unused(s)'
    BY <1>1, <2>1, Revoked
  <2>2. CASE UNCHANGED session
    BY <1>1, <2>2 DEF Live, Unused
  <2>3. ASSUME NEW q \in Requests, NEW n \in Rows, OpenSession(q, n) PROVE ~Live(s)' /\ ~Unused(s)'
    BY <1>1, <2>3 DEF OpenSession, Live, Unused, TypeOK
  <2>4. ASSUME NEW q \in Requests, NEW n \in Rows, Rotate(q, n) PROVE ~Live(s)' /\ ~Unused(s)'
    <3> DEFINE r == request[q].row
    <3>1. r \in Rows /\ ~Unused(r) /\ r # n /\ s # n /\ session[r] \in Session
      BY <1>1, <2>4 DEF Rotate, TypeOK
    <3>2. session'[r].status = "revoked" /\ (s # r => session'[s] = session[s])
      BY <1>1, <2>4, <3>1 DEF Rotate, TypeOK, Session
    <3>3. QED
      BY <1>1, <3>1, <3>2 DEF Live, Unused
  <2>5. CASE LogoutAll
    BY <2>1, <2>5 DEF LogoutAll, Ending
  <2>6. ASSUME NEW t \in Rows, Logout(t) PROVE ~Live(s)' /\ ~Unused(s)'
    BY <2>1, <2>6 DEF Logout, Ending
  <2>7. ASSUME NEW q \in Requests, RevokeFamily(q) PROVE ~Live(s)' /\ ~Unused(s)'
    <3>1. session' = RevokeLive({t \in Rows : Family(t) = Family(request[q].row)}, "token_reuse_detected")
      BY <2>7 DEF RevokeFamily
    <3>2. QED
      BY <2>1, <3>1 DEF Ending
  <2>8. ASSUME NEW q \in Requests, LeaveOrganization(q) PROVE ~Live(s)' /\ ~Unused(s)'
    <3>1. session' = RevokeLive({request[q].row}, "logout") /\ request[q].row \in Rows
      BY <1>1, <2>8 DEF LeaveOrganization, TypeOK
    <3>2. QED
      BY <2>1, <3>1 DEF Ending
  <2>9. ASSUME NEW q \in Requests, ResetPassword(q) PROVE ~Live(s)' /\ ~Unused(s)'
    BY <2>1, <2>9 DEF ResetPassword, Ending
  <2>10. QED
    BY <1>1, <2>2, <2>3, <2>4, <2>5, <2>6, <2>7, <2>8, <2>9
       DEF Next, vars, StartLogin, StartRefresh, StartSwitch, RequestReset, StartReset, Die
<1>2. TypeOK /\ [Next]_vars => (\A s \in Rows : ~Unused(s) /\ ~Live(s) => ~Live(s)' /\ ~Unused(s)')
  BY <1>1
<1>3. QED
  BY TypeCorrect, <1>2, PTL DEF Spec, RevokedStands

-----------------------------------------------------------------------------
(* The sessions implement Logins *)

LEMMA OneIsGood ==
  ASSUME TypeOK, OneSessionPerLogin, NEW s \in Rows, Live(s)
  PROVE  line[s] \in Rows /\ Good[line[s]] = {s}
<1>1. line[s] \in Rows
  BY DEF TypeOK, Live, Unused
<1>2. \A r \in Rows : Live(r) /\ line[r] = line[s] => r = s
  BY DEF OneSessionPerLogin, Live, Unused
<1>3. QED
  BY <1>1, <1>2 DEF Good

LEMMA NothingEnds ==
  ASSUME UNCHANGED history, UNCHANGED session
  PROVE  UNCHANGED <<Good, Given, late>>
<1>1. line' = line /\ late' = late
  BY DEF history
<1>2. \A s \in Rows : (Live(s)' <=> Live(s)) /\ (Unused(s)' <=> Unused(s))
  BY DEF Live, Unused
<1>3. Good' = Good
  BY <1>1, <1>2 DEF Good
<1>4. QED
  BY <1>1, <1>2, <1>3 DEF Given

LEMMA RevokingEnds ==
  ASSUME TypeOK, OneSessionPerLogin, NEW rows \in SUBSET Rows, NEW reason \in Ending,
         session' = RevokeLive(rows, reason), UNCHANGED history
  PROVE  Login!Next
<1> DEFINE ended == {l \in Rows : \E s \in rows : Live(s) /\ line[s] = l}
<1>0. line' = line /\ late' = late
  BY DEF history
<1>1. Good' = [l \in Rows |-> {s \in Rows : Live(s)' /\ line[s] = l}]
  BY <1>0 DEF Good
<1>2. ASSUME NEW l \in Rows, l \in ended PROVE Good'[l] = {}
  <2>1. PICK s \in rows : Live(s) /\ line[s] = l
    BY <1>2
  <2>2. \A r \in Rows : Live(r) /\ line[r] = l => r = s
    <3>1. Good[l] = {s}
      BY <2>1, OneIsGood
    <3>2. QED
      BY <3>1 DEF Good
  <2>3. ASSUME NEW r \in Rows, Live(r)', line[r] = l PROVE FALSE
    <3>1. Live(r)
      BY <2>3, Revoked
    <3>2. r = s /\ ~Live(s)'
      BY <2>1, <2>2, <2>3, <3>1, Revoked
    <3>3. QED
      BY <2>3, <3>2
  <2>4. QED
    BY <1>1, <2>3
<1>3. ASSUME NEW l \in Rows, l \notin ended PROVE Good'[l] = Good[l]
  <2>1. \A s \in Rows : Live(s) /\ line[s] = l => s \notin rows
    BY <1>3
  <2>2. \A s \in Rows : Live(s)' => Live(s)
    BY Revoked
  <2>3. ASSUME NEW s \in Rows, Live(s), line[s] = l PROVE Live(s)'
    <3>1. session'[s] = session[s]
      BY <2>1, <2>3, Revoked
    <3>2. QED
      BY <2>3, <3>1 DEF Live
  <2>4. QED
    BY <1>1, <2>2, <2>3 DEF Good
<1>4. Good' = [l \in Rows |-> IF l \in ended THEN {} ELSE Good[l]]
  BY <1>1, <1>2, <1>3
<1>5. UNCHANGED Given
  BY Revoked DEF Given
<1>6. ended \in SUBSET Rows
  OBVIOUS
<1>7. Login!End(ended)
  BY <1>0, <1>4, <1>5 DEF Login!End
<1>8. QED
  BY <1>6, <1>7 DEF Login!Next

(* A row that begins a line of its own                                     *)
LEMMA Beginning ==
  ASSUME TypeOK, NEW n \in Rows, Unused(n), session'[n].status = "live", line'[n] = n,
         \A r \in Rows \ {n} : Live(r)' <=> Live(r),
         \A r \in Rows \ {n} : Unused(r)' <=> Unused(r),
         \A r \in Rows \ {n} : line'[r] = line[r],
         late' \in {late, late \cup {n}}
  PROVE  Login!Next
<1>1. \A r \in Rows : Live(r) => r # n /\ line[r] # n
  BY NoRelatives DEF Live, Unused
<1>2. \A l \in Rows, r \in Rows : Live(r)' /\ line'[r] = l <=>
         IF l = n THEN r = n ELSE Live(r) /\ line[r] = l
  BY <1>1 DEF Live
<1>3. Good' = [l \in Rows |-> {r \in Rows : Live(r)' /\ line'[r] = l}]
  BY DEF Good
<1>4. Good' = [Good EXCEPT ![n] = {n}]
  <2>1. \A l \in Rows : Good'[l] = IF l = n THEN {n} ELSE Good[l]
    BY <1>2, <1>3 DEF Good
  <2>2. Good = [l \in Rows |-> Good[l]]
    BY DEF Good
  <2>3. Good' = [l \in Rows |-> Good'[l]]
    BY <1>3
  <2>4. QED
    BY <2>1, <2>2, <2>3
<1>5. n \notin Given /\ Given' = Given \cup {n}
  BY DEF Given, Unused
<1>6. Login!Begin(n)
  BY <1>4, <1>5 DEF Login!Begin
<1>7. QED
  BY <1>6 DEF Login!Next

LEMMA OpeningBegins ==
  ASSUME TypeOK, NEW q \in Requests, NEW n \in Rows, OpenSession(q, n)
  PROVE  Login!Next
<1>1. /\ Unused(n) /\ session'[n].status = "live" /\ line'[n] = n
      /\ \A r \in Rows \ {n} : session'[r] = session[r] /\ line'[r] = line[r]
      /\ late' \in {late, late \cup {n}}
  BY DEF OpenSession, New, TypeOK
<1>2. QED
  BY <1>1, Beginning DEF Live, Unused

LEMMA RotatingRenews ==
  ASSUME TypeOK, OneSessionPerLogin, NEW q \in Requests, NEW n \in Rows, Rotate(q, n)
  PROVE  Login!Next
<1> DEFINE s == request[q].row
<1>1. /\ s \in Rows /\ ~Unused(s) /\ Unused(n) /\ s # n
      /\ session'[n].status = "live" /\ session'[s].status = "revoked"
      /\ \A r \in Rows \ {s, n} : session'[r] = session[r]
      /\ \A r \in Rows \ {n} : line'[r] = line[r]
      /\ Live(s) => line'[n] = line[s] /\ late' = late
      /\ ~Live(s) => line'[n] = n /\ late' = late \cup {n}
  BY Rotated
<1> HIDE DEF s
<1>2. CASE ~Live(s)
  <2>1. session'[s].status \notin {"live", "none"}
    BY <1>1
  <2>2. \A r \in Rows \ {n} : (Live(r)' <=> Live(r)) /\ (Unused(r)' <=> Unused(r))
    BY <1>1, <1>2, <2>1 DEF Live, Unused
  <2>3. QED
    BY <1>1, <1>2, <2>2, Beginning
<1>3. CASE Live(s)
  <2> DEFINE l == line[s]
  <2>1. l \in Rows /\ Good[l] = {s} /\ s \in Given
    BY <1>1, <1>3, OneIsGood DEF Given
  <2>2. \A r \in Rows \ {s} : Live(r) => line[r] # l
    BY <1>1, <2>1 DEF Good
  <2>3. \A k \in Rows, r \in Rows : Live(r)' /\ line'[r] = k <=>
           IF k = l THEN r = n ELSE Live(r) /\ line[r] = k
    <3>1. ASSUME NEW k \in Rows, NEW r \in Rows \ {s, n}
          PROVE  session'[r].status = "live" /\ line'[r] = k <=>
                    IF k = l THEN r = n ELSE Live(r) /\ line[r] = k
      BY <1>1, <2>2 DEF Live
    <3>2. ASSUME NEW k \in Rows
          PROVE  session'[s].status = "live" /\ line'[s] = k <=>
                    IF k = l THEN s = n ELSE Live(s) /\ line[s] = k
      BY <1>1
    <3>3. ASSUME NEW k \in Rows
          PROVE  session'[n].status = "live" /\ line'[n] = k <=>
                    IF k = l THEN n = n ELSE Live(n) /\ line[n] = k
      BY <1>1, <1>3 DEF Live, Unused
    <3>4. QED
      BY <3>1, <3>2, <3>3 DEF Live
  <2>4. Good' = [k \in Rows |-> {r \in Rows : Live(r)' /\ line'[r] = k}]
    BY DEF Good
  <2>5. Good' = [Good EXCEPT ![l] = {n}]
    <3>1. ASSUME NEW k \in Rows PROVE Good'[k] = IF k = l THEN {n} ELSE Good[k]
      <4>1. Good'[k] = {r \in Rows : IF k = l THEN r = n ELSE Live(r) /\ line[r] = k}
        BY <2>3, <2>4
      <4>2. QED
        BY <4>1 DEF Good
    <3>2. QED
      BY <2>4, <3>1 DEF Good
  <2>6. n \notin Given /\ Given' = Given \cup {n}
    BY <1>1 DEF Given, Unused
  <2>7. Login!Renew(l, n)
    BY <1>1, <1>3, <2>1, <2>5, <2>6 DEF Login!Renew
  <2>8. QED
    BY <2>1, <2>7 DEF Login!Next
<1>4. QED
  BY <1>2, <1>3

LEMMA LoginsStep ==
  ASSUME TypeOK, OneSessionPerLogin, [Next]_vars
  PROVE  [Login!Next]_(<<Good, Given, late>>)
<1>1. CASE UNCHANGED history /\ UNCHANGED session
  BY <1>1, NothingEnds
<1>2. CASE UNCHANGED history /\ Revokes
  <2>1. PICK rows \in SUBSET Rows, reason \in Ending : session' = RevokeLive(rows, reason)
    BY <1>2 DEF Revokes
  <2>2. QED
    BY <1>2, <2>1, RevokingEnds
<1>3. ASSUME NEW q \in Requests, NEW s \in Rows, OpenSession(q, s) \/ Rotate(q, s)
      PROVE  Login!Next
  BY <1>3, OpeningBegins, RotatingRenews
<1>4. QED
  BY <1>1, <1>2, <1>3, RowSteps

(* All a refresh, a logout, a reused token, a change of organization or a  *)
(* reset does to the tokens of a line, whatever else is in flight, is to   *)
(* exchange its one good token for a new one, or to leave it without one   *)
(* for good; and only a request that was overtaken begins a late line.     *)
THEOREM SessionsImplementLogins == Spec => ImplementsLogins
<1>1. Init => Login!Init
  BY DEF Init, Login!Init, Good, Given, Live, Unused
<1>2. TypeOK /\ OneSessionPerLogin /\ [Next]_vars => [Login!Next]_(<<Good, Given, late>>)
  BY LoginsStep
<1>3. QED
  BY <1>1, <1>2, TypeCorrect, LoginHasOneSession, PTL DEF Spec, ImplementsLogins, Login!Spec

=============================================================================
