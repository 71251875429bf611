------------------------------ MODULE Sessions ------------------------------
(***************************************************************************)
(* The refresh sessions of one account: login, rotation, logout, switching *)
(* the organization and the reset of the password (modules/auth/service.js)*)
(*                                                                         *)
(* A session is a row with the hash of its refresh token; rotating it adds *)
(* a row of the same family.  Requests read first and write afterwards; a  *)
(* request is in flight in between.  A token, a session or a link past its *)
(* expiry is refused without any change, so expiry takes no step here.     *)
(***************************************************************************)
EXTENDS Integers

CONSTANTS
  Rows,      \* rows of the table sessions (bound)
  Requests,  \* requests that may be in flight together (bound)
  Tokens,    \* password_reset_tokens (bound)
  None       \* no row, no token, an SQL NULL

ASSUME SessionsAssumption == None \notin Rows \cup Tokens

VARIABLES
  session,   \* the rows
  password,  \* how often the password was changed
  token,     \* the links to reset it
  request,   \* what each request in flight has read
  (* Where sessions come from, for the properties: a line of sessions is    *)
  (* begun by a login, and by a rotation that was overtaken.                *)
  line,      \* the session that began the line of each session
  late       \* the lines begun after what the request had read was over

history == <<line, late>>
vars == <<session, password, token, request, history>>

(* revoked_reason: "logout" is also what revokeSession and logout_all give *)
Ending == {"token_reuse_detected", "logout", "password_reset"}
Reason == {"none", "rotated"} \cup Ending
Session == [status : {"none", "live", "revoked"}, reason : Reason, family : Rows \cup {None},
            password : Nat]  \* the password its login was made with

(* refresh is about to rotate, reuse about to revoke the family, login and *)
(* switched about to open a session, switch about to log out, reset about  *)
(* to set the password.                                                    *)
Opening == {"refresh", "login", "switch", "switched"}
Request == [op : {"idle", "reuse", "reset"} \cup Opening, row : Rows \cup {None},
            live : BOOLEAN, password : Nat, token : Tokens \cup {None}]
Idle == [op |-> "idle", row |-> None, live |-> FALSE, password |-> 0, token |-> None]

Init ==
  /\ session = [s \in Rows |-> [status |-> "none", reason |-> "none", family |-> None, password |-> 0]]
  /\ password = 0
  /\ token = [t \in Tokens |-> "none"]
  /\ request = [q \in Requests |-> Idle]
  /\ line = [s \in Rows |-> None] /\ late = {}

Live(s) == session[s].status = "live"
Family(s) == session[s].family

-----------------------------------------------------------------------------
(* What is written *)

RevokeEvery(rows, reason) ==  \* mutant
  [s \in Rows |-> IF s \in rows THEN [session[s] EXCEPT !.status = "revoked", !.reason = reason]
                                ELSE session[s]]
RevokeLive(rows, reason) ==
  [s \in Rows |-> IF s \in rows /\ Live(s)
                    THEN [session[s] EXCEPT !.status = "revoked", !.reason = reason]
                    ELSE session[s]]

New(family, pw) == [status |-> "live", reason |-> "none", family |-> family, password |-> pw]
Unused(s) == session[s].status = "none"

Start(q, op, s, pw, t) ==
  /\ request[q].op = "idle"
  /\ request' = [request EXCEPT ![q] = [op |-> op, row |-> s, live |-> s # None /\ Live(s),
                                        password |-> pw, token |-> t]]
Done(q) == request' = [request EXCEPT ![q] = Idle]

-----------------------------------------------------------------------------
(* login: the password is compared with the user as read *)

StartLogin(q) ==
  /\ Start(q, "login", None, password, None)
  /\ UNCHANGED <<session, password, token, history>>

(* createSession, for login and for switchOrganization: a family of its own*)
OpenSession(q, s) ==
  /\ request[q].op \in {"login", "switched"} /\ Unused(s)
  /\ session' = [session EXCEPT ![s] = New(s, request[q].password)]
  /\ Done(q)
  /\ line' = [line EXCEPT ![s] = s]
  /\ late' = IF request[q].password = password THEN late ELSE late \cup {s}
  /\ UNCHANGED <<password, token>>

(* refresh: an unknown token is refused                                    *)
AlwaysFresh(s) == ~Unused(s)  \* mutant
Reusable(s) == Live(s)

StartRefresh(q, s) ==
  /\ ~Unused(s)
  /\ Start(q, IF Reusable(s) THEN "refresh" ELSE "reuse", s, 0, None)
  /\ UNCHANGED <<session, password, token, history>>

(* The rotation looks at the session no more, and overwrites its reason.   *)
(* It was overtaken when the session was live as it was read, and is not.  *)
Overtaken(q) == request[q].live /\ ~Live(request[q].row)
Rotate(q, n) ==
  LET s == request[q].row IN
  /\ request[q].op = "refresh" /\ Unused(n)
  /\ session' = [session EXCEPT ![s].status = "revoked", ![s].reason = "rotated",
                                ![n] = New(Family(s), session[s].password)]
  /\ Done(q)
  /\ line' = [line EXCEPT ![n] = IF Overtaken(q) THEN n ELSE line[s]]
  /\ late' = IF Overtaken(q) THEN late \cup {n} ELSE late
  /\ UNCHANGED <<password, token>>

RevokeFamily(q) ==
  LET family == Family(request[q].row) IN
  /\ request[q].op = "reuse"
  /\ session' = RevokeLive({s \in Rows : Family(s) = family}, "token_reuse_detected")
  /\ Done(q)
  /\ UNCHANGED <<password, token, history>>

-----------------------------------------------------------------------------
(* logout and revokeSession, of a session that was live when the request   *)
(* was authenticated; and logout from all devices                          *)

Logout(s) ==
  /\ Live(s)
  /\ session' = RevokeLive({s}, "logout")
  /\ UNCHANGED <<password, token, request, history>>

LogoutAll ==
  /\ \E s \in Rows : Live(s)
  /\ session' = RevokeLive(Rows, "logout")
  /\ UNCHANGED <<password, token, request, history>>

(* switchOrganization: the request is authenticated, logs its session out, *)
(* and opens one for the other organization.                               *)
StartSwitch(q, s) ==
  /\ Live(s)
  /\ Start(q, "switch", s, session[s].password, None)
  /\ UNCHANGED <<session, password, token, history>>

LeaveOrganization(q) ==
  LET s == request[q].row IN
  /\ request[q].op = "switch"
  /\ session' = RevokeLive({s}, "logout")
  /\ request' = [request EXCEPT ![q].op = "switched"]
  /\ UNCHANGED <<password, token, history>>

-----------------------------------------------------------------------------
(* Reset of the password *)

RequestReset(t) ==
  /\ token[t] = "none"
  /\ token' = [token EXCEPT ![t] = "sent"]
  /\ UNCHANGED <<session, password, request, history>>

StartReset(q, t) ==
  /\ token[t] = "sent"
  /\ Start(q, "reset", None, 0, t)
  /\ UNCHANGED <<session, password, token, history>>

ResetPasswordOnly(q) ==  \* mutant
  /\ request[q].op = "reset"
  /\ password' = password + 1
  /\ token' = [token EXCEPT ![request[q].token] = "used"]
  /\ Done(q)
  /\ UNCHANGED <<session, history>>
ResetPassword(q) ==
  /\ request[q].op = "reset"
  /\ password' = password + 1
  /\ token' = [token EXCEPT ![request[q].token] = "used"]
  /\ session' = RevokeLive(Rows, "password_reset")
  /\ Done(q)
  /\ UNCHANGED history

(* A statement throws, or the function dies: what was written stays, and   *)
(* the rest of the request is not done.                                    *)
Die(q) ==
  /\ request[q].op # "idle"
  /\ Done(q)
  /\ UNCHANGED <<session, password, token, history>>

Next ==
  \/ \E q \in Requests :
       \/ StartLogin(q) \/ RevokeFamily(q) \/ LeaveOrganization(q) \/ ResetPassword(q) \/ Die(q)
       \/ \E s \in Rows : OpenSession(q, s) \/ StartRefresh(q, s) \/ Rotate(q, s) \/ StartSwitch(q, s)
       \/ \E t \in Tokens : StartReset(q, t)
  \/ \E s \in Rows : Logout(s)
  \/ LogoutAll
  \/ \E t \in Tokens : RequestReset(t)

Spec == Init /\ [][Next]_vars

-----------------------------------------------------------------------------
(* Properties *)

(* Types of the rows and requests; a row that is used has a family that is *)
(* a used row, and a request to refresh or switch has read a used row.     *)
TypeOK ==
  /\ session \in [Rows -> Session]
  /\ password \in Nat
  /\ token \in [Tokens -> {"none", "sent", "used"}]
  /\ request \in [Requests -> Request]
  /\ \A s \in Rows : ~Unused(s) => Family(s) \in Rows /\ ~Unused(Family(s))
  /\ line \in [Rows -> Rows \cup {None}] /\ late \in SUBSET Rows
  /\ \A s \in Rows : ~Unused(s) => line[s] \in Rows /\ ~Unused(line[s])
  /\ \A s \in Rows : Live(s) <=> ~Unused(s) /\ session[s].reason = "none"
  /\ \A q \in Requests :
       /\ request[q].op \in {"refresh", "reuse", "switch"} => request[q].row \in Rows /\ ~Unused(request[q].row)
       /\ request[q].op = "refresh" => request[q].live
       /\ request[q].op = "reset" => request[q].token \in Tokens /\ token[request[q].token] # "none"

(* operations.md:56, "Reusing a revoked refresh token revokes the whole    *)
(* family": a login that was ended by a reused token, a logout or a reset  *)
(* has no session left and never gets one again, and one that was not has  *)
(* one session at most, so that its token is the only one that is good.    *)
(* Only a rotation whose session was revoked after it was read gives the   *)
(* login another line of sessions, which then has one session at most.     *)
OneSessionPerLogin ==
  \A s \in Rows : Live(s) =>
    /\ line[s] = Family(s) \/ line[s] \in late
    /\ \A r \in Rows \ {s} : ~Unused(r) /\ line[r] = line[s] =>
         ~Live(r) /\ session[r].reason \notin Ending

(* Nobody is logged in with a password that was reset meanwhile, whatever  *)
(* sessions were rotated, or opened in another organization, before, but by*)
(* a request that had read what the reset changed and wrote after it, or   *)
(* from such a session.                                                    *)
NoSessionOutlivesReset ==
  \A s \in Rows : Live(s) => session[s].password = password \/ line[s] \in late

(* The sessions implement Logins, requests in flight together included:    *)
(* each step begins a line, exchanges its one good token for another, ends *)
(* lines, or does none of this; and only a request that was overtaken      *)
(* begins a late one.                                                      *)
Good == [l \in Rows |-> {s \in Rows : Live(s) /\ line[s] = l}]
Given == {s \in Rows : ~Unused(s)}
Login == INSTANCE Logins WITH Tokens <- Rows, good <- Good, given <- Given
ImplementsLogins == Login!Spec

=============================================================================
