----------------------------- MODULE Credentials -----------------------------
(***************************************************************************)
(* The password of a user and what hangs from it: sessions                 *)
(* (auth/security.py), logins with their locks by user and by address      *)
(* (routers/auth.py, auth/lockout.py, auth/ip_throttle.py), and the links  *)
(* to reset it (services/password_reset.py, services/admin_reset.py,       *)
(* routers/users.py).                                                      *)
(*                                                                         *)
(* Passwords are numbered in the order they are set.  A request is a chain *)
(* of steps, one for each commit or each call of the throttle store;       *)
(* unless serial, those of other requests come in between.  The store may  *)
(* be switched off, and a call of it may fail.                             *)
(***************************************************************************)
EXTENDS Naturals, FiniteSets

CONSTANTS
  Workers,             \* the threads that serve requests
  MAX_FAILED_LOGINS,   \* above 0
  MaxRequests          \* bound: requests served in all

LOCKOUT_DURATION_MINUTES == 15
LOCKOUT_MAX_MINUTES == 24 * 60

\* Any password that was never set.
Wrong == 0
MaxTime == 2 * MaxRequests + 1

VARIABLES
  serial,    \* requests are served one at a time
  now,       \* the clock: readings so far
  user,      \* table users: password, when it was set, count of failures, minutes locked, active
  set_so_far,\* passwords set so far
  sessions,  \* tokens that have been issued: when, and the password that opened each
  links,     \* table password_reset_tokens: rows [id, used, expired]
  ip,        \* the throttle store: count of failures, minutes locked
  req,       \* what each worker is doing
  requests,  \* requests begun so far
  failed,    \* history: failed logins of user and address since the counters of each were cleared
  confirmed  \* history: confirmed[i], the passwords set with link i

vars == <<serial, now, user, set_so_far, sessions, links, ip, req, requests,
          failed, confirmed>>

Idle == [op |-> "none", seen |-> [password |-> 0, changed |-> 0, count |-> 0, locked |-> 0,
                                  active |-> TRUE],
         at |-> 0, password |-> 0, link |-> 0]

Minutes == 0 .. LOCKOUT_MAX_MINUTES

TypeOK ==
  /\ now \in 0 .. MaxTime
  /\ user.password \in 1 .. set_so_far /\ user.changed \in 0 .. now
  /\ user.count \in 0 .. MaxRequests /\ user.locked \in Minutes /\ user.active \in BOOLEAN
  /\ \A s \in sessions : s.issued_at \in 1 .. now /\ s.password \in 1 .. set_so_far
  /\ \A l \in links : l.id \in 1 .. MaxRequests /\ l.used \in BOOLEAN /\ l.expired \in BOOLEAN
  /\ ip.count \in 0 .. MaxRequests /\ ip.locked \in Minutes

\* create_user has set the first password.
Init ==
  /\ serial \in BOOLEAN
  /\ now = 0 /\ set_so_far = 1
  /\ user = [password |-> 1, changed |-> 0, count |-> 0, locked |-> 0, active |-> TRUE]
  /\ sessions = {} /\ links = {}
  /\ ip = [count |-> 0, locked |-> 0]
  /\ req = [w \in Workers |-> Idle] /\ requests = 0
  /\ failed = [user |-> 0, ip |-> 0]
  /\ confirmed = [i \in 1 .. MaxRequests |-> 0]

Does(w, op) == req[w].op = op
Becomes(w, r) == req' = [req EXCEPT ![w] = r]
Goes(w, op) == Becomes(w, [req[w] EXCEPT !.op = op])
Ends(w) == Becomes(w, Idle)
Reads(w) == now' = now + 1

Serve(w) ==
  /\ req[w] = Idle /\ requests < MaxRequests
  /\ serial => \A v \in Workers : req[v] = Idle
  /\ requests' = requests + 1

\* lockout.py, and _lock_seconds: 15 minutes, doubled every round, for a day at most.
Lock(count) ==
  LET minutes == LOCKOUT_DURATION_MINUTES * 2 ^ ((count \div MAX_FAILED_LOGINS) - 1)
  IN IF minutes < LOCKOUT_MAX_MINUTES THEN minutes ELSE LOCKOUT_MAX_MINUTES

Locks(count) == count % MAX_FAILED_LOGINS = 0

-----------------------------------------------------------------------------
(* Login.                                                                  *)
\* is_ip_locked: nobody is, if the throttle is off or its store does not answer.
IpMayPass(asked) == asked => ip.locked = 0

\* The locks are looked at and the password is compared with the row as it is now.
BeginLogin(w, password, asked) ==
  /\ Serve(w)
  /\ IpMayPass(asked)
  /\ IF user.locked # 0 THEN UNCHANGED req
     ELSE IF password # user.password
     THEN Becomes(w, [Idle EXCEPT !.op = "fail", !.seen = user])
     ELSE IF user.active
     THEN Becomes(w, [Idle EXCEPT !.op = "welcome", !.seen = user, !.password = password])
     ELSE UNCHANGED req
  /\ UNCHANGED <<serial, now, user, set_so_far, sessions, links, ip, failed, confirmed>>

\* An address that tries a user who does not exist.
LoginUnknown(w, asked) ==
  /\ Serve(w)
  /\ IpMayPass(asked)
  /\ Becomes(w, [Idle EXCEPT !.op = "ip_failure"])
  /\ UNCHANGED <<serial, now, user, set_so_far, sessions, links, ip, failed, confirmed>>

\* register_failed_attempt
RegisterFailure(w) ==
  LET count == req[w].seen.count + 1
  IN
  /\ Does(w, "fail")
  /\ user' = [user EXCEPT !.count = count, !.locked = IF Locks(count) THEN Lock(count) ELSE @]
  /\ failed' = [failed EXCEPT !.user = @ + 1]
  /\ Goes(w, "ip_failure")
  /\ UNCHANGED <<serial, now, set_so_far, sessions, links, ip, requests, confirmed>>

\* register_ip_failure: the store increments at once, and locks in a call of its own.  It
\* counts nothing if the throttle is off or the call fails; a call that fails may have counted.
RegisterIpFailure(w, counted, answered) ==
  /\ Does(w, "ip_failure")
  /\ ip' = IF counted THEN [ip EXCEPT !.count = @ + 1] ELSE ip
  /\ failed' = [failed EXCEPT !.ip = @ + 1]
  /\ IF counted /\ answered /\ Locks(ip.count + 1) THEN Becomes(w, [Idle EXCEPT !.op = "ip_lock", !.at = ip.count + 1])
     ELSE Ends(w)
  /\ UNCHANGED <<serial, now, user, set_so_far, sessions, links, requests, confirmed>>

LockIp(w, answered) ==
  /\ Does(w, "ip_lock")
  /\ ip' = IF answered THEN [ip EXCEPT !.locked = Lock(req[w].at)] ELSE ip
  /\ Ends(w)
  /\ UNCHANGED <<serial, now, user, set_so_far, sessions, links, requests, failed, confirmed>>

\* clear_lockout: nothing is written if there was nothing to clear.
Cleared(seen) ==
  IF seen.count = 0 /\ seen.locked = 0 THEN user
  ELSE [user EXCEPT !.count = IF seen.count = 0 THEN @ ELSE 0,
                    !.locked = IF seen.locked = 0 THEN @ ELSE 0]

ClearLockout(w) ==
  /\ Does(w, "welcome")
  /\ user' = Cleared(req[w].seen)
  /\ failed' = [failed EXCEPT !.user = 0]
  /\ Goes(w, "clear_ip")
  /\ UNCHANGED <<serial, now, set_so_far, sessions, links, ip, requests, confirmed>>

\* clear_ip, on or off: a call that fails clears nothing.
ClearIp(w, answered) ==
  /\ Does(w, "clear_ip")
  /\ ip' = IF answered THEN [count |-> 0, locked |-> 0] ELSE ip
  /\ failed' = IF answered THEN [failed EXCEPT !.ip = 0] ELSE failed
  /\ Goes(w, "issue")
  /\ UNCHANGED <<serial, now, user, set_so_far, sessions, links, requests, confirmed>>

\* create_access_token, for the user whose password was compared at the start.
IssueToken(w) ==
  /\ Does(w, "issue")
  /\ Reads(w)
  /\ sessions' = sessions \union {[issued_at |-> now + 1, password |-> req[w].password]}
  /\ Ends(w)
  /\ UNCHANGED <<serial, user, set_so_far, links, ip, requests, failed, confirmed>>

-----------------------------------------------------------------------------
(* Setting the password.  set_password reads the clock when it is called;  *)
(* the row is written by the commit.                                       *)
is_session_current(s) == s.issued_at >= user.changed

\* issue_temporary_password clears, in the same commit, the lock of the row it loaded.
RowToWrite(w) == IF Does(w, "temporary") THEN Cleared(req[w].seen) ELSE user

WritePassword(w) ==
  user' = [RowToWrite(w) EXCEPT !.password = set_so_far + 1, !.changed = req[w].at]

\* Mutant: the links there are stay live.
StayLive == links

Revoked == {[l EXCEPT !.used = TRUE] : l \in links}

\* set_password, called for the reason op.
BeginSet(w, op, link) ==
  /\ Serve(w)
  /\ Reads(w)
  /\ Becomes(w, [Idle EXCEPT !.op = op, !.seen = user, !.at = now + 1, !.link = link])
  /\ UNCHANGED <<serial, user, set_so_far, sessions, links, ip, failed, confirmed>>

\* change_my_password, by someone with a session who knows the password.
ChangeMyPassword(w) ==
  /\ user.active
  /\ \E s \in sessions : is_session_current(s) /\ s.password = user.password
  /\ BeginSet(w, "change", 0)

\* confirm_password_reset
ConfirmReset(w, l) ==
  /\ ~l.used /\ ~l.expired /\ user.active
  /\ BeginSet(w, "confirm", l.id)

\* An admin sets a temporary password, or one of choice with update_user.
AdminResetsPassword(w) == BeginSet(w, "temporary", 0)
AdminSetsPassword(w) == BeginSet(w, "admin", 0)

\* The commit; all but update_user retire the reset links of the user.
CommitPassword(w) ==
  LET r == req[w]
  IN
  /\ r.op \in {"change", "confirm", "temporary", "admin"}
  /\ WritePassword(w)
  /\ set_so_far' = set_so_far + 1
  /\ links' = IF r.op = "admin" THEN links ELSE Revoked
  /\ confirmed' = IF r.op = "confirm" THEN [confirmed EXCEPT ![r.link] = @ + 1] ELSE confirmed
  /\ failed' = IF r.op = "temporary" THEN [failed EXCEPT !.user = 0] ELSE failed
  /\ CASE r.op = "change" -> Becomes(w, [r EXCEPT !.op = "issue", !.password = set_so_far + 1])
       [] r.op = "confirm" -> Goes(w, "unlock")
       [] OTHER -> Ends(w)
  /\ UNCHANGED <<serial, now, sessions, ip, requests>>

\* confirm_password_reset clears the lock of the row as it is after the commit, in another.
Unlock(w) ==
  /\ Does(w, "unlock")
  /\ user' = Cleared(user)
  /\ failed' = [failed EXCEPT !.user = 0]
  /\ Ends(w)
  /\ UNCHANGED <<serial, now, set_so_far, sessions, links, ip, requests, confirmed>>

\* _create_reset_token retires the links there are and adds one.  It holds none of
\* their locks when there are none.  A user who asks must be active; an admin may send
\* a link to any.
RequestReset(w) ==
  /\ Serve(w)
  /\ Becomes(w, [Idle EXCEPT !.op = "link"])
  /\ UNCHANGED <<serial, now, user, set_so_far, sessions, links, ip, failed, confirmed>>

CommitLink(w) ==
  /\ Does(w, "link")
  /\ links' = Revoked
              \union {[id |-> Cardinality(links) + 1, used |-> FALSE, expired |-> FALSE]}
  /\ Ends(w)
  /\ UNCHANGED <<serial, now, user, set_so_far, sessions, ip, requests, failed, confirmed>>

-----------------------------------------------------------------------------
(* An admin deactivates the user or takes the deactivation back; time      *)
(* passes.                                                                 *)
SetActive ==
  /\ \A w \in Workers : req[w] = Idle
  /\ user' = [user EXCEPT !.active = ~@]
  /\ UNCHANGED <<serial, now, set_so_far, sessions, links, ip, req, requests, failed, confirmed>>

LocksEnd ==
  /\ \/ user.locked # 0 /\ user' = [user EXCEPT !.locked = 0] /\ UNCHANGED ip
     \/ ip.locked # 0 /\ ip' = [ip EXCEPT !.locked = 0] /\ UNCHANGED user
  /\ UNCHANGED <<serial, now, set_so_far, sessions, links, req, requests, failed, confirmed>>

\* The counter expires a day after the last failure; a process without Redis that restarts
\* forgets the lock as well.
IpForgotten(locked) ==
  /\ ip.count # 0 /\ locked \in {0, ip.locked}
  /\ ip' = [count |-> 0, locked |-> locked]
  /\ UNCHANGED <<serial, now, user, set_so_far, sessions, links, req, requests, failed, confirmed>>

LinkExpires(l) ==
  /\ ~l.expired
  /\ links' = (links \ {l}) \union {[l EXCEPT !.expired = TRUE]}
  /\ UNCHANGED <<serial, now, user, set_so_far, sessions, ip, req, requests, failed, confirmed>>

Next ==
  \/ \E w \in Workers :
       \/ \E yes \in BOOLEAN :
            \/ \E p \in {Wrong} \union 1 .. set_so_far : BeginLogin(w, p, yes)
            \/ LoginUnknown(w, yes) \/ LockIp(w, yes) \/ ClearIp(w, yes)
            \/ \E counted \in BOOLEAN : RegisterIpFailure(w, counted, yes)
       \/ RegisterFailure(w) \/ ClearLockout(w) \/ IssueToken(w)
       \/ ChangeMyPassword(w) \/ AdminResetsPassword(w) \/ AdminSetsPassword(w)
       \/ \E l \in links : ConfirmReset(w, l)
       \/ CommitPassword(w) \/ Unlock(w) \/ RequestReset(w) \/ CommitLink(w)
  \/ SetActive \/ LocksEnd \/ IpForgotten(0) \/ IpForgotten(ip.locked)
  \/ \E l \in links : LinkExpires(l)

Spec == Init /\ [][Next]_vars

-----------------------------------------------------------------------------
Live == {l \in links : ~l.used /\ ~l.expired}

\* security.py, set_password: "end every session opened with the previous one".  Served
\* one at a time, only sessions opened with the password of the user are accepted.
SessionsEnd == serial => \A s \in sessions : is_session_current(s) => s.password = user.password

\* Served one at a time, a link sets one password, and there is one live link at most.
LinksSetOnce ==
  serial => Cardinality(Live) <= 1 /\ \A i \in DOMAIN confirmed : confirmed[i] <= 1

\* Served one at a time, the failures of the user are counted one by one from the last
\* success or reset, and a lock is earned: nobody and no address is locked out without as
\* many failures since, whatever the throttle store misses, keeps or forgets.
FailuresCounted ==
  serial =>
    /\ user.count = failed.user
    /\ user.locked # 0 => failed.user >= MAX_FAILED_LOGINS
    /\ ip.locked # 0 => failed.ip >= MAX_FAILED_LOGINS

CredentialsAgree == TypeOK /\ SessionsEnd /\ LinksSetOnce /\ FailuresCounted
=============================================================================
