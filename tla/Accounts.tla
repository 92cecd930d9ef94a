------------------------------ MODULE Accounts ------------------------------
(***************************************************************************)
(* Office users, their sessions in Redis, password links, the guards every *)
(* office request passes, and the browser tab that believes somebody is    *)
(* signed in.                                                              *)
(*                                                                         *)
(* A session carries a copy of what its user may do.  Every request is     *)
(* split where the code awaits Redis or the database: a session is read    *)
(* with a GET and written back with a SET, a row is read, and later        *)
(* written, and the sessions are revoked after the row has committed.      *)
(***************************************************************************)
EXTENDS Integers, FiniteSets, Functions, TLC

CONSTANTS
    Users, Orgs, OrgOf,  \* office users and the organization each belongs to
    Bootstrap,           \* the organization served outside any tenant scope
    Sids, Links,         \* session ids and password links there will ever be
    Grant,               \* what a user may do to begin with: [role, refunds, employee]
    Patches,             \* changes of it an owner may ask for
    Invited,             \* users who have no account yet
    Calls,               \* requests in flight
    MaxFailed,           \* MAX_FAILED_ATTEMPTS
    Topics, MaxCalls,    \* bounds: what a behaviour is about, and how many requests it makes
    None

ASSUME AccountsAssumption ==
    /\ OrgOf \in [Users -> Orgs] /\ Bootstrap \in Orgs /\ Invited \subseteq Users
    /\ MaxFailed \in Nat \ {0} /\ Topics \subseteq DOMAIN MaxCalls
    /\ None \notin Users \cup Orgs \cup Sids \cup Links

\* What a user may do: role, canIssueRefunds and employeeId, 0 for none
Grants == [role : {"OWNER", "ADMIN", "EMPLOYEE"}, refunds : BOOLEAN, employee : Nat]
Sessions == [user : Users, org : Orgs, grant : Grants]
PasswordLinks == [user : Users, state : {"live", "used", "expired"}, epoch : Nat]

\* A change asked for is one the request's schema lets through, and every user
\* who has an account starts with a session of their own
ASSUME RightsAssumption ==
    /\ Grant \in [Users -> Grants]
    /\ \A p \in Patches : /\ "role" \in DOMAIN p => p.role \in {"OWNER", "ADMIN", "EMPLOYEE"}
                          /\ "refunds" \in DOMAIN p => p.refunds \in BOOLEAN
                          /\ "employee" \in DOMAIN p => p.employee \in Nat
    /\ \E f \in [Users \ Invited -> Sids] : IsInjective(f)
    /\ None \notin Sessions \cup PasswordLinks \cup Patches

VARIABLES
    users,     \* rows: [state, grant, pw, failed, lock]
    store,     \* session:<sid>: the session, or None
    index,     \* session:user:<id>: the sids of a user
    aged,      \* sessions past the absolute cap
    links,     \* password links: [user, state, epoch], or None
    call,      \* requests in flight
    cookie,    \* the sid the tab's browser sends
    tab,       \* the tab's session store: [user, expired, generation]
    issued,    \* sids ever handed out
    vouched,   \* ghost: the password a session was last vouched for with
    excused,   \* ghost: sessions written by a step that was overtaken
    resets,    \* ghost: how often a link set a user's password, and the last link's epoch
    signedOut, \* ghost: the tab's last sign-out was answered, and nobody signed in since
    topic, made \* bounds

redis == <<store, index, aged, issued, vouched, excused>>
browser == <<cookie, tab, signedOut>>
database == <<users, links, resets>>
accounts == <<redis, browser, database, call, topic, made>>

Idle == [op |-> "idle"]
Active(u) == users[u].state = "active"

\* What a request says of itself, over what it said before
Over(new, old) ==
    [x \in DOMAIN new \cup DOMAIN old |-> IF x \in DOMAIN new THEN new[x] ELSE old[x]]

\* What each kind of behaviour is about
Ops(about) == CASE about = "rights" -> {"login", "page", "update", "archive", "logout"}
                [] about = "passwords" -> {"login", "password", "forgot", "reset", "create"}
                [] about = "tab" -> {"login", "logout", "me", "page"}
                [] OTHER -> {}

AccountsInit ==
    /\ users = [u \in Users |-> [state |-> IF u \in Invited THEN "absent" ELSE "active",
                                 grant |-> Grant[u], pw |-> 0, failed |-> 0, lock |-> "no"]]
    /\ LET s == CHOOSE f \in [Users \ Invited -> Sids] : IsInjective(f) IN
          /\ store = [i \in Sids |-> IF i \in Range(s)
                        THEN LET u == CHOOSE v \in DOMAIN s : s[v] = i
                             IN  [user |-> u, org |-> OrgOf[u], grant |-> Grant[u]]
                        ELSE None]
          /\ index = [u \in Users |-> IF u \in Invited THEN {} ELSE {s[u]}]
          /\ issued = Range(s)
          /\ \E u \in DOMAIN s :
                /\ cookie = s[u]
                /\ tab \in [user : {u, None}, expired : {FALSE}, generation : {0}]
    /\ aged = {} /\ excused = {} /\ vouched = [i \in Sids |-> 0]
    /\ links = [l \in Links |-> None]
    /\ resets = [u \in Users |-> <<0, 0>>]
    /\ call = [c \in Calls |-> Idle]
    /\ signedOut = FALSE
    /\ topic \in Topics /\ made = 0

-----------------------------------------------------------------------------
(* Calls.  The tab's own calls end in an answer, or in an answer that is   *)
(* lost; those of the owner's browser and of a mail link just end.         *)

TabOps == {"login", "logout", "me", "page", "password"}
Sending(op) == \E c \in Calls : call[c].op = op

Send(c, op, request) ==
    /\ call[c] = Idle /\ made < MaxCalls[topic] /\ op \in Ops(topic)
    /\ call' = [call EXCEPT ![c] = Over([op |-> op, gen |-> tab.generation], request)]
    /\ made' = made + 1
    /\ UNCHANGED <<redis, browser, database, topic>>

\* A status, and for a sign-in or GET /auth/me the user, and the cookie that is set
Reply(c, status, u, sid) ==
    /\ call' = [call EXCEPT ![c] =
          IF @.op \in TabOps
          THEN [op |-> @.op, gen |-> @.gen, at |-> "answered", status |-> status, user |-> u, sid |-> sid]
          ELSE Idle]
    /\ UNCHANGED <<topic, made>>

End(c, status) == Reply(c, status, None, None)
Go(c, to) == call' = [call EXCEPT ![c] = Over(to, @)] /\ UNCHANGED <<topic, made>>

-----------------------------------------------------------------------------
(* SessionStore                                                            *)

Deleted(sids) == [i \in Sids |-> IF i \in sids THEN None ELSE store[i]]

\* Rights were withdrawn between a read of the row and this session
Stale(row, u) == \/ row.grant # users[u].grant
                 \/ row.pw # users[u].pw
                 \/ ~Active(u)

create(u, row, sid) ==
    /\ store' = [store EXCEPT ![sid] = [user |-> u, org |-> OrgOf[u], grant |-> row.grant]]
    /\ index' = [index EXCEPT ![u] = @ \cup {sid}]
    /\ issued' = issued \cup {sid}
    /\ vouched' = [vouched EXCEPT ![sid] = row.pw]
    /\ excused' = IF Stale(row, u) THEN excused \cup {sid} ELSE excused
    /\ UNCHANGED aged

destroy(sid) ==
    /\ store' = Deleted({sid})
    /\ index' = IF sid \in Sids /\ store[sid] # None
                THEN [index EXCEPT ![store[sid].user] = @ \ {sid}] ELSE index
    /\ UNCHANGED <<aged, issued, vouched, excused>>

\* SMEMBERS, then one MULTI of DEL and SREM.  A session stored between the two
\* is not named, exactly as if it had been stored after both.
destroySessionsOf(u, keep) ==
    /\ store' = Deleted(index[u] \ {keep})
    /\ index' = [index EXCEPT ![u] = @ \cap {keep}]
    /\ UNCHANGED <<aged, issued, vouched, excused>>

\* read: a GET.  What is past the absolute cap reads as absent ...
Read(sid) == IF sid = None \/ sid \in aged THEN None ELSE store[sid]

\* ... and is destroyed
Purge(sid) ==
    IF sid \in aged /\ store[sid] # None THEN destroy(sid) ELSE UNCHANGED redis

\* ... and a SET, whatever became of the key since
Touch(c) ==
    LET sid == call[c].sid IN
    /\ store' = [store EXCEPT ![sid] = call[c].session]
    /\ excused' = IF store[sid] = None THEN excused \cup {sid} ELSE excused
    /\ UNCHANGED <<index, aged, issued, vouched>>

\* The idle TTL runs out; the absolute cap is reached
Lapse(sid) ==
    /\ store[sid] # None /\ topic = "tab"
    /\ \/ store' = Deleted({sid}) /\ aged' = aged
       \/ sid \notin aged /\ aged' = aged \cup {sid} /\ store' = store
    /\ UNCHANGED <<index, issued, vouched, excused, browser, database, call, topic, made>>

-----------------------------------------------------------------------------
(* POST /auth/login, POST /auth/logout                                     *)

login(c, u, right) ==
    /\ tab.user = None /\ ~Sending("login") /\ issued # Sids
    /\ Send(c, "login", [at |-> "lookup", about |-> u, right |-> right, sid |-> cookie])

LoginLookup(c) ==
    LET u == call[c].about IN
    /\ call[c].op = "login" /\ call[c].at = "lookup"
    /\ \/ users[u].state = "absent" /\ End(c, "401")
       \/ users[u].state # "absent" /\ Go(c, [at |-> "decide", row |-> users[u], verified |-> call[c].right])
    /\ UNCHANGED <<redis, browser, database>>

\* recordFailure: one transaction, the count incremented by the database
recordFailure(u) ==
    LET failed == users[u].failed + 1 IN
    users' = [users EXCEPT ![u].failed = failed,
                           ![u].lock = IF failed >= MaxFailed THEN "locked" ELSE @]

\* The password was verified against the row that was read
LoginDecide(c) ==
    LET u == call[c].about
        row == call[c].row
    IN
    /\ call[c].op = "login" /\ call[c].at = "decide"
    /\ \/ /\ ~call[c].verified
          /\ recordFailure(u)
          /\ End(c, "401")
       \/ /\ call[c].verified
          /\ row.lock = "locked" \/ row.state = "archived" \/ users[u].lock = "locked" \/ ~Active(u)
          /\ End(c, "401")
          /\ UNCHANGED users
       \/ /\ call[c].verified
          /\ row.lock # "locked" /\ row.state = "active" /\ users[u].lock # "locked" /\ Active(u)
          /\ users' = [users EXCEPT ![u].failed = 0, ![u].lock = "no"]
          /\ Go(c, [at |-> "create"])
    /\ UNCHANGED <<redis, browser, links, resets>>

LoginCreate(c) ==
    LET sid == CHOOSE s \in Sids : s \notin issued IN
    /\ call[c].op = "login" /\ call[c].at = "create"
    /\ create(call[c].about, call[c].row, sid)
    /\ Reply(c, "ok", call[c].about, sid)
    /\ UNCHANGED <<browser, database>>

logout(c) ==
    /\ tab.user # None /\ ~Sending("logout")
    /\ Send(c, "logout", [at |-> "arrive", sid |-> cookie])

Logout(c) ==
    /\ call[c].op = "logout" /\ call[c].at = "arrive"
    /\ destroy(call[c].sid)
    /\ End(c, "ok")
    /\ UNCHANGED <<browser, database>>

LockElapses(u) ==
    /\ users[u].lock = "locked"
    /\ users' = [users EXCEPT ![u].lock = "elapsed"]
    /\ UNCHANGED <<redis, browser, links, resets, call, topic, made>>

-----------------------------------------------------------------------------
(* Office requests: the tenant middleware under /office, then the session  *)
(* guard, then the roles the route declares, all decided from the session. *)

Allowed(op, grant) == op \in {"update", "archive", "create"} => grant.role = "OWNER"

me(c) ==
    /\ tab.user = None /\ ~Sending("me")
    /\ Send(c, "me", [at |-> "guard", sid |-> cookie, scope |-> Bootstrap])

changePassword(c) ==
    /\ tab.user # None
    /\ Send(c, "password", [at |-> "guard", sid |-> cookie, scope |-> Bootstrap])

page(c) ==
    /\ tab.user # None /\ ~Sending("page")
    /\ Send(c, "page", [at |-> "middleware", sid |-> cookie])

\* The users page, in another browser
manage(c, op, sid, u, patch) ==
    /\ op \in {"update", "archive", "create"}
    /\ op = "create" <=> users[u].state = "absent"
    /\ op = "update" <=> patch # None
    /\ Send(c, op, [at |-> "middleware", sid |-> sid, about |-> u, patch |-> patch])

\* No session, or none that resolves: the request goes on outside any scope
OfficeTenantMiddleware(c) ==
    /\ call[c] # Idle /\ call[c].at = "middleware"
    /\ LET session == Read(call[c].sid) IN
       Go(c, IF session = None THEN [at |-> "guard", scope |-> Bootstrap]
                               ELSE [at |-> "touch", session |-> session])
    /\ Purge(call[c].sid)
    /\ UNCHANGED <<browser, database>>

\* Mutant: the chain goes on outside the scope the session names
OfficeTenantScopeDropped(c) ==
    /\ call[c] # Idle /\ call[c].at = "touch"
    /\ Touch(c)
    /\ Go(c, [at |-> "guard", scope |-> Bootstrap])
    /\ UNCHANGED <<browser, database>>

OfficeTenantScope(c) ==
    /\ call[c] # Idle /\ call[c].at = "touch"
    /\ Touch(c)
    /\ Go(c, [at |-> "guard", scope |-> call[c].session.org])
    /\ UNCHANGED <<browser, database>>

OfficeSessionGuard(c) ==
    /\ call[c] # Idle /\ call[c].at = "guard"
    /\ LET session == Read(call[c].sid) IN
       IF session = None THEN End(c, "401") ELSE Go(c, [at |-> "enter", session |-> session])
    /\ Purge(call[c].sid)
    /\ UNCHANGED <<browser, database>>

RolesGuard(c) ==
    /\ call[c] # Idle /\ call[c].at = "enter"
    /\ Touch(c)
    /\ \/ Allowed(call[c].op, call[c].session.grant) /\ Go(c, [at |-> "handle"])
       \/ ~Allowed(call[c].op, call[c].session.grant) /\ End(c, "403")
    /\ UNCHANGED <<browser, database>>

Handling(c, op) == call[c].op = op /\ call[c].at = "handle"

\* Any office read, and GET /auth/me
Serve(c) ==
    /\ Handling(c, "page") \/ Handling(c, "me")
    /\ Reply(c, "ok", call[c].session.user, call[c].sid)
    /\ UNCHANGED <<redis, browser, database>>

\* POST /auth/password: verified against the row that was read
PasswordLookup(c) ==
    /\ Handling(c, "password")
    /\ \/ Go(c, [at |-> "write"])
       \/ End(c, "401")
    /\ UNCHANGED <<redis, browser, database>>

PasswordWrite(c) ==
    LET u == call[c].session.user IN
    /\ call[c].op = "password" /\ call[c].at = "write"
    /\ users' = [users EXCEPT ![u].pw = @ + 1]
    /\ vouched' = [vouched EXCEPT ![call[c].sid] = users[u].pw + 1]
    /\ Go(c, [at |-> "revoke", about |-> u, keep |-> call[c].sid])
    /\ UNCHANGED <<store, index, aged, issued, excused, browser, links, resets>>

-----------------------------------------------------------------------------
(* OfficeUsersService: load the row, refuse what may not be done to        *)
(* oneself, write, and revoke when what the sessions copied has changed.   *)

Patched(grant, patch) == [f \in DOMAIN grant |-> IF f \in DOMAIN patch THEN patch[f] ELSE grant[f]]
ChangesOwnAccess(c) ==
    /\ call[c].session.user = call[c].about
    /\ \E f \in {"role", "refunds"} \cap DOMAIN call[c].patch :
          call[c].patch[f] # users[call[c].about].grant[f]

Load(c) ==
    LET u == call[c].about
        refused == \/ OrgOf[u] # call[c].scope
                   \/ call[c].op = "update" /\ ChangesOwnAccess(c)
                   \/ call[c].op = "archive" /\ (call[c].session.user = u \/ ~Active(u))
    IN
    /\ Handling(c, "update") \/ Handling(c, "archive")
    /\ \/ refused /\ End(c, "409")
       \/ ~refused /\ Go(c, [at |-> "write", row |-> users[u]])
    /\ UNCHANGED <<redis, browser, database>>

\* Mutant: repointing the employee link is taken for a change of name
authorizationChangedByRole(before, after) ==
    before.role # after.role \/ before.refunds # after.refunds

authorizationChanged(before, after) ==
    \/ before.role # after.role
    \/ before.refunds # after.refunds
    \/ before.employee # after.employee

\* Overtaken: somebody else changed the row after it was loaded, so that the
\* comparison is not with what the standing sessions copied
update(c) ==
    LET u == call[c].about
        row == call[c].row
        after == Patched(users[u].grant, call[c].patch)
    IN
    /\ call[c].op = "update" /\ call[c].at = "write"
    /\ users' = [users EXCEPT ![u].grant = after]
    /\ \/ authorizationChanged(row.grant, after) /\ Go(c, [at |-> "revoke", keep |-> None])
       \/ ~authorizationChanged(row.grant, after) /\ End(c, "ok")
    /\ excused' = IF row.grant # users[u].grant
                  THEN excused \cup {s \in Sids : store[s] # None /\ store[s].user = u} ELSE excused
    /\ UNCHANGED <<store, index, aged, issued, vouched, browser, links, resets>>

archive(c) ==
    LET u == call[c].about IN
    /\ call[c].op = "archive" /\ call[c].at = "write"
    /\ users' = [users EXCEPT ![u].state = "archived"]
    /\ Go(c, [at |-> "revoke", keep |-> None])
    /\ UNCHANGED <<redis, browser, links, resets>>

\* After the commit.  A Redis that fails leaves the sessions as they are.
Revoke(c) ==
    LET u == call[c].about IN
    /\ call[c] # Idle /\ call[c].at = "revoke"
    /\ \/ destroySessionsOf(u, call[c].keep)
       \/ /\ topic = "rights"
          /\ excused' = excused \cup (index[u] \ {call[c].keep})
          /\ UNCHANGED <<store, index, aged, issued, vouched>>
    /\ End(c, "ok")
    /\ UNCHANGED <<browser, database>>

-----------------------------------------------------------------------------
(* PasswordResetService                                                    *)

Fresh(u) == [user |-> u, state |-> "live", epoch |-> resets[u][1]]
NewLink == CHOOSE l \in Links : links[l] = None

\* POST /auth/password-reset/request: nothing for an archived or unknown user
request(u) ==
    /\ \E l \in Links : links[l] = None
    /\ Active(u)
    /\ links' = [links EXCEPT ![NewLink] = Fresh(u)]

Forgot(u) ==
    /\ "forgot" \in Ops(topic) /\ made < MaxCalls[topic]
    /\ request(u)
    /\ made' = made + 1
    /\ UNCHANGED <<redis, browser, users, resets, call, topic>>

\* create: the row, with a password nobody knows, and then a link
CreateUser(c) ==
    LET u == call[c].about IN
    /\ Handling(c, "create") /\ OrgOf[u] = call[c].scope
    /\ \/ /\ users[u].state = "absent"
          /\ users' = [users EXCEPT ![u].state = "active"]
          /\ Go(c, [at |-> "invite"])
       \/ /\ users[u].state # "absent"
          /\ End(c, "409")
          /\ UNCHANGED users
    /\ UNCHANGED <<redis, browser, links, resets>>

Invite(c) ==
    /\ call[c] # Idle /\ call[c].at = "invite"
    /\ request(call[c].about)
    /\ End(c, "ok")
    /\ UNCHANGED <<redis, browser, users, resets>>

\* POST /auth/password-reset/confirm
confirm(c, l) ==
    /\ links[l] # None /\ links[l].state = "live"
    /\ Send(c, "reset", [at |-> "claim", link |-> l, about |-> links[l].user, keep |-> None])

LinkExpires(l) ==
    /\ links[l] # None /\ links[l].state = "live"
    /\ links' = [links EXCEPT ![l].state = "expired"]
    /\ UNCHANGED <<redis, browser, users, resets, call, topic, made>>

\* Mutant: the other links of the user are left alive
SpentAlone(l) == [links EXCEPT ![l].state = "used"]

\* The link that was claimed, and every other that is not used yet
Spent(l) ==
    [m \in Links |-> IF links[m] # None /\ links[m].user = links[l].user
                     THEN [links[m] EXCEPT !.state = "used"] ELSE links[m]]

\* One transaction: claim the link if nobody did, write the password, clear the
\* lock, spend the links.  An expiry since the link was read is not looked at.
ConfirmCommit(c) ==
    LET l == call[c].link
        u == call[c].about
    IN
    /\ call[c].op = "reset" /\ call[c].at = "claim"
    /\ \/ /\ links[l].state = "used"
          /\ End(c, "401")
          /\ UNCHANGED <<users, links, resets>>
       \/ /\ links[l].state # "used"
          /\ users' = [users EXCEPT ![u].pw = @ + 1, ![u].failed = 0, ![u].lock = "no"]
          /\ links' = Spent(l)
          /\ resets' = [resets EXCEPT ![u] = <<@[1] + 1, links[l].epoch + 1>>]
          /\ Go(c, [at |-> "revoke"])
    /\ UNCHANGED <<redis, browser>>

-----------------------------------------------------------------------------
(* The tab: useSession.                                                    *)

Answered(c, op) == call[c].op = op /\ call[c].at = "answered"
SignedIn(u) == [tab EXCEPT !.user = u, !.expired = FALSE]

\* hydrate: an answer older than the last sign-out is dropped
Hydrated(c) ==
    /\ Answered(c, "me")
    /\ tab' = IF call[c].gen # tab.generation THEN tab
              ELSE IF call[c].status = "ok" THEN SignedIn(call[c].user) ELSE [tab EXCEPT !.user = None]
    /\ UNCHANGED <<cookie, signedOut>>

LoggedIn(c) ==
    /\ Answered(c, "login")
    /\ IF call[c].status # "ok" THEN UNCHANGED browser
       ELSE /\ tab' = SignedIn(call[c].user)
            /\ cookie' = call[c].sid
            /\ signedOut' = FALSE

\* Mutant: a sign-out does not invalidate an older hydration
LoggedOutAlone(c) ==
    /\ Answered(c, "logout")
    /\ tab' = [tab EXCEPT !.user = None, !.expired = FALSE]
    /\ cookie' = IF call[c].status = "ok" THEN None ELSE cookie
    /\ signedOut' = (call[c].status = "ok")

\* Cleared even when the call failed
LoggedOut(c) ==
    /\ Answered(c, "logout")
    /\ tab' = [user |-> None, expired |-> FALSE, generation |-> tab.generation + 1]
    /\ cookie' = IF call[c].status = "ok" THEN None ELSE cookie
    /\ signedOut' = (call[c].status = "ok")

\* markExpired: the first 401 of a call that depends on the session
SessionCallAnswered(c) ==
    /\ Answered(c, "page") \/ Answered(c, "password")
    /\ tab' = IF call[c].status = "401" /\ ~tab.expired
              THEN [user |-> None, expired |-> TRUE, generation |-> tab.generation + 1] ELSE tab
    /\ UNCHANGED <<cookie, signedOut>>

Answer(c) ==
    /\ Hydrated(c) \/ LoggedIn(c) \/ LoggedOut(c) \/ SessionCallAnswered(c)
    /\ call' = [call EXCEPT ![c] = Idle]
    /\ UNCHANGED <<redis, database, topic, made>>

AnswerLost(c) ==
    /\ call[c] # Idle /\ call[c].at = "answered"
    /\ call[c].status # "lost" /\ topic = "tab"
    /\ call' = [call EXCEPT ![c].status = "lost"]
    /\ UNCHANGED <<redis, browser, database, topic, made>>

-----------------------------------------------------------------------------
AccountsNext ==
    \/ \E c \in Calls :
          \/ \E u \in Users, right \in BOOLEAN : login(c, u, right)
          \/ me(c) \/ changePassword(c) \/ page(c) \/ logout(c)
          \/ \E op \in {"update", "archive", "create"}, s \in issued, u \in Users, p \in Patches \cup {None} :
                manage(c, op, s, u, p)
          \/ \E l \in Links : confirm(c, l)
          \/ LoginLookup(c) \/ LoginDecide(c) \/ LoginCreate(c) \/ Logout(c)
          \/ OfficeTenantMiddleware(c) \/ OfficeTenantScope(c) \/ OfficeSessionGuard(c) \/ RolesGuard(c)
          \/ Serve(c) \/ PasswordLookup(c) \/ PasswordWrite(c)
          \/ Load(c) \/ update(c) \/ archive(c) \/ Revoke(c) \/ CreateUser(c) \/ Invite(c)
          \/ ConfirmCommit(c) \/ Answer(c) \/ AnswerLost(c)
    \/ \E u \in Users : Forgot(u) \/ LockElapses(u)
    \/ \E l \in Links : LinkExpires(l)
    \/ \E s \in Sids : Lapse(s)

AccountsSpec == AccountsInit /\ [][AccountsNext]_accounts

-----------------------------------------------------------------------------
Revoking(s) ==
    \E c \in Calls : /\ call[c] # Idle /\ call[c].at = "revoke"
                     /\ call[c].about = store[s].user /\ call[c].keep # s

(* What a session carries is what its user may do: once the revocation that
   follows a change is through, no session stands that copied another role,
   refund right or employee, that belongs to an archived user, or that was
   opened with a password that has been replaced (office-users.service.ts,
   update and archive; password-reset.service.ts, confirm).  Excused are
   sessions written by a step the change overtook: a login that had read the
   row before, a read whose GET came before the revocation and whose SET came
   after, an update that compared with a row somebody else had changed, and a
   revocation Redis refused. *)
SessionIsCurrent ==
    \A s \in Sids : store[s] # None /\ s \notin excused /\ ~Revoking(s) =>
        LET u == store[s].user IN
        /\ Active(u)
        /\ store[s].grant = users[u].grant
        /\ vouched[s] = users[u].pw

(* An office request is served as the organization of the session it is
   authorised by: the middleware and the guard read the session separately,
   and agree (office-tenant.middleware.ts, office-session.guard.ts).  A
   session that came back between the two is excused. *)
ServedAsNamed ==
    \A c \in Calls : call[c] # Idle /\ call[c].at \in {"handle", "write"} /\ call[c].op \notin {"me", "password"} =>
        call[c].scope = call[c].session.org \/ call[c].sid \in excused

(* A password link sets one password, and only while it is the newest state of
   affairs: no link that was issued before a reset works after it, whatever was
   read before the reset committed (password-reset.service.ts, confirm). *)
LinkSetsOnePassword == \A u \in Users : resets[u][1] = resets[u][2]

(* Once a sign-out has been answered, no answer that was on its way puts the
   user back on the screen (stores/session.ts, generation). *)
SignedOutStaysOut == signedOut => tab.user = None
=============================================================================
