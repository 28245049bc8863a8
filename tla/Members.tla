------------------------------- MODULE Members -------------------------------
(***************************************************************************)
(* The people of one workspace: how they get in (modules/onboarding,       *)
(* users/invitations.go, modules/auth, modules/passwordreset), what the    *)
(* mail provider reports about the links that let them in                  *)
(* (modules/emailfeedback), and how roles and access are taken away        *)
(* (users/lifecycle.go, users/role_lifecycle.go).                          *)
(*                                                                         *)
(* A lifecycle request is a Serializable transaction of two steps: what it *)
(* decides from its snapshot, and its commit, which PostgreSQL refuses if  *)
(* a row it locked has changed since.  A login and a password reset are    *)
(* Read Committed and take turns on the lock of the user's row.            *)
(***************************************************************************)
EXTENDS Integers, Sequences, FiniteSets

CONSTANTS
    Users,
    Founder,      \* who signed the workspace up
    Browsers,     \* places a person can be signed in
    Requests,     \* lifecycle requests in flight
    Roles,
    Nobody,
    NoRequest,
    MaxLinks      \* bound: links mailed in all

VARIABLES
    role, status,   \* organization_memberships; "none" without a row
    verified,       \* users.email_verified_at
    chosen,         \* the password is one its owner chose
    suppressed,     \* users.system_email_suppressed_at
    link,           \* number of the link whose token hash is stored, or 0
    key,            \* number of the link whose delivery key is stored, or 0
    shown,          \* the delivery status of that kind of link
    cooling,        \* a link was sent or asked for a moment ago
    consumed, revoked,     \* password_setup_consumed_at, _revoked_at
    fate,           \* what became of each link that was mailed
    unreported,     \* handlers that have yet to record what the mailer said
    session,        \* whose session a browser has
    entering,       \* the login of a browser that holds the user's row
    outdated,       \* browsers let in by a password that was replaced since
    req             \* lifecycle requests

linkVars == <<link, key, shown, cooling, consumed, revoked, fate, unreported>>
personVars == <<verified, chosen, suppressed>>
sessionVars == <<session, entering, outdated>>
vars == <<role, status, verified, chosen, suppressed, link, key, shown, cooling,
          consumed, revoked, fate, unreported, session, entering, outdated, req>>

Purposes == {"verify", "setup", "reset"}
Fates == {"new", "sent", "failed", "bounced", "complaint"}
Shown == {"none", "pending", "sent", "failed", "bounced", "complaint", "consumed"}
Lifecycle == {"disable", "enable", "role", "revoke", "resend"}

TypeOK ==
    /\ role \in [Users -> Roles]
    /\ status \in [Users -> {"none", "active", "disabled"}]
    /\ {verified, chosen, suppressed, consumed, revoked} \subseteq [Users -> BOOLEAN]
    /\ {link, key} \subseteq [Purposes -> [Users -> 0..MaxLinks]]
    /\ shown \in [Purposes -> [Users -> Shown]]
    /\ cooling \in [Purposes -> [Users -> BOOLEAN]]
    /\ \A p \in Purposes, u \in Users :
        /\ fate[p][u] \in Seq(Fates)
        /\ Len(fate[p][u]) <= MaxLinks
    /\ unreported \subseteq Purposes \X Users \X (1..MaxLinks)
    /\ {session, entering} \subseteq [Browsers -> Users \cup {Nobody}]
    /\ outdated \subseteq Browsers
    /\ \A r \in Requests : req[r] = NoRequest \/
        /\ req[r].kind \in Lifecycle
        /\ req[r].target \in Users
        /\ req[r].role \in Roles
        /\ req[r].rows \subseteq Users
        /\ req[r].stale \in BOOLEAN

None == [p \in Purposes |-> [u \in Users |-> 0]]

\* The workspace has just been signed up, its owner's address not verified.
Init ==
    /\ role = [u \in Users |-> "owner"]
    /\ status = [u \in Users |-> IF u = Founder THEN "active" ELSE "none"]
    /\ verified = [u \in Users |-> FALSE]
    /\ chosen = [u \in Users |-> u = Founder]
    /\ suppressed = [u \in Users |-> FALSE]
    /\ link = [None EXCEPT !["verify"][Founder] = 1]
    /\ key = link
    /\ shown = [p \in Purposes |-> [u \in Users |->
                  IF p = "verify" /\ u = Founder THEN "pending" ELSE "none"]]
    /\ cooling = [p \in Purposes |-> [u \in Users |-> FALSE]]
    /\ consumed = [u \in Users |-> FALSE]
    /\ revoked = [u \in Users |-> FALSE]
    /\ fate = [p \in Purposes |-> [u \in Users |->
                 IF p = "verify" /\ u = Founder THEN <<"new">> ELSE <<>>]]
    /\ unreported = {<<"verify", Founder, 1>>}
    /\ session = [s \in Browsers |-> Nobody]
    /\ entering = [s \in Browsers |-> Nobody]
    /\ outdated = {}
    /\ req = [r \in Requests |-> NoRequest]

-----------------------------------------------------------------------------
Active(u) == status[u] = "active"
Owners == {u \in Users : Active(u) /\ role[u] = "owner"}
Authorized(u) == Active(u) /\ role[u] \in {"owner", "admin"}
SignedIn(u) == Active(u) /\ verified[u] /\ \E s \in Browsers : session[s] = u

FreeAnyway(u) == TRUE

\* No login holds the row of users (FOR UPDATE).
Free(u) == \A s \in Browsers : entering[s] # u

\* The requests once memberships, or a person, were updated under them.
Disturbed(members, person) ==
    [r \in Requests |->
        IF req[r] # NoRequest
           /\ \/ req[r].rows \cap members # {}
              \/ req[r].kind \in {"revoke", "resend"} /\ req[r].target = person
        THEN [req[r] EXCEPT !.stale = TRUE] ELSE req[r]]

SignOut(u) == session' = [s \in Browsers |-> IF session[s] = u THEN Nobody ELSE session[s]]

LinkCount == Cardinality({x \in Purposes \X Users \X (1..MaxLinks) :
                            x[3] <= Len(fate[x[1]][x[2]])})

\* A new token and a new delivery key: what was mailed before is void.
Rotate(p, u) ==
    LET n == Len(fate[p][u]) + 1
    IN  /\ LinkCount < MaxLinks
        /\ link' = [link EXCEPT ![p][u] = n]
        /\ key' = [key EXCEPT ![p][u] = n]
        /\ shown' = [shown EXCEPT ![p][u] = "pending"]
        /\ fate' = [fate EXCEPT ![p][u] = Append(@, "new")]
        /\ unreported' = unreported \cup {<<p, u, n>>}

\* A new password ends the sessions; a login that is under way would outlive it.
EndSessions(u) ==
    /\ SignOut(u)
    /\ outdated' = (outdated \ {s \in Browsers : session[s] = u})
                     \cup {s \in Browsers : entering[s] = u}

-----------------------------------------------------------------------------
(* Mailing a link, and the provider's feedback.                            *)

Mail(p, u, n) ==
    /\ n \in DOMAIN fate[p][u] /\ fate[p][u][n] = "new"
    /\ <<p, u, n>> \in unreported
    /\ p = "verify" => ~verified[u]
    /\ \E f \in {"sent", "failed"} : fate' = [fate EXCEPT ![p][u][n] = f]
    /\ UNCHANGED <<role, status, personVars, link, key, shown, cooling, consumed,
                   revoked, unreported, sessionVars, req>>

AwaitsAny(p, u, n) == shown[p][u] = "pending"

\* The outcome is bound to the delivery key, and only while nothing else is known.
Awaits(p, u, n) == key[p][u] = n /\ shown[p][u] = "pending"

RecordDelivery(p, u, n) ==
    LET outcome == IF fate[p][u][n] = "failed" THEN "failed" ELSE "sent"
    IN  /\ <<p, u, n>> \in unreported
        /\ fate[p][u][n] # "new"
        /\ Free(u)
        /\ unreported' = unreported \ {<<p, u, n>>}
        /\ IF Awaits(p, u, n)
           THEN /\ shown' = [shown EXCEPT ![p][u] = outcome]
                /\ cooling' = [cooling EXCEPT ![p][u] = @ \/ (p = "verify" /\ outcome = "sent")]
                /\ req' = Disturbed({}, u)
           ELSE UNCHANGED <<shown, cooling, req>>
        /\ UNCHANGED <<role, status, personVars, link, key, consumed, revoked, fate,
                       sessionVars>>

\* The process stops before it has recorded anything.
HandlerStops(p, u, n) ==
    /\ <<p, u, n>> \in unreported
    /\ unreported' = unreported \ {<<p, u, n>>}
    /\ UNCHANGED <<role, status, personVars, link, key, shown, cooling, consumed,
                   revoked, fate, sessionVars, req>>

\* External: the mail bounces, or its recipient complains.
ComesBack(p, u, n) ==
    /\ n \in DOMAIN fate[p][u] /\ fate[p][u][n] = "sent"
    /\ \E f \in {"bounced", "complaint"} : fate' = [fate EXCEPT ![p][u][n] = f]
    /\ UNCHANGED <<role, status, personVars, link, key, shown, cooling, consumed,
                   revoked, unreported, sessionVars, req>>

\* lockMatchingDelivery: the event is about the link that counts.
Matches(p, u, n) ==
    /\ key[p][u] = n
    /\ CASE p = "verify" -> ~verified[u]
         [] p = "setup" -> ~consumed[u]
         [] OTHER -> link[p][u] # 0

\* The webhook, early or late, once or again.
Feedback(p, u, n) ==
    /\ n \in DOMAIN fate[p][u] /\ fate[p][u][n] \in {"bounced", "complaint"}
    /\ Matches(p, u, n)
    /\ Free(u)
    /\ shown' = [shown EXCEPT ![p][u] = IF p = "reset" THEN "failed"
                                        ELSE IF @ = "complaint" THEN @ ELSE fate[p][u][n]]
    /\ suppressed' = [suppressed EXCEPT ![u] = @ \/ fate[p][u][n] = "complaint"]
    /\ req' = Disturbed({}, u)
    /\ UNCHANGED <<role, status, verified, chosen, link, key, cooling, consumed,
                   revoked, fate, unreported, sessionVars>>

CoolDown(p, u) ==
    /\ cooling[p][u]
    /\ cooling' = [cooling EXCEPT ![p][u] = FALSE]
    /\ UNCHANGED <<role, status, personVars, link, key, shown, consumed, revoked,
                   fate, unreported, sessionVars, req>>

-----------------------------------------------------------------------------
(* Ways in.                                                                *)

\* For anybody with an active membership and an unverified address.
ResendVerification(u) ==
    /\ Active(u) /\ ~verified[u] /\ ~suppressed[u] /\ ~cooling["verify"][u]
    /\ Free(u)
    /\ Rotate("verify", u)
    /\ req' = Disturbed({}, u)
    /\ UNCHANGED <<role, status, personVars, cooling, consumed, revoked, sessionVars>>

VerifyEmail(s, u) ==
    /\ session[s] = Nobody /\ entering[s] = Nobody
    /\ link["verify"][u] # 0
    /\ ~verified[u] /\ Active(u)
    /\ Free(u)
    /\ verified' = [verified EXCEPT ![u] = TRUE]
    /\ link' = [link EXCEPT !["verify"][u] = 0]
    /\ key' = [key EXCEPT !["verify"][u] = 0]
    /\ cooling' = [cooling EXCEPT !["verify"][u] = FALSE]
    /\ session' = [session EXCEPT ![s] = u]
    /\ req' = Disturbed({}, u)
    /\ UNCHANGED <<role, status, chosen, suppressed, shown, consumed, revoked, fate,
                   unreported, entering, outdated>>

CompleteSetup(u) ==
    /\ link["setup"][u] # 0
    /\ ~consumed[u] /\ ~revoked[u]
    /\ Active(u)
    /\ Free(u)
    /\ verified' = [verified EXCEPT ![u] = TRUE]
    /\ chosen' = [chosen EXCEPT ![u] = TRUE]
    /\ link' = [link EXCEPT !["setup"][u] = 0]
    /\ key' = [key EXCEPT !["setup"][u] = 0]
    /\ consumed' = [consumed EXCEPT ![u] = TRUE]
    /\ outdated' = IF chosen[u] THEN outdated \cup {s \in Browsers : session[s] = u}
                   ELSE outdated
    /\ req' = Disturbed({}, u)
    /\ UNCHANGED <<role, status, suppressed, shown, cooling, revoked, fate, unreported,
                   session, entering>>

\* The password is right, the address verified, the membership active.
BeginLogin(s, u) ==
    /\ session[s] = Nobody /\ entering[s] = Nobody
    /\ chosen[u] /\ verified[u] /\ Active(u)
    /\ Free(u)
    /\ entering' = [entering EXCEPT ![s] = u]
    /\ UNCHANGED <<role, status, personVars, linkVars, session, outdated, req>>

CommitLogin(s) ==
    /\ entering[s] # Nobody
    /\ session' = [session EXCEPT ![s] = entering[s]]
    /\ entering' = [entering EXCEPT ![s] = Nobody]
    /\ UNCHANGED <<role, status, personVars, linkVars, outdated, req>>

AbortLogin(s) ==
    /\ entering[s] # Nobody
    /\ entering' = [entering EXCEPT ![s] = Nobody]
    /\ outdated' = outdated \ {s}
    /\ UNCHANGED <<role, status, personVars, linkVars, session, req>>

\* Logout, expiry, or another browser of the same person revokes it.
EndSession(s) ==
    /\ session[s] # Nobody
    /\ session' = [session EXCEPT ![s] = Nobody]
    /\ outdated' = outdated \ {s}
    /\ UNCHANGED <<role, status, personVars, linkVars, entering, req>>

RevokeOtherSessions(s) ==
    LET others == {t \in Browsers \ {s} : session[t] = session[s]}
    IN  /\ session[s] # Nobody
        /\ others # {}
        /\ Free(session[s])
        /\ session' = [t \in Browsers |-> IF t \in others THEN Nobody ELSE session[t]]
        /\ outdated' = outdated \ others
        /\ UNCHANGED <<role, status, personVars, linkVars, entering, req>>

RequestReset(u) ==
    /\ verified[u] /\ ~suppressed[u] /\ Active(u)
    /\ cooling["reset"][u] => shown["reset"][u] = "failed"
    /\ Free(u)
    /\ Rotate("reset", u)
    /\ cooling' = [cooling EXCEPT !["reset"][u] = TRUE]
    /\ req' = Disturbed({}, u)
    /\ UNCHANGED <<role, status, personVars, consumed, revoked, sessionVars>>

\* The new password ends every session, the setup link as well.
CompleteReset(u) ==
    /\ link["reset"][u] # 0
    /\ verified[u] /\ Active(u)
    /\ Free(u)
    /\ chosen' = [chosen EXCEPT ![u] = TRUE]
    /\ link' = [link EXCEPT !["reset"][u] = 0, !["setup"][u] = 0]
    /\ key' = [key EXCEPT !["reset"][u] = 0]
    /\ shown' = [shown EXCEPT !["reset"][u] = "consumed"]
    /\ EndSessions(u)
    /\ req' = Disturbed({}, u)
    /\ UNCHANGED <<role, status, verified, suppressed, cooling, consumed, revoked, fate,
                   unreported, entering>>

-----------------------------------------------------------------------------
(* Invitations, roles and access.                                          *)

\* One transaction; the seat it takes is PlanCapacity's.
Invite(actor, u, as) ==
    /\ SignedIn(actor) /\ Authorized(actor)
    /\ status[u] = "none"
    /\ status' = [status EXCEPT ![u] = "active"]
    /\ role' = [role EXCEPT ![u] = as]
    /\ Rotate("setup", u)
    /\ UNCHANGED <<personVars, cooling, consumed, revoked, sessionVars, req>>

\* Taking an active owner away, or down, locks and counts the active owners.
LosesOwner(kind, u, as) ==
    /\ u \in Owners
    /\ kind \in {"disable", "revoke"} \/ (kind = "role" /\ as # "owner")

Start(r, kind, u, as, rows) ==
    /\ req[r] = NoRequest
    /\ LosesOwner(kind, u, as) => Cardinality(Owners) > 1
    /\ req' = [req EXCEPT ![r] =
                 [kind |-> kind, target |-> u, role |-> as, stale |-> FALSE,
                  rows |-> rows \cup IF LosesOwner(kind, u, as) THEN Owners ELSE {}]]
    /\ UNCHANGED <<role, status, personVars, linkVars, sessionVars>>

BeginSetStatus(r, actor, u) ==
    /\ SignedIn(actor) /\ Authorized(actor)
    /\ \/ Active(u) /\ actor # u /\ Start(r, "disable", u, role[u], {actor, u})
       \/ status[u] = "disabled" /\ Start(r, "enable", u, role[u], {actor, u})

BeginUpdateRole(r, actor, u, as) ==
    /\ SignedIn(actor) /\ Authorized(actor)
    /\ status[u] # "none" /\ role[u] # as
    /\ Start(r, "role", u, as, {actor, u})

\* Only the session was asked whether the actor may: the transaction locks the
\* target's membership and row.
BeginRevoke(r, actor, u) ==
    /\ SignedIn(actor) /\ Authorized(actor) /\ actor # u
    /\ status[u] # "none"
    /\ ~consumed[u] /\ (link["setup"][u] # 0 \/ revoked[u])
    /\ ~(revoked[u] /\ status[u] = "disabled")
    /\ Start(r, "revoke", u, role[u], {u})

BeginResend(r, actor, u) ==
    /\ SignedIn(actor) /\ Authorized(actor)
    /\ Active(u) /\ ~verified[u] /\ ~consumed[u] /\ ~suppressed[u]
    /\ Start(r, "resend", u, role[u], {u})

\* A serialization failure: the request begins again, or is given up.
Abort(r) ==
    /\ req[r] # NoRequest
    /\ req' = [req EXCEPT ![r] = NoRequest]
    /\ UNCHANGED <<role, status, personVars, linkVars, sessionVars>>

Done(r, members, person) == req' = [Disturbed(members, person) EXCEPT ![r] = NoRequest]

PendingAnyway(r, kind) == req[r] # NoRequest /\ req[r].kind = kind

Pending(r, kind) == req[r] # NoRequest /\ req[r].kind = kind /\ ~req[r].stale

CommitDisable(r) ==
    LET u == req[r].target
    IN  /\ Pending(r, "disable")
        /\ status' = [status EXCEPT ![u] = "disabled"]
        /\ SignOut(u)
        /\ outdated' = outdated \ {s \in Browsers : session[s] = u}
        /\ Done(r, {u}, Nobody)
        /\ UNCHANGED <<role, personVars, linkVars, entering>>

CommitEnable(r) ==
    LET u == req[r].target
    IN  /\ Pending(r, "enable")
        /\ status' = [status EXCEPT ![u] = "active"]
        /\ Done(r, {u}, Nobody)
        /\ UNCHANGED <<role, personVars, linkVars, sessionVars>>

CommitRole(r) ==
    LET u == req[r].target
    IN  /\ Pending(r, "role")
        /\ role' = [role EXCEPT ![u] = req[r].role]
        /\ Done(r, {u}, Nobody)
        /\ UNCHANGED <<status, personVars, linkVars, sessionVars>>

CommitRevoke(r) ==
    LET u == req[r].target
    IN  /\ Pending(r, "revoke")
        /\ Free(u)
        /\ status' = [status EXCEPT ![u] = "disabled"]
        /\ revoked' = [revoked EXCEPT ![u] = TRUE]
        /\ link' = [link EXCEPT !["setup"][u] = 0]
        /\ key' = [key EXCEPT !["setup"][u] = 0]
        /\ SignOut(u)
        /\ outdated' = outdated \ {s \in Browsers : session[s] = u}
        /\ Done(r, {u}, u)
        /\ UNCHANGED <<role, personVars, shown, cooling, consumed, fate, unreported,
                       entering>>

CommitResend(r) ==
    LET u == req[r].target
    IN  /\ Pending(r, "resend")
        /\ Free(u)
        /\ Rotate("setup", u)
        /\ revoked' = [revoked EXCEPT ![u] = FALSE]
        /\ Done(r, {}, u)
        /\ UNCHANGED <<role, status, personVars, cooling, consumed, sessionVars>>

-----------------------------------------------------------------------------
Next ==
    \/ \E p \in Purposes, u \in Users, n \in 1..MaxLinks :
        \/ Mail(p, u, n) \/ RecordDelivery(p, u, n) \/ HandlerStops(p, u, n)
        \/ ComesBack(p, u, n) \/ Feedback(p, u, n)
    \/ \E p \in Purposes, u \in Users : CoolDown(p, u)
    \/ \E u \in Users :
        \/ ResendVerification(u) \/ CompleteSetup(u) \/ RequestReset(u)
        \/ CompleteReset(u)
    \/ \E s \in Browsers :
        \/ CommitLogin(s) \/ AbortLogin(s) \/ EndSession(s) \/ RevokeOtherSessions(s)
        \/ \E u \in Users : VerifyEmail(s, u) \/ BeginLogin(s, u)
    \/ \E actor, u \in Users :
        \/ \E as \in Roles : Invite(actor, u, as)
        \/ \E r \in Requests :
            \/ BeginSetStatus(r, actor, u) \/ BeginRevoke(r, actor, u)
            \/ BeginResend(r, actor, u)
            \/ \E as \in Roles : BeginUpdateRole(r, actor, u, as)
    \/ \E r \in Requests :
        \/ CommitDisable(r) \/ CommitEnable(r) \/ CommitRole(r)
        \/ CommitRevoke(r) \/ CommitResend(r) \/ Abort(r)

Spec == Init /\ [][Next]_vars

-----------------------------------------------------------------------------
(* Properties.                                                             *)

\* Whatever owners do to each other at the same time, and to themselves, the
\* workspace keeps an active owner.
OwnerRemains == Owners # {}

\* Nobody is signed in by a password that is not the present one: a login and
\* a reset that meet leave no session behind, and a setup link never replaces
\* a password somebody signed in with.
CredentialsCurrent == \A s \in outdated : session[s] = Nobody

\* Of the links of one kind only the newest can work, a revoked or used one
\* never, and the delivery status shown is what became of the newest, however
\* late the mailer or the provider reports on an earlier one.
NewestLinkOnly ==
    \A p \in Purposes, u \in Users :
        LET newest == Len(fate[p][u])
        IN  /\ {link[p][u], key[p][u]} \subseteq {0, newest}
            /\ (revoked[u] \/ consumed[u]) => link["setup"][u] = 0
            /\ shown[p][u] = "sent" => fate[p][u][newest] \in {"sent", "bounced", "complaint"}
            /\ shown[p][u] = "failed" =>
                fate[p][u][newest] \in {"failed"} \cup
                    (IF p = "reset" THEN {"bounced", "complaint"} ELSE {})
            /\ shown[p][u] \in {"bounced", "complaint"} => fate[p][u][newest] = shown[p][u]
=============================================================================
