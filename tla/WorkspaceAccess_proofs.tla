----------------------- MODULE WorkspaceAccess_proofs -----------------------
(***************************************************************************)
(* Who may use a workspace, by which link, mailbox and budget: theorems    *)
(* about the parts of MCWorkspace that Members, MailboxSync and            *)
(* RateLimits describe, for any number of people, browsers, lifecycle      *)
(* requests, links, synchronisations, messages, callers and buckets.       *)
(* Each part has a section: names for the variables it uses, its           *)
(* inductive invariant, a lemma for each kind of step, and its theorems.   *)
(* The last section puts the parts together.                               *)
(***************************************************************************)
EXTENDS MCWorkspace, Sequences, FiniteSets, FiniteSetTheorems, TLAPS

-----------------------------------------------------------------------------
(* The people of the workspace: Members.                                   *)

\* The names of its variables.
role == v1
membership == v2
verified == v3
chosen == v4
suppressed == v5
link == v6
key == v7
shown == v8
cooling == v9
consumed == v10
revoked == v11
fate == v12
unreported == v13
signedIn == v14
entering == v15
outdated == v16
request == v17

\* The roles of the workspace's people.
PeopleRoles == {"owner", "member"}
USE DEF role, membership, verified, chosen, suppressed, link, key, shown, cooling, consumed,
        revoked, fate, unreported, signedIn, entering, outdated, request, PeopleRoles

\* The cardinality that Members uses is the library's.
LEMMA PeopleSizes == \A S : M!Cardinality(S) = Cardinality(S)
BY DEF M!Cardinality, Cardinality

\* A lifecycle request in progress.
RequestRecords ==
    [kind : M!Lifecycle, target : Users, role : PeopleRoles, stale : BOOLEAN,
     rows : SUBSET Users]

\* The parts of TypeOK the argument uses, with the requests as records.
PeopleTyped ==
    /\ role \in [Users -> PeopleRoles]
    /\ membership \in [Users -> {"none", "active", "disabled"}]
    /\ verified \in [Users -> BOOLEAN]
    /\ chosen \in [Users -> BOOLEAN]
    /\ link \in [M!Purposes -> [Users -> Nat]]
    /\ fate \in [M!Purposes -> [Users -> Seq(M!Fates)]]
    /\ request \in [LifecycleRequests -> RequestRecords \cup {Idle}]

\* A request that may still commit has locked its target, who is a member, and,
\* if it takes an active owner away, another active owner.
Standing(r) ==
    request[r] # Idle /\ request[r].stale = FALSE =>
        /\ request[r].target \in request[r].rows
        /\ membership[request[r].target] # "none"
        /\ M!LosesOwner(request[r].kind, request[r].target, request[r].role) =>
            \E o \in M!Owners : o # request[r].target /\ o \in request[r].rows

\* So does every request.
RequestsStand == \A r \in LifecycleRequests : Standing(r)

\* Nobody is invited before the founder's address is verified.
FounderFirst ==
    verified[u1] = FALSE => \A u \in Users \ {u1} : membership[u] = "none"

\* Whoever chose a password was verified, the founder apart.
ChosenIsVerified ==
    \A u \in Users :
        chosen[u] = TRUE => membership[u] # "none" /\ (verified[u] = TRUE \/ u = u1)

\* An invitation is sent again only to somebody who is not verified yet.
ResendIsEarly ==
    \A r \in LifecycleRequests :
        request[r] # Idle /\ request[r].stale = FALSE /\ request[r].kind = "resend" =>
            verified[request[r].target] = FALSE /\ request[r].target # u1

\* A setup link never stands beside a chosen password.
SetupIsFirst ==
    \A u \in Users : link["setup"][u] # 0 => chosen[u] = FALSE

\* What the theorems assume of the constants.
PeopleAssumed ==
    /\ IsFiniteSet(Users)
    /\ u1 \in Users
    /\ "owner" \in PeopleRoles

\* The inductive invariant.
PeopleInv ==
    /\ PeopleAssumed
    /\ PeopleTyped
    /\ M!OwnerRemains
    /\ RequestsStand
    /\ FounderFirst
    /\ ChosenIsVerified
    /\ ResendIsEarly
    /\ SetupIsFirst
    /\ outdated = {}

-----------------------------------------------------------------------------
\* Who is one of at least two owners leaves another one.
LEMMA AnotherOwner ==
    ASSUME IsFiniteSet(Users), Cardinality(M!Owners) > 1, NEW u
    PROVE  \E o \in M!Owners : o # u
<1>1. IsFiniteSet(M!Owners)
  BY FS_Subset DEF M!Owners
<1> SUFFICES ASSUME \A o \in M!Owners : o = u PROVE FALSE
  OBVIOUS
<1>2. M!Owners = {} \/ M!Owners = {u}
  OBVIOUS
<1>3. Cardinality(M!Owners) = 0 \/ Cardinality(M!Owners) = 1
  BY <1>1, <1>2, FS_EmptySet, FS_Singleton, Zenon
<1> QED
  BY <1>3

\* Every initial state satisfies the invariant.
LEMMA PeopleStart ==
    ASSUME PeopleAssumed, M!Init
    PROVE  PeopleInv
<1> USE DEF M!Init, PeopleAssumed
<1>1. PeopleTyped
  <2>1. link \in [M!Purposes -> [Users -> Nat]]
    BY DEF M!None, M!Purposes
  <2>2. \A p \in M!Purposes, u \in Users : fate[p][u] \in Seq(M!Fates)
    <3>1. <<>> \in Seq(M!Fates) /\ <<"new">> \in Seq(M!Fates)
      BY DEF M!Fates
    <3> QED
      BY <3>1
  <2>3. fate \in [M!Purposes -> [Users -> Seq(M!Fates)]]
    BY <2>2 DEF M!Purposes
  <2>4. verified \in [Users -> BOOLEAN] /\ chosen \in [Users -> BOOLEAN]
    BY Zenon
  <2>5. /\ role \in [Users -> PeopleRoles]
        /\ membership \in [Users -> {"none", "active", "disabled"}]
        /\ request \in [LifecycleRequests -> RequestRecords \cup {Idle}]
    OBVIOUS
  <2> QED
    BY <2>1, <2>3, <2>4, <2>5 DEF PeopleTyped
<1>2. u1 \in M!Owners
  BY DEF M!Owners, M!Active
<1>3. RequestsStand /\ ResendIsEarly /\ outdated = {}
  BY DEF RequestsStand, Standing, ResendIsEarly
<1>4. FounderFirst /\ ChosenIsVerified
  BY DEF FounderFirst, ChosenIsVerified
<1>5. SetupIsFirst
  BY DEF SetupIsFirst, M!None, M!Purposes
<1> QED
  BY <1>1, <1>2, <1>3, <1>4, <1>5 DEF PeopleInv, M!OwnerRemains

-----------------------------------------------------------------------------
\* Of the requests d those that may still commit are as they were before an
\* update of members m and of person p, and it does not concern them.
Survivors(d, m, p) ==
    /\ d \in [LifecycleRequests -> RequestRecords \cup {Idle}]
    /\ \A r \in LifecycleRequests :
        d[r] # Idle /\ d[r].stale = FALSE =>
            /\ d[r] = request[r]
            /\ request[r].rows \cap m = {}
            /\ request[r].kind \in {"revoke", "resend"} => request[r].target # p

\* Requests that meet an update of members m and of person p: those it
\* concerns go stale, the others stand as before.
LEMMA DisturbedRequests ==
    ASSUME PeopleInv, NEW m \in SUBSET Users, NEW p
    PROVE  Survivors(M!Disturbed(m, p), m, p)
<1> DEFINE d == M!Disturbed(m, p)
<1>1. ASSUME NEW r \in LifecycleRequests
      PROVE  /\ d[r] \in RequestRecords \cup {Idle}
             /\ d[r] # Idle /\ d[r].stale = FALSE =>
                        /\ d[r] = request[r]
                        /\ request[r].rows \cap m = {}
                        /\ request[r].kind \in {"revoke", "resend"} => request[r].target # p
  <2>1. request[r] \in RequestRecords \cup {Idle}
    BY DEF PeopleInv, PeopleTyped
  <2> DEFINE hit == /\ request[r] # Idle
                    /\ \/ request[r].rows \cap m # {}
                       \/ request[r].kind \in {"revoke", "resend"} /\ request[r].target = p
  <2>2. d[r] = IF hit THEN [request[r] EXCEPT !.stale = TRUE] ELSE request[r]
    BY DEF M!Disturbed
  <2>3. CASE hit
    <3>1. d[r] = [request[r] EXCEPT !.stale = TRUE] /\ request[r] \in RequestRecords
      BY <2>1, <2>2, <2>3
    <3>2. d[r] \in RequestRecords /\ d[r].stale = TRUE
      BY <3>1 DEF RequestRecords
    <3> QED
      BY <3>2
  <2>4. CASE ~hit
    BY <2>1, <2>2, <2>4
  <2> QED
    BY <2>3, <2>4
<1>2. d = [r \in LifecycleRequests |-> d[r]]
  BY DEF M!Disturbed
<1> QED
  BY <1>1, <1>2 DEF Survivors

\* An update of the members m leaves the requests that it does not concern
\* with their target and with another owner.
LEMMA OthersStand ==
    ASSUME PeopleInv, NEW m \in SUBSET Users, NEW r \in LifecycleRequests,
           request[r] # Idle, request[r].stale = FALSE, request'[r] = request[r],
           request[r].rows \cap m = {},
           \A u \in Users \ m : role'[u] = role[u] /\ membership'[u] = membership[u]
    PROVE  Standing(r)'
<1>1. request[r] \in RequestRecords /\ Standing(r)
  BY DEF PeopleInv, PeopleTyped, RequestsStand
<1> DEFINE t == request[r].target
<1>2. t \in Users /\ t \in request[r].rows /\ t \notin m /\ membership[t] # "none"
  BY <1>1 DEF Standing, RequestRecords
<1>3. role'[t] = role[t] /\ membership'[t] = membership[t]
  BY <1>2
<1>4. (t \in M!Owners)' <=> t \in M!Owners
  BY <1>2, <1>3 DEF M!Owners, M!Active
<1>5. ASSUME NEW o \in M!Owners, o \in request[r].rows
      PROVE  o \in M!Owners'
  BY <1>5 DEF M!Owners, M!Active
<1>6. M!LosesOwner(request[r].kind, t, request[r].role)' =>
        \E o \in M!Owners' : o # t /\ o \in request[r].rows
  BY <1>1, <1>4, <1>5 DEF Standing, M!LosesOwner
<1> QED
  BY <1>2, <1>3, <1>6 DEF Standing

\* The types of the state after a step that updates no link but by a number.
QuietTypes ==
    /\ link' \in [M!Purposes -> [Users -> Nat]]
    /\ fate' \in [M!Purposes -> [Users -> Seq(M!Fates)]]
    /\ \A u \in Users : link'["setup"][u] # 0 => link["setup"][u] # 0

\* The requests that may still commit are among those there were.
FewerRequests ==
    /\ request' \in [LifecycleRequests -> RequestRecords \cup {Idle}]
    /\ \A r \in LifecycleRequests :
        request'[r] # Idle /\ request'[r].stale = FALSE => request'[r] = request[r]

\* A step that changes no membership, no address and no password.
LEMMA QuietPreserves ==
    ASSUME PeopleInv, UNCHANGED <<role, membership, verified, chosen>>,
           QuietTypes, FewerRequests, outdated' = {}
    PROVE  PeopleInv'
<1> USE DEF PeopleInv
<1>1. PeopleTyped'
  BY Zenon DEF PeopleTyped, QuietTypes, FewerRequests
<1>2. M!OwnerRemains' /\ FounderFirst' /\ ChosenIsVerified'
  BY DEF M!OwnerRemains, M!Owners, M!Active, FounderFirst, ChosenIsVerified
<1>3. RequestsStand'
  BY DEF RequestsStand, Standing, FewerRequests, M!LosesOwner, M!Owners, M!Active
<1>4. ResendIsEarly'
  BY DEF ResendIsEarly, FewerRequests
<1>5. SetupIsFirst'
  BY DEF SetupIsFirst, QuietTypes
<1> QED
  BY <1>1, <1>2, <1>3, <1>4, <1>5

\* Requests that no longer hold, or hold as before, are fewer.
LEMMA DisturbedAreFewer ==
    ASSUME PeopleInv, NEW m \in SUBSET Users, NEW p, request' = M!Disturbed(m, p)
    PROVE  FewerRequests
<1>1. Survivors(request', m, p)
  BY DisturbedRequests
<1> QED
  BY <1>1 DEF FewerRequests, Survivors

\* A new link of one kind.
LEMMA RotateTypes ==
    ASSUME PeopleInv, NEW p \in M!Purposes, NEW u \in Users, M!Rotate(p, u)
    PROVE  /\ link' \in [M!Purposes -> [Users -> Nat]]
           /\ fate' \in [M!Purposes -> [Users -> Seq(M!Fates)]]
           /\ \A v \in Users :
                link'["setup"][v] # 0 => link["setup"][v] # 0 \/ (p = "setup" /\ v = u)
<1> USE DEF PeopleInv, PeopleTyped
<1> DEFINE n == Len(fate[p][u]) + 1
<1>1. fate[p][u] \in Seq(M!Fates) /\ n \in Nat
  OBVIOUS
<1>2. link' = [link EXCEPT ![p][u] = n] /\ fate' = [fate EXCEPT ![p][u] = Append(@, "new")]
  BY DEF M!Rotate
<1>3. Append(fate[p][u], "new") \in Seq(M!Fates)
  BY <1>1 DEF M!Fates
<1>4. fate' \in [M!Purposes -> [Users -> Seq(M!Fates)]]
  BY <1>2, <1>3
<1>5. link' \in [M!Purposes -> [Users -> Nat]]
  BY <1>1, <1>2
<1>6. "setup" \in M!Purposes
  BY DEF M!Purposes
<1>7. ASSUME NEW v \in Users, link'["setup"][v] # 0, link["setup"][v] = 0
      PROVE  p = "setup" /\ v = u
  BY <1>1, <1>2, <1>6, <1>7
<1> QED
  BY <1>4, <1>5, <1>7

\* Mail, its outcome and the provider's feedback disturb nothing.
LEMMA MailPreserves ==
    ASSUME PeopleInv, NEW p \in M!Purposes, NEW u \in Users, NEW n,
           \/ M!Mail(p, u, n) \/ M!RecordDelivery(p, u, n) \/ M!HandlerStops(p, u, n)
           \/ M!ComesBack(p, u, n) \/ M!Feedback(p, u, n)
    PROVE  PeopleInv'
<1>1. UNCHANGED <<role, membership, verified, chosen, link>> /\ outdated' = {}
  BY DEF M!Mail, M!RecordDelivery, M!HandlerStops, M!ComesBack, M!Feedback, M!personVars,
     M!sessionVars, PeopleInv
<1>2. fate' \in [M!Purposes -> [Users -> Seq(M!Fates)]]
  <2>1. CASE UNCHANGED fate
    BY <2>1 DEF PeopleInv, PeopleTyped
  <2>2. ASSUME NEW f \in M!Fates, n \in DOMAIN fate[p][u],
               fate' = [fate EXCEPT ![p][u][n] = f]
        PROVE  fate' \in [M!Purposes -> [Users -> Seq(M!Fates)]]
    <3>1. fate[p][u] \in Seq(M!Fates)
      BY DEF PeopleInv, PeopleTyped
    <3>2. [fate[p][u] EXCEPT ![n] = f] \in Seq(M!Fates)
      BY <2>2, <3>1
    <3> QED
      BY <2>2, <3>2 DEF PeopleInv, PeopleTyped
  <2> QED
    BY <2>1, <2>2 DEF M!Mail, M!RecordDelivery, M!HandlerStops, M!ComesBack, M!Feedback, M!Fates
<1>3. QuietTypes
  BY <1>1, <1>2 DEF QuietTypes, PeopleInv, PeopleTyped
<1>4. UNCHANGED request \/ request' = M!Disturbed({}, u)
  BY DEF M!Mail, M!RecordDelivery, M!HandlerStops, M!ComesBack, M!Feedback
<1>5. FewerRequests
  <2>1. CASE UNCHANGED request
    BY <2>1 DEF FewerRequests, PeopleInv, PeopleTyped
  <2>2. CASE request' = M!Disturbed({}, u)
    BY <2>2, DisturbedAreFewer
  <2> QED
    BY <1>4, <2>1, <2>2
<1> QED
  BY <1>1, <1>3, <1>5, QuietPreserves

\* Nor does the end of a cooling period.
LEMMA CoolDownPreserves ==
    ASSUME PeopleInv, NEW p \in M!Purposes, NEW u \in Users, M!CoolDown(p, u)
    PROVE  PeopleInv'
<1>1. UNCHANGED <<role, membership, verified, chosen, link, fate, request>> /\ outdated' = {}
  BY DEF M!CoolDown, M!personVars, M!sessionVars, PeopleInv
<1>2. QuietTypes /\ FewerRequests
  BY <1>1 DEF QuietTypes, FewerRequests, PeopleInv, PeopleTyped
<1> QED
  BY <1>1, <1>2, QuietPreserves

\* Sessions come and go, and a request is given up.
LEMMA SessionsPreserve ==
    ASSUME PeopleInv,
           \/ \E s \in Browsers :
                \/ M!CommitLogin(s) \/ M!AbortLogin(s) \/ M!EndSession(s)
                \/ M!RevokeOtherSessions(s)
                \/ \E u \in Users : M!BeginLogin(s, u)
           \/ \E r \in LifecycleRequests : M!Abort(r)
    PROVE  PeopleInv'
<1>1. UNCHANGED <<role, membership, verified, chosen, link, fate>> /\ outdated' = {}
  BY DEF M!CommitLogin, M!AbortLogin, M!EndSession, M!RevokeOtherSessions, M!BeginLogin,
     M!Abort,
     M!personVars, M!linkVars, M!sessionVars, PeopleInv
<1>2. QuietTypes
  BY <1>1 DEF QuietTypes, PeopleInv, PeopleTyped
<1>3. UNCHANGED request \/ \E r \in LifecycleRequests : request' = [request EXCEPT ![r] = Idle]
  BY DEF M!CommitLogin, M!AbortLogin, M!EndSession, M!RevokeOtherSessions, M!BeginLogin, M!Abort
<1>4. FewerRequests
  BY <1>3 DEF FewerRequests, PeopleInv, PeopleTyped
<1> QED
  BY <1>1, <1>2, <1>4, QuietPreserves

\* Links that verify or reset, asked for by whoever may.
LEMMA LinkRequestsPreserve ==
    ASSUME PeopleInv, NEW u \in Users, M!ResendVerification(u) \/ M!RequestReset(u)
    PROVE  PeopleInv'
<1>1. UNCHANGED <<role, membership, verified, chosen>> /\ outdated' = {}
  BY DEF M!ResendVerification, M!RequestReset, M!personVars, M!sessionVars, PeopleInv
<1>2. PICK p \in {"verify", "reset"} : M!Rotate(p, u)
  BY DEF M!ResendVerification, M!RequestReset
<1>3. QuietTypes
  BY <1>2, RotateTypes DEF QuietTypes, M!Purposes
<1>4. FewerRequests
  BY DisturbedAreFewer DEF M!ResendVerification, M!RequestReset
<1> QED
  BY <1>1, <1>3, <1>4, QuietPreserves

-----------------------------------------------------------------------------
\* A member who gets in by a link: verified from now on, and with a password
\* chosen only when no setup link is left.
LEMMA EntryPreserves ==
    ASSUME PeopleInv, NEW u \in Users, UNCHANGED <<role, membership, fate>>,
           membership[u] # "none", request' = M!Disturbed({}, u), outdated' = {},
           verified' \in [Users -> BOOLEAN], chosen' \in [Users -> BOOLEAN],
           link' \in [M!Purposes -> [Users -> Nat]],
           verified'[u] = TRUE,
           \A v \in Users \ {u} : verified'[v] = verified[v] /\ chosen'[v] = chosen[v],
           \A v \in Users : link'["setup"][v] # 0 => link["setup"][v] # 0,
           chosen'[u] = chosen[u] \/ link'["setup"][u] = 0
    PROVE  PeopleInv'
<1> USE DEF PeopleInv
<1>1. Survivors(request', {}, u)
  BY DisturbedRequests
<1>2. PeopleTyped'
  BY <1>1, Zenon DEF PeopleTyped, Survivors
<1>3. M!OwnerRemains'
  BY DEF M!OwnerRemains, M!Owners, M!Active
<1>4. RequestsStand'
  BY <1>1 DEF Survivors, RequestsStand, Standing, M!LosesOwner, M!Owners, M!Active
<1>5. FounderFirst'
  <2>1. verified'[u1] = FALSE => verified[u1] = FALSE
    <3>1. CASE u1 = u
      BY <3>1, Zenon
    <3>2. CASE u1 # u
      BY <3>2, Zenon DEF PeopleAssumed
    <3> QED
      BY <3>1, <3>2
  <2> QED
    BY <2>1 DEF FounderFirst
<1>6. ChosenIsVerified'
  BY DEF ChosenIsVerified
<1>7. ResendIsEarly'
  <2>1. SUFFICES ASSUME NEW r \in LifecycleRequests, request'[r] # Idle, request'[r].stale = FALSE,
                        request'[r].kind = "resend"
                 PROVE  verified'[request'[r].target] = FALSE /\ request'[r].target # u1
    BY DEF ResendIsEarly
  <2>2. request'[r] = request[r] /\ request[r].target # u
    BY <1>1, <2>1 DEF Survivors
  <2>3. verified[request[r].target] = FALSE /\ request[r].target # u1
    BY <2>1, <2>2 DEF ResendIsEarly
  <2>4. request[r].target \in Users
    BY <2>1, <2>2 DEF PeopleTyped, RequestRecords
  <2> QED
    BY <2>2, <2>3, <2>4
<1>8. SetupIsFirst'
  BY DEF SetupIsFirst
<1> QED
  BY <1>2, <1>3, <1>4, <1>5, <1>6, <1>7, <1>8

\* A verification link, a setup link, a reset link is used.
LEMMA LinksPreserve ==
    ASSUME PeopleInv, NEW u \in Users,
           \/ \E s \in Browsers : M!VerifyEmail(s, u)
           \/ M!CompleteSetup(u) \/ M!CompleteReset(u)
    PROVE  PeopleInv'
<1> USE DEF PeopleInv, PeopleTyped
<1>1. CASE \E s \in Browsers : M!VerifyEmail(s, u)
  <2>1. /\ UNCHANGED <<role, membership, fate, chosen>>
        /\ membership[u] = "active" /\ request' = M!Disturbed({}, u) /\ outdated' = {}
        /\ verified' = [verified EXCEPT ![u] = TRUE]
        /\ link' = [link EXCEPT !["verify"][u] = 0]
    BY <1>1, Zenon DEF M!VerifyEmail, M!Active
  <2>2. verified' \in [Users -> BOOLEAN] /\ chosen' \in [Users -> BOOLEAN]
    BY <2>1, Zenon
  <2>3. verified'[u] = TRUE
    BY <2>1, Zenon
  <2>4. \A v \in Users \ {u} : verified'[v] = verified[v] /\ chosen'[v] = chosen[v]
    BY <2>1
  <2>5. /\ link' \in [M!Purposes -> [Users -> Nat]]
        /\ \A v \in Users : link'["setup"][v] # 0 => link["setup"][v] # 0
    BY <2>1 DEF M!Purposes
  <2>6. chosen'[u] = chosen[u]
    BY <2>1, Zenon
  <2> QED
    BY <2>1, <2>2, <2>3, <2>4, <2>5, <2>6, EntryPreserves
<1>2. CASE M!CompleteSetup(u)
  <2>1. chosen[u] = FALSE
    BY <1>2 DEF M!CompleteSetup, SetupIsFirst
  <2>2. /\ UNCHANGED <<role, membership, fate>>
        /\ membership[u] = "active" /\ request' = M!Disturbed({}, u)
        /\ verified' = [verified EXCEPT ![u] = TRUE]
        /\ chosen' = [chosen EXCEPT ![u] = TRUE]
        /\ link' = [link EXCEPT !["setup"][u] = 0]
    BY <1>2, Zenon DEF M!CompleteSetup, M!Active
  <2>3. outdated' = {}
    BY <1>2, <2>1, Zenon DEF M!CompleteSetup
  <2>4. verified' \in [Users -> BOOLEAN] /\ chosen' \in [Users -> BOOLEAN]
    BY <2>2, Zenon
  <2>5. verified'[u] = TRUE
    BY <2>2, Zenon
  <2>6. \A v \in Users \ {u} : verified'[v] = verified[v] /\ chosen'[v] = chosen[v]
    BY <2>2
  <2>7. /\ link' \in [M!Purposes -> [Users -> Nat]]
        /\ \A v \in Users : link'["setup"][v] # 0 => link["setup"][v] # 0
        /\ link'["setup"][u] = 0
    BY <2>2 DEF M!Purposes
  <2> QED
    BY <2>2, <2>3, <2>4, <2>5, <2>6, <2>7, EntryPreserves
<1>3. CASE M!CompleteReset(u)
  <2>1. /\ UNCHANGED <<role, membership, fate, verified>>
        /\ membership[u] = "active" /\ request' = M!Disturbed({}, u)
        /\ chosen' = [chosen EXCEPT ![u] = TRUE]
        /\ link' = [link EXCEPT !["reset"][u] = 0, !["setup"][u] = 0]
    BY <1>3, Zenon DEF M!CompleteReset, M!Active
  <2>2. outdated' = {}
    BY <1>3 DEF M!CompleteReset, M!EndSessions, M!Free
  <2>3. verified' \in [Users -> BOOLEAN] /\ chosen' \in [Users -> BOOLEAN]
    BY <2>1, Zenon
  <2>4. verified'[u] = TRUE
    BY <1>3, <2>1, Zenon DEF M!CompleteReset
  <2>5. \A v \in Users \ {u} : verified'[v] = verified[v] /\ chosen'[v] = chosen[v]
    BY <2>1
  <2>6. /\ link' \in [M!Purposes -> [Users -> Nat]]
        /\ \A v \in Users : link'["setup"][v] # 0 => link["setup"][v] # 0
        /\ link'["setup"][u] = 0
    BY <2>1 DEF M!Purposes
  <2> QED
    BY <2>1, <2>2, <2>3, <2>4, <2>5, <2>6, EntryPreserves
<1> QED
  BY <1>1, <1>2, <1>3

\* Once somebody is signed in, the founder was verified.
LEMMA FounderIsVerified ==
    ASSUME PeopleInv, NEW actor \in Users, M!SignedIn(actor)
    PROVE  verified[u1] # FALSE
BY DEF PeopleInv, M!SignedIn, M!Active, FounderFirst

\* An invitation.
LEMMA InvitePreserves ==
    ASSUME PeopleInv, NEW actor \in Users, NEW u \in Users, NEW as \in PeopleRoles,
           M!Invite(actor, u, as)
    PROVE  PeopleInv'
<1> USE DEF PeopleInv
<1>1. /\ membership[u] = "none" /\ M!Rotate("setup", u)
      /\ membership' = [membership EXCEPT ![u] = "active"]
      /\ role' = [role EXCEPT ![u] = as]
      /\ UNCHANGED <<verified, chosen, request>> /\ outdated' = {}
  BY DEF M!Invite, M!personVars, M!sessionVars
<1>2. verified[u1] # FALSE
  BY FounderIsVerified DEF M!Invite
<1>3. /\ link' \in [M!Purposes -> [Users -> Nat]]
      /\ fate' \in [M!Purposes -> [Users -> Seq(M!Fates)]]
      /\ \A v \in Users : link'["setup"][v] # 0 => link["setup"][v] # 0 \/ v = u
  BY <1>1, RotateTypes DEF M!Purposes
<1>4. PeopleTyped'
  <2>1. /\ membership' \in [Users -> {"none", "active", "disabled"}]
        /\ role' \in [Users -> PeopleRoles]
    BY <1>1 DEF PeopleTyped
  <2> QED
    BY <1>1, <1>3, <2>1, Zenon DEF PeopleTyped
<1>5. \A v \in Users \ {u} : role'[v] = role[v] /\ membership'[v] = membership[v]
  BY <1>1 DEF PeopleTyped
<1>6. M!OwnerRemains'
  BY <1>1, <1>5 DEF M!OwnerRemains, M!Owners, M!Active
<1>7. RequestsStand'
  <2>1. SUFFICES ASSUME NEW r \in LifecycleRequests, request[r] # Idle, request[r].stale = FALSE
                 PROVE  Standing(r)'
    BY <1>1 DEF RequestsStand, Standing
  <2>2. Standing(r) /\ request[r].target \in Users /\ request[r].target # u
    BY <1>1, <2>1 DEF RequestsStand, Standing, PeopleTyped, RequestRecords
  <2>3. \A o \in M!Owners : o \in M!Owners'
    BY <1>1, <1>5 DEF M!Owners, M!Active
  <2>4. request[r].target \in M!Owners' => request[r].target \in M!Owners
    BY <1>5, <2>2 DEF M!Owners, M!Active
  <2>5. membership'[request[r].target] # "none"
    BY <1>5, <2>1, <2>2 DEF Standing
  <2> QED
    BY <1>1, <2>1, <2>2, <2>3, <2>4, <2>5 DEF Standing, M!LosesOwner
<1>8. FounderFirst'
  BY <1>1, <1>2 DEF FounderFirst
<1>9. ChosenIsVerified'
  BY <1>1, <1>5 DEF ChosenIsVerified
<1>10. ResendIsEarly'
  BY <1>1 DEF ResendIsEarly
<1>11. SetupIsFirst'
  BY <1>1, <1>3 DEF SetupIsFirst, ChosenIsVerified, PeopleTyped
<1> QED
  BY <1>1, <1>4, <1>6, <1>7, <1>8, <1>9, <1>10, <1>11

-----------------------------------------------------------------------------
\* A request that begins on the rows of its target, its actor and, if it takes
\* an active owner away, the active owners.
LEMMA StartPreserves ==
    ASSUME PeopleInv, NEW r \in LifecycleRequests, NEW kind \in M!Lifecycle, NEW u \in Users,
           NEW as \in PeopleRoles, NEW rows \in SUBSET Users,
           M!Start(r, kind, u, as, rows), outdated' = outdated,
           u \in rows, membership[u] # "none",
           kind = "resend" => verified[u] = FALSE /\ u # u1
    PROVE  PeopleInv'
<1> USE DEF PeopleInv
<1> DEFINE locked == rows \cup IF M!LosesOwner(kind, u, as) THEN M!Owners ELSE {}
           new == [kind |-> kind, target |-> u, role |-> as, stale |-> FALSE,
                   rows |-> locked]
<1>1. /\ request' = [request EXCEPT ![r] = new]
      /\ UNCHANGED <<role, membership, verified, chosen, link, fate>>
  BY DEF M!Start, M!personVars, M!linkVars
<1>2. new \in RequestRecords
  BY DEF RequestRecords, M!Owners
<1>3. request' \in [LifecycleRequests -> RequestRecords \cup {Idle}] /\ request'[r] = new
  BY <1>1, <1>2 DEF PeopleTyped
<1>4. \A q \in LifecycleRequests \ {r} : request'[q] = request[q]
  BY <1>1 DEF PeopleTyped
<1>5. PeopleTyped'
  BY <1>1, <1>3, Zenon DEF PeopleTyped
<1>6. M!OwnerRemains' /\ FounderFirst' /\ ChosenIsVerified' /\ SetupIsFirst'
  BY <1>1 DEF M!OwnerRemains, M!Owners, M!Active, FounderFirst, ChosenIsVerified, SetupIsFirst
<1>7. RequestsStand'
  <2>1. Standing(r)'
    <3>1. M!LosesOwner(kind, u, as) => \E o \in M!Owners : o # u /\ o \in locked
      <4>1. SUFFICES ASSUME M!LosesOwner(kind, u, as)
                     PROVE  \E o \in M!Owners : o # u /\ o \in locked
        OBVIOUS
      <4>2. Cardinality(M!Owners) > 1
        BY <4>1, PeopleSizes DEF M!Start
      <4>3. PICK o \in M!Owners : o # u
        BY <4>2, AnotherOwner DEF PeopleAssumed
      <4> QED
        BY <4>1, <4>3
    <3>2. M!Owners' = M!Owners /\ (M!LosesOwner(kind, u, as)' <=> M!LosesOwner(kind, u, as))
      BY <1>1 DEF M!Owners, M!Active, M!LosesOwner
    <3>3. /\ request'[r].target = u /\ request'[r].rows = locked
          /\ request'[r].kind = kind /\ request'[r].role = as
      BY <1>3
    <3>4. u \in locked /\ membership'[u] # "none"
      BY <1>1
    <3> HIDE DEF locked, new, PeopleInv
    <3>5. M!LosesOwner(kind, u, as)' => \E o \in M!Owners' : o # u /\ o \in locked
      BY <3>1, <3>2
    <3> QED
      BY <3>3, <3>4, <3>5 DEF Standing, M!LosesOwner
  <2>2. ASSUME NEW q \in LifecycleRequests \ {r}
        PROVE  Standing(q)'
    BY <1>1, <1>4, <2>2 DEF RequestsStand, Standing, M!LosesOwner, M!Owners, M!Active
  <2> QED
    BY <2>1, <2>2 DEF RequestsStand
<1>8. ResendIsEarly'
  BY <1>1, <1>3, <1>4 DEF ResendIsEarly
<1> QED
  BY <1>5, <1>6, <1>7, <1>8

\* Every lifecycle request of an owner or an administrator.
LEMMA BeginPreserves ==
    ASSUME PeopleInv, NEW r \in LifecycleRequests, NEW actor \in Users, NEW u \in Users,
           \/ M!BeginSetStatus(r, actor, u) \/ M!BeginRevoke(r, actor, u)
           \/ M!BeginResend(r, actor, u)
           \/ \E as \in PeopleRoles : M!BeginUpdateRole(r, actor, u, as)
    PROVE  PeopleInv'
<1>1. role[u] \in PeopleRoles
  BY DEF PeopleInv, PeopleTyped
<1>2. CASE M!BeginSetStatus(r, actor, u)
  <2>1. PICK kind \in {"disable", "enable"} : M!Start(r, kind, u, role[u], {actor, u})
    BY <1>2 DEF M!BeginSetStatus
  <2>2. membership[u] # "none"
    BY <1>2 DEF M!BeginSetStatus, M!Active
  <2>3. outdated' = outdated
    BY <2>1 DEF M!Start, M!sessionVars
  <2>4. kind \in M!Lifecycle /\ kind # "resend" /\ {actor, u} \in SUBSET Users
    BY DEF M!Lifecycle
  <2> QED
    BY <1>1, <2>1, <2>2, <2>3, <2>4, StartPreserves
<1>3. CASE M!BeginRevoke(r, actor, u)
  <2>1. M!Start(r, "revoke", u, role[u], {u}) /\ membership[u] # "none"
    BY <1>3 DEF M!BeginRevoke
  <2>2. outdated' = outdated
    BY <2>1 DEF M!Start, M!sessionVars
  <2> QED
    BY <1>1, <2>1, <2>2, StartPreserves DEF M!Lifecycle
<1>4. CASE M!BeginResend(r, actor, u)
  <2>1. M!Start(r, "resend", u, role[u], {u}) /\ membership[u] # "none"
    BY <1>4 DEF M!BeginResend, M!Active
  <2>2. outdated' = outdated
    BY <2>1 DEF M!Start, M!sessionVars
  <2>3. verified[u] = FALSE
    BY <1>4 DEF M!BeginResend, PeopleInv, PeopleTyped
  <2>4. verified[u1] # FALSE
    BY <1>4, FounderIsVerified DEF M!BeginResend
  <2> QED
    BY <1>1, <2>1, <2>2, <2>3, <2>4, StartPreserves DEF M!Lifecycle
<1>5. ASSUME NEW as \in PeopleRoles, M!BeginUpdateRole(r, actor, u, as)
      PROVE  PeopleInv'
  <2>1. M!Start(r, "role", u, as, {actor, u}) /\ membership[u] # "none"
    BY <1>5 DEF M!BeginUpdateRole
  <2>2. outdated' = outdated
    BY <2>1 DEF M!Start, M!sessionVars
  <2> QED
    BY <2>1, <2>2, StartPreserves DEF M!Lifecycle
<1> QED
  BY <1>2, <1>3, <1>4, <1>5

-----------------------------------------------------------------------------
\* The commit of a request that nothing disturbed changes its target only, and
\* takes an owner away only as its kind says.
LEMMA CommitPreserves ==
    ASSUME PeopleInv, NEW r \in LifecycleRequests, NEW m \in SUBSET Users, NEW p,
           request[r] # Idle, request[r].stale = FALSE, m \subseteq {request[r].target},
           M!Done(r, m, p), outdated' = {}, UNCHANGED <<verified, chosen>>,
           role' \in [Users -> PeopleRoles],
           membership' \in [Users -> {"none", "active", "disabled"}],
           link' \in [M!Purposes -> [Users -> Nat]],
           fate' \in [M!Purposes -> [Users -> Seq(M!Fates)]],
           \A v \in Users \ m : role'[v] = role[v] /\ membership'[v] = membership[v],
           membership'[request[r].target] # "none",
           request[r].target \in M!Owners /\ request[r].target \notin M!Owners' =>
                M!LosesOwner(request[r].kind, request[r].target, request[r].role),
           \A v \in Users :
                link'["setup"][v] # 0 => link["setup"][v] # 0 \/ chosen[v] = FALSE
    PROVE  PeopleInv'
<1> USE DEF PeopleInv
<1> DEFINE t == request[r].target
<1>1. Standing(r) /\ t \in Users
  BY DEF RequestsStand, PeopleTyped, RequestRecords
<1>2. Survivors(request', m, p)
  <2>1. Survivors(M!Disturbed(m, p), m, p)
    BY DisturbedRequests
  <2>2. request' = [M!Disturbed(m, p) EXCEPT ![r] = Idle]
    BY DEF M!Done
  <2> HIDE DEF PeopleInv
  <2> QED
    BY <2>1, <2>2 DEF Survivors
<1>3. PeopleTyped'
  BY <1>2, Zenon DEF PeopleTyped, Survivors
<1>4. \A v \in Users \ {t} : v \in M!Owners => v \in M!Owners'
  BY DEF M!Owners, M!Active
<1>5. M!OwnerRemains'
  <2>1. PICK o \in M!Owners : TRUE
    BY DEF M!OwnerRemains
  <2>2. o \in Users
    BY DEF M!Owners
  <2>3. CASE o # t
    BY <1>4, <2>1, <2>2, <2>3 DEF M!OwnerRemains
  <2>4. CASE o = t /\ t \notin M!Owners'
    <3>1. PICK q \in M!Owners : q # t
      BY <1>1, <2>1, <2>4 DEF Standing
    <3>2. q \in Users
      BY DEF M!Owners
    <3> QED
      BY <1>4, <3>1, <3>2 DEF M!OwnerRemains
  <2>5. CASE t \in M!Owners'
    BY <2>5 DEF M!OwnerRemains
  <2> QED
    BY <2>3, <2>4, <2>5
<1>6. RequestsStand'
  <2>1. SUFFICES ASSUME NEW q \in LifecycleRequests, request'[q] # Idle, request'[q].stale = FALSE
                 PROVE  Standing(q)'
    BY DEF RequestsStand, Standing
  <2>2. request'[q] = request[q] /\ request[q].rows \cap m = {}
    BY <1>2, <2>1 DEF Survivors
  <2> HIDE DEF PeopleInv
  <2> QED
    BY <2>1, <2>2, OthersStand
<1>7. FounderFirst'
  BY <1>1 DEF FounderFirst, Standing
<1>8. ChosenIsVerified'
  BY DEF ChosenIsVerified
<1>9. ResendIsEarly'
  BY <1>2 DEF ResendIsEarly, Survivors
<1>10. SetupIsFirst'
  BY DEF SetupIsFirst
<1> QED
  BY <1>3, <1>5, <1>6, <1>7, <1>8, <1>9, <1>10

\* The five commits, and a request that gives up.
LEMMA CommitsPreserve ==
    ASSUME PeopleInv, NEW r \in LifecycleRequests,
           \/ M!CommitDisable(r) \/ M!CommitEnable(r) \/ M!CommitRole(r)
           \/ M!CommitRevoke(r) \/ M!CommitResend(r)
    PROVE  PeopleInv'
<1> USE DEF PeopleInv, M!Pending
<1> DEFINE t == request[r].target
<1>1. request[r] # Idle /\ request[r] \in RequestRecords /\ request[r].stale = FALSE
  BY DEF M!CommitDisable, M!CommitEnable, M!CommitRole, M!CommitRevoke, M!CommitResend,
     PeopleTyped,
     RequestRecords
<1>2. t \in Users /\ request[r].role \in PeopleRoles /\ membership[t] # "none"
  BY <1>1 DEF RequestRecords, RequestsStand, Standing
<1>3. CASE M!CommitDisable(r)
  <2>1. /\ request[r].kind = "disable" /\ M!Done(r, {t}, Nobody)
        /\ membership' = [membership EXCEPT ![t] = "disabled"]
        /\ UNCHANGED <<role, verified, chosen, link, fate>> /\ outdated' = {}
    BY <1>3 DEF M!CommitDisable, M!personVars, M!linkVars
  <2> QED
    BY <1>1, <1>2, <2>1, CommitPreserves DEF PeopleTyped, M!LosesOwner
<1>4. CASE M!CommitEnable(r)
  <2>1. /\ M!Done(r, {t}, Nobody)
        /\ membership' = [membership EXCEPT ![t] = "active"]
        /\ UNCHANGED <<role, verified, chosen, link, fate>> /\ outdated' = {}
    BY <1>4 DEF M!CommitEnable, M!personVars, M!linkVars, M!sessionVars
  <2>2. t \in M!Owners => t \in M!Owners'
    BY <1>2, <2>1 DEF M!Owners, M!Active, PeopleTyped
  <2> QED
    BY <1>1, <1>2, <2>1, <2>2, CommitPreserves DEF PeopleTyped
<1>5. CASE M!CommitRole(r)
  <2>1. /\ request[r].kind = "role" /\ M!Done(r, {t}, Nobody)
        /\ role' = [role EXCEPT ![t] = request[r].role]
        /\ UNCHANGED <<membership, verified, chosen, link, fate>> /\ outdated' = {}
    BY <1>5 DEF M!CommitRole, M!personVars, M!linkVars, M!sessionVars
  <2>2. t \in M!Owners /\ t \notin M!Owners' => M!LosesOwner("role", t, request[r].role)
    BY <1>2, <2>1 DEF M!Owners, M!Active, PeopleTyped, M!LosesOwner
  <2> QED
    BY <1>1, <1>2, <2>1, <2>2, CommitPreserves DEF PeopleTyped
<1>6. CASE M!CommitRevoke(r)
  <2>1. /\ request[r].kind = "revoke" /\ M!Done(r, {t}, t)
        /\ membership' = [membership EXCEPT ![t] = "disabled"]
        /\ link' = [link EXCEPT !["setup"][t] = 0]
        /\ UNCHANGED <<role, verified, chosen, fate>> /\ outdated' = {}
    BY <1>6 DEF M!CommitRevoke, M!personVars
  <2>2. /\ link' \in [M!Purposes -> [Users -> Nat]]
        /\ \A v \in Users : link'["setup"][v] # 0 => link["setup"][v] # 0
    BY <1>2, <2>1 DEF PeopleTyped, M!Purposes
  <2>3. /\ role' \in [Users -> PeopleRoles] /\ membership'[t] # "none"
        /\ membership' \in [Users -> {"none", "active", "disabled"}]
        /\ fate' \in [M!Purposes -> [Users -> Seq(M!Fates)]]
        /\ \A v \in Users \ {t} : role'[v] = role[v] /\ membership'[v] = membership[v]
    BY <1>2, <2>1 DEF PeopleTyped
  <2>4. t \in M!Owners => M!LosesOwner(request[r].kind, t, request[r].role)
    BY <2>1 DEF M!LosesOwner
  <2>5. PICK m \in SUBSET Users : m = {t}
    BY <1>2
  <2>6. /\ m \subseteq {request[r].target} /\ M!Done(r, m, t)
        /\ \A v \in Users \ m : role'[v] = role[v] /\ membership'[v] = membership[v]
        /\ UNCHANGED <<verified, chosen>> /\ outdated' = {}
    BY <2>1, <2>3, <2>5
  <2>7. \A v \in Users :
            link'["setup"][v] # 0 => link["setup"][v] # 0 \/ chosen[v] = FALSE
    BY <2>2
  <2> HIDE DEF PeopleInv, M!Pending
  <2> QED
    BY <1>1, <2>2, <2>3, <2>4, <2>6, <2>7, CommitPreserves
<1>7. CASE M!CommitResend(r)
  <2>1. /\ request[r].kind = "resend" /\ M!Done(r, {}, t) /\ M!Rotate("setup", t)
        /\ UNCHANGED <<role, membership, verified, chosen>> /\ outdated' = {}
    BY <1>7 DEF M!CommitResend, M!personVars, M!sessionVars
  <2>2. chosen[t] = FALSE
    BY <1>1, <1>2, <2>1 DEF ResendIsEarly, ChosenIsVerified, PeopleTyped
  <2>3. /\ link' \in [M!Purposes -> [Users -> Nat]]
        /\ fate' \in [M!Purposes -> [Users -> Seq(M!Fates)]]
        /\ \A v \in Users :
                link'["setup"][v] # 0 => link["setup"][v] # 0 \/ chosen[v] = FALSE
    BY <1>2, <2>1, <2>2, RotateTypes DEF M!Purposes
  <2>4. M!Owners' = M!Owners
    BY <2>1 DEF M!Owners, M!Active
  <2> QED
    BY <1>1, <1>2, <2>1, <2>3, <2>4, CommitPreserves DEF PeopleTyped
<1> QED
  BY <1>3, <1>4, <1>5, <1>6, <1>7

-----------------------------------------------------------------------------
\* Every step keeps the invariant, and so does no step.
LEMMA PeopleStep ==
    ASSUME PeopleInv, [M!Next]_M!vars
    PROVE  PeopleInv'
<1>1. CASE UNCHANGED M!vars
  <2>1. /\ UNCHANGED <<role, membership, verified, chosen, link, fate, request>>
        /\ outdated' = outdated
    BY <1>1 DEF M!vars
  <2>2. QuietTypes /\ FewerRequests
    BY <2>1 DEF QuietTypes, FewerRequests, PeopleInv, PeopleTyped
  <2> QED
    BY <2>1, <2>2, QuietPreserves DEF PeopleInv
<1>2. CASE \/ \E p \in M!Purposes, u \in Users, n \in 1..Links :
                \/ M!Mail(p, u, n) \/ M!RecordDelivery(p, u, n) \/ M!HandlerStops(p, u, n)
                \/ M!ComesBack(p, u, n) \/ M!Feedback(p, u, n)
           \/ \E p \in M!Purposes, u \in Users : M!CoolDown(p, u)
  <2>1. CASE \E p \in M!Purposes, u \in Users, n \in 1..Links :
                \/ M!Mail(p, u, n) \/ M!RecordDelivery(p, u, n) \/ M!HandlerStops(p, u, n)
                \/ M!ComesBack(p, u, n) \/ M!Feedback(p, u, n)
    BY <2>1, MailPreserves
  <2>2. CASE \E p \in M!Purposes, u \in Users : M!CoolDown(p, u)
    BY <2>2, CoolDownPreserves
  <2> QED
    BY <1>2, <2>1, <2>2
<1>3. CASE \E u \in Users :
             \/ M!ResendVerification(u) \/ M!CompleteSetup(u) \/ M!RequestReset(u)
             \/ M!CompleteReset(u)
  BY <1>3, LinkRequestsPreserve, LinksPreserve
<1>4. CASE \E s \in Browsers :
             \/ M!CommitLogin(s) \/ M!AbortLogin(s) \/ M!EndSession(s)
             \/ M!RevokeOtherSessions(s)
             \/ \E u \in Users : M!VerifyEmail(s, u) \/ M!BeginLogin(s, u)
  BY <1>4, SessionsPreserve, LinksPreserve
<1>5. CASE \E actor, u \in Users :
             \/ \E as \in PeopleRoles : M!Invite(actor, u, as)
             \/ \E r \in LifecycleRequests :
                 \/ M!BeginSetStatus(r, actor, u) \/ M!BeginRevoke(r, actor, u)
                 \/ M!BeginResend(r, actor, u)
                 \/ \E as \in PeopleRoles : M!BeginUpdateRole(r, actor, u, as)
  BY <1>5, InvitePreserves, BeginPreserves
<1>6. CASE \E r \in LifecycleRequests :
             \/ M!CommitDisable(r) \/ M!CommitEnable(r) \/ M!CommitRole(r)
             \/ M!CommitRevoke(r) \/ M!CommitResend(r) \/ M!Abort(r)
  BY <1>6, CommitsPreserve, SessionsPreserve
<1> QED
  BY <1>1, <1>2, <1>3, <1>4, <1>5, <1>6 DEF M!Next


\* The records of links, as far as the argument about them needs.
LinksTyped ==
    /\ key \in [M!Purposes -> [Users -> Nat]]
    /\ shown \in [M!Purposes -> [Users -> M!Shown]]
    /\ consumed \in [Users -> BOOLEAN]
    /\ revoked \in [Users -> BOOLEAN]
    /\ unreported \subseteq M!Purposes \X Users \X (Nat \ {0})

\* A link and its delivery key are the newest or none, and the status shown is
\* what became of the newest.
Follows(p, u) ==
    LET newest == Len(fate[p][u])
    IN  /\ {link[p][u], key[p][u]} \subseteq {0, newest}
        /\ shown[p][u] = "sent" => fate[p][u][newest] \in {"sent", "bounced", "complaint"}
        /\ shown[p][u] = "failed" =>
            fate[p][u][newest] \in {"failed"} \cup
                (IF p = "reset" THEN {"bounced", "complaint"} ELSE {})
        /\ shown[p][u] \in {"bounced", "complaint"} => fate[p][u][newest] = shown[p][u]

\* So for every kind of link and every person.
LinksFollow == \A p \in M!Purposes, u \in Users : Follows(p, u)

\* No setup link is left of an invitation that was revoked or used.
SpentIsVoid ==
    \A u \in Users : revoked[u] = TRUE \/ consumed[u] = TRUE => link["setup"][u] = 0

\* Nobody used, or lost, an invitation that was never sent.
StrangersAreNew ==
    \A u \in Users : membership[u] = "none" => consumed[u] = FALSE /\ revoked[u] = FALSE

\* An invitation is sent again only while it was not used.
ResendIsUnused ==
    \A r \in LifecycleRequests :
        request[r] # Idle /\ request[r].stale = FALSE /\ request[r].kind = "resend" =>
            consumed[request[r].target] = FALSE

\* The inductive invariant of links.
LinksInv == LinksTyped /\ LinksFollow /\ SpentIsVoid /\ StrangersAreNew /\ ResendIsUnused

\* The property the runs check, from its parts.
LEMMA NewestFromParts ==
    ASSUME LinksInv PROVE M!NewestLinkOnly
<1> SUFFICES ASSUME NEW p \in M!Purposes, NEW u \in Users
             PROVE  /\ Follows(p, u)
                    /\ revoked[u] \/ consumed[u] => link["setup"][u] = 0
  BY DEF M!NewestLinkOnly, Follows
<1>1. Follows(p, u)
  BY DEF LinksInv, LinksFollow
<1>2. revoked[u] \in BOOLEAN /\ consumed[u] \in BOOLEAN
  BY DEF LinksInv, LinksTyped
<1>3. revoked[u] = TRUE \/ consumed[u] = TRUE => link["setup"][u] = 0
  BY DEF LinksInv, SpentIsVoid
<1> QED
  BY <1>1, <1>2, <1>3, Zenon

\* Links that are cleared, and statuses that say so, follow as before.
LEMMA ClearedFollow ==
    ASSUME LinksFollow, NEW q \in M!Purposes, NEW v \in Users, fate'[q][v] = fate[q][v],
           link'[q][v] \in {0, link[q][v]}, key'[q][v] \in {0, key[q][v]},
           shown'[q][v] \in {"consumed", shown[q][v]}
    PROVE  Follows(q, v)'
<1>1. Follows(q, v)
  BY DEF LinksFollow
<1> DEFINE newest == Len(fate[q][v])
           last == fate[q][v][newest]
<1>2. newest' = newest /\ last' = last
  OBVIOUS
<1>3. {link'[q][v], key'[q][v]} \subseteq {0, newest}
  BY <1>1 DEF Follows
<1> QED
  BY <1>1, <1>2, <1>3 DEF Follows

\* A new link is the newest, and the other people's links stay as they are.
LEMMA RotatedFollow ==
    ASSUME PeopleInv, LinksTyped, LinksFollow, NEW p \in M!Purposes, NEW u \in Users,
           M!Rotate(p, u)
    PROVE  /\ LinksFollow'
           /\ key' \in [M!Purposes -> [Users -> Nat]] /\ shown' \in [M!Purposes -> [Users -> M!Shown]]
           /\ unreported' \subseteq M!Purposes \X Users \X (Nat \ {0})
           /\ \A v \in Users : p # "setup" \/ v # u => link'["setup"][v] = link["setup"][v]
<1> DEFINE n == Len(fate[p][u]) + 1
<1>1. /\ link' = [link EXCEPT ![p][u] = n] /\ key' = [key EXCEPT ![p][u] = n]
      /\ shown' = [shown EXCEPT ![p][u] = "pending"]
      /\ fate' = [fate EXCEPT ![p][u] = Append(@, "new")]
      /\ unreported' = unreported \cup {<<p, u, n>>}
  BY DEF M!Rotate
<1>2. /\ fate[p][u] \in Seq(M!Fates) /\ n \in Nat \ {0}
      /\ link \in [M!Purposes -> [Users -> Nat]] /\ fate \in [M!Purposes -> [Users -> Seq(M!Fates)]]
  BY DEF PeopleInv, PeopleTyped
<1>3. /\ link'[p][u] = n /\ key'[p][u] = n /\ shown'[p][u] = "pending"
      /\ fate'[p][u] = Append(fate[p][u], "new")
  BY <1>1, <1>2 DEF LinksTyped
<1>4. Len(fate'[p][u]) = n
  BY <1>2, <1>3
<1>5. Follows(p, u)'
  BY <1>3, <1>4 DEF Follows
<1>6. ASSUME NEW q \in M!Purposes, NEW v \in Users, q # p \/ v # u
      PROVE  /\ link'[q][v] = link[q][v] /\ key'[q][v] = key[q][v]
             /\ shown'[q][v] = shown[q][v] /\ fate'[q][v] = fate[q][v]
  BY <1>1, <1>2, <1>6 DEF LinksTyped
<1>7. LinksFollow'
  <2> SUFFICES ASSUME NEW q \in M!Purposes, NEW v \in Users PROVE Follows(q, v)'
    BY DEF LinksFollow
  <2>1. CASE q # p \/ v # u
    BY <1>6, <2>1, ClearedFollow
  <2>2. CASE q = p /\ v = u
    BY <1>5, <2>2
  <2> QED
    BY <2>1, <2>2
<1>8. \A v \in Users : p # "setup" \/ v # u => link'["setup"][v] = link["setup"][v]
  BY <1>6 DEF M!Purposes
<1>9. key' \in [M!Purposes -> [Users -> Nat]] /\ shown' \in [M!Purposes -> [Users -> M!Shown]]
  BY <1>1, <1>2 DEF LinksTyped, M!Shown
<1>10. unreported' \subseteq M!Purposes \X Users \X (Nat \ {0})
  BY <1>1, <1>2 DEF LinksTyped
<1> HIDE DEF n
<1> QED
  BY <1>7, <1>8, <1>9, <1>10

\* The mail goes out, or comes back: the status shown said nothing of the kind.
LEMMA FateFollows ==
    ASSUME PeopleInv, LinksTyped, LinksFollow, NEW p \in M!Purposes, NEW u \in Users, NEW n,
           M!Mail(p, u, n) \/ M!ComesBack(p, u, n)
    PROVE  LinksFollow' /\ UNCHANGED <<link, key, shown, unreported>>
<1>1. /\ n \in DOMAIN fate[p][u]
      /\ UNCHANGED <<link, key, shown, unreported>>
  BY DEF M!Mail, M!ComesBack
<1>2. PICK f \in {"sent", "failed", "bounced", "complaint"} :
         /\ fate' = [fate EXCEPT ![p][u][n] = f]
         /\ \/ fate[p][u][n] = "new"
            \/ fate[p][u][n] = "sent" /\ f \in {"bounced", "complaint"}
  BY DEF M!Mail, M!ComesBack
<1>3. fate[p][u] \in Seq(M!Fates) /\ fate \in [M!Purposes -> [Users -> Seq(M!Fates)]]
  BY DEF PeopleInv, PeopleTyped
<1>4. /\ fate'[p][u] = [fate[p][u] EXCEPT ![n] = f]
      /\ \A q \in M!Purposes, v \in Users : q # p \/ v # u => fate'[q][v] = fate[q][v]
  BY <1>2, <1>3
<1>5. Len(fate'[p][u]) = Len(fate[p][u])
  BY <1>1, <1>3, <1>4
<1>6. ASSUME NEW m \in DOMAIN fate[p][u]
      PROVE  fate'[p][u][m] = IF m = n THEN f ELSE fate[p][u][m]
  BY <1>1, <1>3, <1>4, <1>6
<1> DEFINE newest == Len(fate[p][u])
<1>7. newest \in DOMAIN fate[p][u]
  BY <1>1, <1>3
<1>8. Follows(p, u)
  BY DEF LinksFollow
<1>9. Follows(p, u)'
  <2>1. {link'[p][u], key'[p][u]} \subseteq {0, Len(fate'[p][u])}
    BY <1>1, <1>5, <1>8 DEF Follows
  <2>2. fate'[p][u][Len(fate'[p][u])] = IF newest = n THEN f ELSE fate[p][u][newest]
    BY <1>5, <1>6, <1>7
  <2>3. shown' = shown
    BY <1>1
  <2>4. CASE newest # n
    BY <1>8, <2>1, <2>2, <2>3, <2>4 DEF Follows
  <2>5. CASE newest = n /\ fate[p][u][n] = "new"
    BY <1>8, <2>1, <2>2, <2>3, <2>5 DEF Follows
  <2>6. CASE newest = n /\ fate[p][u][n] = "sent" /\ f \in {"bounced", "complaint"}
    BY <1>8, <2>1, <2>2, <2>3, <2>6 DEF Follows
  <2> QED
    BY <1>2, <2>4, <2>5, <2>6
<1>10. LinksFollow'
  <2> SUFFICES ASSUME NEW q \in M!Purposes, NEW v \in Users PROVE Follows(q, v)'
    BY DEF LinksFollow
  <2>1. CASE q # p \/ v # u
    BY <1>1, <1>4, <2>1, ClearedFollow
  <2>2. CASE q = p /\ v = u
    BY <1>9, <2>2
  <2> QED
    BY <2>1, <2>2
<1> QED
  BY <1>1, <1>10

\* What the mailer, or the provider, reports is about the newest link.
LEMMA ReportFollows ==
    ASSUME PeopleInv, LinksTyped, LinksFollow, NEW p \in M!Purposes, NEW u \in Users, NEW n,
           M!RecordDelivery(p, u, n) \/ M!Feedback(p, u, n)
    PROVE  /\ LinksFollow' /\ shown' \in [M!Purposes -> [Users -> M!Shown]]
           /\ unreported' \subseteq unreported /\ UNCHANGED <<link, key, fate>>
<1>1. unreported' \subseteq unreported /\ UNCHANGED <<link, key, fate>>
  BY DEF M!RecordDelivery, M!Feedback
<1>2. CASE UNCHANGED shown
  <2>1. LinksFollow'
    BY <1>1, <1>2, ClearedFollow DEF LinksFollow
  <2> QED
    BY <1>1, <1>2, <2>1 DEF LinksTyped
<1>3. ASSUME ~UNCHANGED shown
      PROVE  /\ n # 0 /\ key[p][u] = n
             /\ \E s \in M!Shown :
                   /\ shown' = [shown EXCEPT ![p][u] = s]
                   /\ \/ s = "failed" /\ fate[p][u][n] = "failed"
                      \/ s = "sent" /\ fate[p][u][n] \notin {"new", "failed"}
                      \/ s = "failed" /\ p = "reset" /\ fate[p][u][n] \in {"bounced", "complaint"}
                      \/ s = "complaint" /\ shown[p][u] = "complaint"
                      \/ s \in {"bounced", "complaint"} /\ s = fate[p][u][n]
  <2>1. CASE M!RecordDelivery(p, u, n)
    <3>1. <<p, u, n>> \in unreported /\ fate[p][u][n] # "new" /\ M!Awaits(p, u, n)
          /\ shown' = [shown EXCEPT ![p][u] = IF fate[p][u][n] = "failed" THEN "failed" ELSE "sent"]
      BY <1>3, <2>1 DEF M!RecordDelivery
    <3>2. n # 0
      BY <3>1 DEF LinksTyped
    <3>3. key[p][u] = n
      BY <3>1 DEF M!Awaits
    <3>4. PICK s \in {"failed", "sent"} :
            s = IF fate[p][u][n] = "failed" THEN "failed" ELSE "sent"
      OBVIOUS
    <3>5. s \in M!Shown /\ shown' = [shown EXCEPT ![p][u] = s]
      BY <3>1, <3>4 DEF M!Shown
    <3> QED
      BY <3>1, <3>2, <3>3, <3>4, <3>5
  <2>2. CASE M!Feedback(p, u, n)
    <3>1. /\ n \in DOMAIN fate[p][u] /\ fate[p][u][n] \in {"bounced", "complaint"}
          /\ key[p][u] = n
          /\ shown' = [shown EXCEPT ![p][u] = IF p = "reset" THEN "failed"
                                              ELSE IF @ = "complaint" THEN @ ELSE fate[p][u][n]]
      BY <2>2 DEF M!Feedback, M!Matches
    <3>2. fate[p][u] \in Seq(M!Fates)
      BY DEF PeopleInv, PeopleTyped
    <3>3. n # 0
      BY <3>1, <3>2
    <3>4. PICK s \in {"failed", "bounced", "complaint"} :
            s = IF p = "reset" THEN "failed"
                ELSE IF shown[p][u] = "complaint" THEN shown[p][u] ELSE fate[p][u][n]
      BY <3>1
    <3>5. s \in M!Shown /\ shown' = [shown EXCEPT ![p][u] = s]
      BY <3>1, <3>4 DEF M!Shown, LinksTyped
    <3> QED
      BY <3>1, <3>3, <3>4, <3>5
  <2> QED
    BY <2>1, <2>2
<1>4. CASE ~UNCHANGED shown
  <2>1. PICK s \in M!Shown :
           /\ shown' = [shown EXCEPT ![p][u] = s]
           /\ \/ s = "failed" /\ fate[p][u][n] = "failed"
              \/ s = "sent" /\ fate[p][u][n] \notin {"new", "failed"}
              \/ s = "failed" /\ p = "reset" /\ fate[p][u][n] \in {"bounced", "complaint"}
              \/ s = "complaint" /\ shown[p][u] = "complaint"
              \/ s \in {"bounced", "complaint"} /\ s = fate[p][u][n]
    BY <1>3, <1>4
  <2>2. Follows(p, u)
    BY DEF LinksFollow
  <2>3. n = Len(fate[p][u]) /\ n # 0
    BY <1>3, <1>4, <2>2 DEF Follows
  <2>4. fate[p][u] \in Seq(M!Fates)
    BY DEF PeopleInv, PeopleTyped
  <2>5. fate[p][u][n] \in M!Fates
    BY <2>3, <2>4
  <2>6. /\ shown' \in [M!Purposes -> [Users -> M!Shown]] /\ shown'[p][u] = s
        /\ \A q \in M!Purposes, v \in Users : q # p \/ v # u => shown'[q][v] = shown[q][v]
    BY <2>1 DEF LinksTyped
  <2>7. Follows(p, u)'
    <3>1. {link'[p][u], key'[p][u]} \subseteq {0, Len(fate'[p][u])}
      BY <1>1, <2>2 DEF Follows
    <3>2. fate'[p][u][Len(fate'[p][u])] = fate[p][u][n]
      BY <1>1, <2>3
    <3> QED
      BY <2>1, <2>2, <2>3, <2>5, <2>6, <3>1, <3>2 DEF Follows, M!Fates
  <2>8. LinksFollow'
    <3> SUFFICES ASSUME NEW q \in M!Purposes, NEW v \in Users PROVE Follows(q, v)'
      BY DEF LinksFollow
    <3>1. CASE q # p \/ v # u
      BY <1>1, <2>6, <3>1, ClearedFollow
    <3>2. CASE q = p /\ v = u
      BY <2>7, <3>2
    <3> QED
      BY <3>1, <3>2
  <2> QED
    BY <1>1, <2>6, <2>8
<1> QED
  BY <1>2, <1>4

\* A committed request is gone, and of the others fewer may still commit.
LEMMA DoneAreFewer ==
    ASSUME PeopleInv, NEW r \in LifecycleRequests, NEW m \in SUBSET Users, NEW p, M!Done(r, m,
           p)
    PROVE  FewerRequests
<1>1. Survivors(M!Disturbed(m, p), m, p)
  BY DisturbedRequests
<1>2. request' = [M!Disturbed(m, p) EXCEPT ![r] = Idle]
  BY DEF M!Done
<1> QED
  BY <1>1, <1>2 DEF Survivors, FewerRequests

\* Steps that use up no invitation.
LEMMA LinksPersist ==
    ASSUME LinksInv, FewerRequests, UNCHANGED consumed, LinksTyped', LinksFollow',
           SpentIsVoid', StrangersAreNew'
    PROVE  LinksInv'
BY DEF LinksInv, ResendIsUnused, FewerRequests

\* Steps that change no link, no membership and no invitation.
LEMMA LinksRest ==
    ASSUME PeopleInv, LinksInv, FewerRequests,
           UNCHANGED <<membership, link, key, shown, consumed, revoked, fate>>,
           unreported' \subseteq unreported
    PROVE  LinksInv'
<1>1. LinksTyped'
  BY DEF LinksInv, LinksTyped
<1>2. LinksFollow'
  BY ClearedFollow DEF LinksInv, LinksFollow
<1>3. SpentIsVoid' /\ StrangersAreNew'
  BY DEF LinksInv, SpentIsVoid, StrangersAreNew
<1> QED
  BY <1>1, <1>2, <1>3, LinksPersist

\* A membership that is granted again, taken or changed.
LEMMA LinksOutliveMemberships ==
    ASSUME PeopleInv, LinksInv, FewerRequests, NEW t \in Users, membership'[t] # "none",
           \A v \in Users \ {t} : membership'[v] = membership[v],
           UNCHANGED <<link, key, shown, consumed, revoked, fate, unreported>>
    PROVE  LinksInv'
<1>1. LinksTyped'
  BY DEF LinksInv, LinksTyped
<1>2. LinksFollow'
  BY ClearedFollow DEF LinksInv, LinksFollow
<1>3. SpentIsVoid'
  BY DEF LinksInv, SpentIsVoid
<1>4. StrangersAreNew'
  <2>1. ASSUME NEW v \in Users, membership'[v] = "none", membership[v] = "none"
        PROVE  consumed'[v] = FALSE /\ revoked'[v] = FALSE
    BY <2>1 DEF LinksInv, StrangersAreNew
  <2> QED
    BY <2>1 DEF StrangersAreNew
<1> QED
  BY <1>1, <1>2, <1>3, <1>4, LinksPersist

\* Mail, its outcome and the provider's feedback.
LEMMA MailFollows ==
    ASSUME PeopleInv, LinksInv, NEW p \in M!Purposes, NEW u \in Users, NEW n,
           \/ M!Mail(p, u, n) \/ M!RecordDelivery(p, u, n) \/ M!HandlerStops(p, u, n)
           \/ M!ComesBack(p, u, n) \/ M!Feedback(p, u, n)
    PROVE  LinksInv'
<1>1. UNCHANGED request \/ request' = M!Disturbed({}, u)
  BY DEF M!Mail, M!RecordDelivery, M!HandlerStops, M!ComesBack, M!Feedback
<1>2. FewerRequests
  <2>1. CASE UNCHANGED request
    BY <2>1 DEF FewerRequests, PeopleInv, PeopleTyped
  <2>2. CASE request' = M!Disturbed({}, u)
    BY <2>2, DisturbedAreFewer
  <2> QED
    BY <1>1, <2>1, <2>2
<1>3. UNCHANGED <<membership, link, consumed, revoked>>
  BY DEF M!Mail, M!RecordDelivery, M!HandlerStops, M!ComesBack, M!Feedback
<1>4. SpentIsVoid' /\ StrangersAreNew'
  BY <1>3 DEF LinksInv, SpentIsVoid, StrangersAreNew
<1>5. CASE M!Mail(p, u, n) \/ M!ComesBack(p, u, n)
  <2>1. LinksFollow' /\ UNCHANGED <<link, key, shown, unreported>>
    BY <1>5, FateFollows DEF LinksInv
  <2>2. LinksTyped'
    BY <1>3, <2>1 DEF LinksInv, LinksTyped
  <2> QED
    BY <1>2, <1>3, <1>4, <2>1, <2>2, LinksPersist
<1>6. CASE M!RecordDelivery(p, u, n) \/ M!Feedback(p, u, n)
  <2>1. /\ LinksFollow' /\ shown' \in [M!Purposes -> [Users -> M!Shown]]
        /\ unreported' \subseteq unreported /\ UNCHANGED <<link, key, fate>>
    BY <1>6, ReportFollows DEF LinksInv
  <2>2. LinksTyped'
    BY <1>3, <2>1 DEF LinksInv, LinksTyped
  <2> QED
    BY <1>2, <1>3, <1>4, <2>1, <2>2, LinksPersist
<1>7. CASE M!HandlerStops(p, u, n)
  <2>1. UNCHANGED <<membership, link, key, shown, consumed, revoked, fate>>
        /\ unreported' \subseteq unreported
    BY <1>7 DEF M!HandlerStops
  <2> QED
    BY <1>2, <2>1, LinksRest
<1> QED
  BY <1>5, <1>6, <1>7

\* Sessions, a request that is given up, the end of a cooling period.
LEMMA SessionsFollow ==
    ASSUME PeopleInv, LinksInv,
           \/ \E s \in Browsers :
                \/ M!CommitLogin(s) \/ M!AbortLogin(s) \/ M!EndSession(s)
                \/ M!RevokeOtherSessions(s)
                \/ \E u \in Users : M!BeginLogin(s, u)
           \/ \E r \in LifecycleRequests : M!Abort(r)
           \/ \E p \in M!Purposes, u \in Users : M!CoolDown(p, u)
    PROVE  LinksInv'
<1>1. UNCHANGED <<membership, link, key, shown, consumed, revoked, fate, unreported>>
  BY DEF M!CommitLogin, M!AbortLogin, M!EndSession, M!RevokeOtherSessions, M!BeginLogin,
     M!Abort, M!CoolDown,
     M!linkVars
<1>2. UNCHANGED request \/ \E r \in LifecycleRequests : request' = [request EXCEPT ![r] = Idle]
  BY DEF M!CommitLogin, M!AbortLogin, M!EndSession, M!RevokeOtherSessions, M!BeginLogin,
     M!Abort, M!CoolDown
<1>3. FewerRequests
  BY <1>2 DEF FewerRequests, PeopleInv, PeopleTyped
<1> QED
  BY <1>1, <1>3, LinksRest

\* A link that verifies or resets is sent.
LEMMA SentFollow ==
    ASSUME PeopleInv, LinksInv, NEW u \in Users, M!ResendVerification(u) \/ M!RequestReset(u)
    PROVE  LinksInv'
<1>1. PICK p \in {"verify", "reset"} : M!Rotate(p, u)
  BY DEF M!ResendVerification, M!RequestReset
<1>2. p \in M!Purposes /\ p # "setup"
  BY DEF M!Purposes
<1>3. FewerRequests
  BY DisturbedAreFewer DEF M!ResendVerification, M!RequestReset
<1>4. UNCHANGED <<membership, consumed, revoked>>
  BY DEF M!ResendVerification, M!RequestReset
<1>5. /\ LinksFollow'
      /\ key' \in [M!Purposes -> [Users -> Nat]] /\ shown' \in [M!Purposes -> [Users -> M!Shown]]
      /\ unreported' \subseteq M!Purposes \X Users \X (Nat \ {0})
      /\ \A v \in Users : link'["setup"][v] = link["setup"][v]
  BY <1>1, <1>2, RotatedFollow DEF LinksInv
<1>6. LinksTyped' /\ SpentIsVoid' /\ StrangersAreNew'
  BY <1>4, <1>5 DEF LinksInv, LinksTyped, SpentIsVoid, StrangersAreNew
<1> QED
  BY <1>3, <1>4, <1>5, <1>6, LinksPersist

\* Somebody is invited who never was.
LEMMA InvitedFollow ==
    ASSUME PeopleInv, LinksInv, NEW actor \in Users, NEW u \in Users, NEW as \in PeopleRoles,
           M!Invite(actor, u, as)
    PROVE  LinksInv'
<1>1. /\ membership[u] = "none" /\ membership' = [membership EXCEPT ![u] = "active"] /\ M!Rotate("setup", u)
      /\ UNCHANGED <<consumed, revoked, request>>
  BY DEF M!Invite
<1>2. /\ LinksFollow'
      /\ key' \in [M!Purposes -> [Users -> Nat]] /\ shown' \in [M!Purposes -> [Users -> M!Shown]]
      /\ unreported' \subseteq M!Purposes \X Users \X (Nat \ {0})
      /\ \A v \in Users : v # u => link'["setup"][v] = link["setup"][v]
  BY <1>1, RotatedFollow DEF LinksInv, M!Purposes
<1>3. consumed[u] = FALSE /\ revoked[u] = FALSE
  BY <1>1 DEF LinksInv, StrangersAreNew
<1>4. SpentIsVoid'
  BY <1>1, <1>2, <1>3 DEF LinksInv, SpentIsVoid
<1>5. StrangersAreNew'
  BY <1>1 DEF LinksInv, StrangersAreNew, PeopleInv, PeopleTyped
<1>6. LinksTyped'
  BY <1>1, <1>2 DEF LinksInv, LinksTyped
<1>7. FewerRequests
  BY <1>1 DEF FewerRequests, PeopleInv, PeopleTyped
<1> QED
  BY <1>1, <1>2, <1>4, <1>5, <1>6, <1>7, LinksPersist

\* An address is verified, or a password reset, by a link that is then void.
LEMMA UsedFollow ==
    ASSUME PeopleInv, LinksInv, NEW u \in Users,
           (\E s \in Browsers : M!VerifyEmail(s, u)) \/ M!CompleteReset(u)
    PROVE  LinksInv'
<1>1. /\ UNCHANGED <<membership, consumed, revoked, fate, unreported>>
      /\ request' = M!Disturbed({}, u)
  BY DEF M!VerifyEmail, M!CompleteReset
<1>2. link \in [M!Purposes -> [Users -> Nat]]
  BY DEF PeopleInv, PeopleTyped
<1>3. \/ /\ link' = [link EXCEPT !["verify"][u] = 0] /\ key' = [key EXCEPT !["verify"][u] = 0]
         /\ shown' = shown
      \/ /\ link' = [link EXCEPT !["reset"][u] = 0, !["setup"][u] = 0]
         /\ key' = [key EXCEPT !["reset"][u] = 0]
         /\ shown' = [shown EXCEPT !["reset"][u] = "consumed"]
  BY DEF M!VerifyEmail, M!CompleteReset
<1>4. /\ key' \in [M!Purposes -> [Users -> Nat]] /\ shown' \in [M!Purposes -> [Users -> M!Shown]]
      /\ \A q \in M!Purposes, v \in Users :
            /\ link'[q][v] \in {0, link[q][v]} /\ key'[q][v] \in {0, key[q][v]}
            /\ shown'[q][v] \in {"consumed", shown[q][v]}
  BY <1>2, <1>3 DEF LinksInv, LinksTyped, M!Shown, M!Purposes
<1>5. LinksFollow'
  BY <1>1, <1>4, ClearedFollow DEF LinksInv, LinksFollow
<1>6. \A v \in Users : link["setup"][v] = 0 => link'["setup"][v] = 0
  BY <1>4 DEF M!Purposes
<1>7. SpentIsVoid' /\ StrangersAreNew' /\ LinksTyped'
  BY <1>1, <1>4, <1>6 DEF LinksInv, SpentIsVoid, StrangersAreNew, LinksTyped
<1>8. FewerRequests
  BY <1>1, DisturbedAreFewer
<1> QED
  BY <1>1, <1>5, <1>7, <1>8, LinksPersist

\* An invitation is used up.
LEMMA SetupFollows ==
    ASSUME PeopleInv, LinksInv, NEW u \in Users, M!CompleteSetup(u)
    PROVE  LinksInv'
<1>1. /\ UNCHANGED <<membership, shown, revoked, fate, unreported>>
      /\ request' = M!Disturbed({}, u) /\ membership[u] = "active"
      /\ link' = [link EXCEPT !["setup"][u] = 0] /\ key' = [key EXCEPT !["setup"][u] = 0]
      /\ consumed' = [consumed EXCEPT ![u] = TRUE]
  BY Zenon DEF M!CompleteSetup, M!Active
<1>2. link \in [M!Purposes -> [Users -> Nat]] /\ "setup" \in M!Purposes
  BY DEF PeopleInv, PeopleTyped, M!Purposes
<1>3. /\ key' \in [M!Purposes -> [Users -> Nat]]
      /\ \A q \in M!Purposes, v \in Users :
            link'[q][v] \in {0, link[q][v]} /\ key'[q][v] \in {0, key[q][v]}
      /\ link'["setup"][u] = 0
  BY <1>1, <1>2 DEF LinksInv, LinksTyped
<1>4. /\ consumed' \in [Users -> BOOLEAN]
      /\ \A v \in Users \ {u} : consumed'[v] = consumed[v]
  BY <1>1, Zenon DEF LinksInv, LinksTyped
<1>5. LinksFollow'
  BY <1>1, <1>3, ClearedFollow DEF LinksInv, LinksFollow
<1>6. SpentIsVoid'
  <2>1. \A v \in Users : link["setup"][v] = 0 => link'["setup"][v] = 0
    BY <1>2, <1>3
  <2> QED
    BY <1>1, <1>3, <1>4, <2>1 DEF LinksInv, SpentIsVoid
<1>7. StrangersAreNew'
  BY <1>1, <1>4 DEF LinksInv, StrangersAreNew
<1>8. LinksTyped'
  BY <1>1, <1>3, <1>4 DEF LinksInv, LinksTyped
<1>9. ResendIsUnused'
  <2>1. Survivors(request', {}, u)
    BY <1>1, DisturbedRequests
  <2>2. SUFFICES ASSUME NEW r \in LifecycleRequests, request'[r] # Idle, request'[r].stale = FALSE,
                        request'[r].kind = "resend"
                 PROVE  consumed'[request'[r].target] = FALSE
    BY DEF ResendIsUnused
  <2>3. request'[r] = request[r] /\ request[r].target # u
    BY <2>1, <2>2 DEF Survivors
  <2>4. consumed[request[r].target] = FALSE
    BY <2>2, <2>3 DEF LinksInv, ResendIsUnused
  <2>5. request[r].target \in Users
    BY <2>2, <2>3 DEF PeopleInv, PeopleTyped, RequestRecords
  <2> QED
    BY <1>4, <2>3, <2>4, <2>5
<1> QED
  BY <1>5, <1>6, <1>7, <1>8, <1>9 DEF LinksInv

\* A lifecycle request begins.
LEMMA BegunFollow ==
    ASSUME PeopleInv, LinksInv, NEW r \in LifecycleRequests, NEW actor \in Users,
           NEW u \in Users,
           \/ M!BeginSetStatus(r, actor, u) \/ M!BeginRevoke(r, actor, u)
           \/ M!BeginResend(r, actor, u)
           \/ \E as \in PeopleRoles : M!BeginUpdateRole(r, actor, u, as)
    PROVE  LinksInv'
<1>1. PICK kind \in M!Lifecycle, as \in PeopleRoles, rows \in SUBSET Users :
         M!Start(r, kind, u, as, rows) /\ (kind = "resend" => ~consumed[u])
  <2>1. role[u] \in PeopleRoles /\ {actor, u} \in SUBSET Users /\ {u} \in SUBSET Users
    BY DEF PeopleInv, PeopleTyped
  <2>2. CASE M!BeginSetStatus(r, actor, u)
    BY <2>1, <2>2 DEF M!BeginSetStatus, M!Lifecycle
  <2>3. CASE M!BeginRevoke(r, actor, u)
    BY <2>1, <2>3 DEF M!BeginRevoke, M!Lifecycle
  <2>4. CASE M!BeginResend(r, actor, u)
    BY <2>1, <2>4 DEF M!BeginResend, M!Lifecycle
  <2>5. CASE \E as \in PeopleRoles : M!BeginUpdateRole(r, actor, u, as)
    BY <2>1, <2>5 DEF M!BeginUpdateRole, M!Lifecycle
  <2> QED
    BY <2>2, <2>3, <2>4, <2>5
<1>2. kind = "resend" => consumed[u] = FALSE
  BY <1>1, Zenon DEF LinksInv, LinksTyped
<1> DEFINE new == [kind |-> kind, target |-> u, role |-> as, stale |-> FALSE,
                   rows |-> rows \cup IF M!LosesOwner(kind, u, as) THEN M!Owners ELSE {}]
<1>3. request' = [request EXCEPT ![r] = new] /\ new.kind = kind /\ new.target = u
  BY <1>1 DEF M!Start
<1> HIDE DEF new
<1>4. UNCHANGED <<membership, link, key, shown, consumed, revoked, fate, unreported>>
  BY <1>1 DEF M!Start, M!linkVars
<1>5. request'[r] = new /\ \A q \in LifecycleRequests \ {r} : request'[q] = request[q]
  BY <1>3 DEF PeopleInv, PeopleTyped
<1>6. ResendIsUnused'
  BY <1>2, <1>3, <1>4, <1>5 DEF LinksInv, ResendIsUnused
<1>7. LinksFollow'
  BY <1>4, ClearedFollow DEF LinksInv, LinksFollow
<1>8. SpentIsVoid' /\ StrangersAreNew' /\ LinksTyped'
  BY <1>4 DEF LinksInv, SpentIsVoid, StrangersAreNew, LinksTyped
<1> QED
  BY <1>6, <1>7, <1>8 DEF LinksInv

\* A lifecycle request commits.
LEMMA CommittedFollow ==
    ASSUME PeopleInv, LinksInv, NEW r \in LifecycleRequests,
           \/ M!CommitDisable(r) \/ M!CommitEnable(r) \/ M!CommitRole(r)
           \/ M!CommitRevoke(r) \/ M!CommitResend(r)
    PROVE  LinksInv'
<1>1. request[r] # Idle /\ request[r] \in RequestRecords /\ request[r].stale = FALSE
  BY DEF M!CommitDisable, M!CommitEnable, M!CommitRole, M!CommitRevoke, M!CommitResend,
     M!Pending, PeopleInv,
     PeopleTyped, RequestRecords
<1>2. PICK t \in Users : t = request[r].target /\ membership[t] # "none"
  BY <1>1 DEF RequestRecords, PeopleInv, RequestsStand, Standing
<1>3. membership \in [Users -> {"none", "active", "disabled"}] /\ link \in [M!Purposes -> [Users -> Nat]]
  BY DEF PeopleInv, PeopleTyped
<1>4. CASE M!CommitDisable(r) \/ M!CommitEnable(r) \/ M!CommitRole(r)
  <2>1. /\ M!Done(r, {t}, Nobody)
        /\ UNCHANGED <<link, key, shown, consumed, revoked, fate, unreported>>
        /\ \/ membership' = [membership EXCEPT ![t] = "disabled"]
           \/ membership' = [membership EXCEPT ![t] = "active"]
           \/ membership' = membership
    BY <1>2, <1>4 DEF M!CommitDisable, M!CommitEnable, M!CommitRole, M!linkVars
  <2>2. membership'[t] # "none" /\ \A v \in Users \ {t} : membership'[v] = membership[v]
    BY <1>2, <1>3, <2>1
  <2>3. PICK m \in SUBSET Users : m = {t}
    OBVIOUS
  <2>4. FewerRequests
    BY <2>1, <2>3, DoneAreFewer
  <2> QED
    BY <2>1, <2>2, <2>4, LinksOutliveMemberships
<1>5. CASE M!CommitRevoke(r)
  <2>1. /\ M!Done(r, {t}, t) /\ UNCHANGED <<shown, consumed, fate, unreported>>
        /\ membership' = [membership EXCEPT ![t] = "disabled"]
        /\ revoked' = [revoked EXCEPT ![t] = TRUE]
        /\ link' = [link EXCEPT !["setup"][t] = 0] /\ key' = [key EXCEPT !["setup"][t] = 0]
    BY <1>2, <1>5 DEF M!CommitRevoke
  <2>2. /\ key' \in [M!Purposes -> [Users -> Nat]]
        /\ \A q \in M!Purposes, v \in Users :
              link'[q][v] \in {0, link[q][v]} /\ key'[q][v] \in {0, key[q][v]}
        /\ link'["setup"][t] = 0
    BY <1>3, <2>1 DEF LinksInv, LinksTyped, M!Purposes
  <2>3. /\ revoked' \in [Users -> BOOLEAN]
        /\ \A v \in Users \ {t} : revoked'[v] = revoked[v]
    BY <2>1, Zenon DEF LinksInv, LinksTyped
  <2>4. membership'[t] # "none" /\ \A v \in Users \ {t} : membership'[v] = membership[v]
    BY <1>3, <2>1
  <2>5. LinksFollow'
    BY <2>1, <2>2, ClearedFollow DEF LinksInv, LinksFollow
  <2>6. SpentIsVoid'
    <3>1. \A v \in Users : link["setup"][v] = 0 => link'["setup"][v] = 0
      BY <2>2 DEF M!Purposes
    <3> QED
      BY <2>1, <2>2, <2>3, <3>1 DEF LinksInv, SpentIsVoid
  <2>7. StrangersAreNew'
    BY <2>1, <2>3, <2>4 DEF LinksInv, StrangersAreNew
  <2>8. LinksTyped'
    BY <2>1, <2>2, <2>3 DEF LinksInv, LinksTyped
  <2>9. PICK m \in SUBSET Users : m = {t}
    OBVIOUS
  <2>10. FewerRequests
    BY <2>1, <2>9, DoneAreFewer
  <2> QED
    BY <2>1, <2>5, <2>6, <2>7, <2>8, <2>10, LinksPersist
<1>6. CASE M!CommitResend(r)
  <2>1. /\ request[r].kind = "resend" /\ M!Done(r, {}, t) /\ M!Rotate("setup", t)
        /\ UNCHANGED <<membership, consumed>>
        /\ revoked' = [revoked EXCEPT ![t] = FALSE]
    BY <1>2, <1>6 DEF M!CommitResend, M!Pending
  <2>2. /\ LinksFollow'
        /\ key' \in [M!Purposes -> [Users -> Nat]] /\ shown' \in [M!Purposes -> [Users -> M!Shown]]
        /\ unreported' \subseteq M!Purposes \X Users \X (Nat \ {0})
        /\ \A v \in Users : v # t => link'["setup"][v] = link["setup"][v]
    BY <2>1, RotatedFollow DEF LinksInv, M!Purposes
  <2>3. /\ revoked' \in [Users -> BOOLEAN] /\ revoked'[t] = FALSE
        /\ \A v \in Users \ {t} : revoked'[v] = revoked[v]
    BY <2>1, Zenon DEF LinksInv, LinksTyped
  <2>4. consumed[t] = FALSE
    BY <1>1, <1>2, <2>1 DEF LinksInv, ResendIsUnused
  <2>5. SpentIsVoid'
    BY <2>1, <2>2, <2>3, <2>4 DEF LinksInv, SpentIsVoid
  <2>6. StrangersAreNew'
    BY <2>1, <2>3 DEF LinksInv, StrangersAreNew
  <2>7. LinksTyped'
    BY <2>1, <2>2, <2>3 DEF LinksInv, LinksTyped
  <2>8. FewerRequests
    BY <2>1, DoneAreFewer
  <2> QED
    BY <2>1, <2>2, <2>5, <2>6, <2>7, <2>8, LinksPersist
<1> QED
  BY <1>4, <1>5, <1>6

\* Nothing was sent yet but the founder's verification.
LEMMA LinksStart ==
    ASSUME PeopleAssumed, M!Init PROVE LinksInv
<1>1. u1 \in Users /\ "verify" \in M!Purposes /\ "setup" \in M!Purposes
  BY DEF PeopleAssumed, M!Purposes
<1>2. /\ link = [M!None EXCEPT !["verify"][u1] = 1] /\ key = link
      /\ M!None = [p \in M!Purposes |-> [u \in Users |-> 0]]
  BY DEF M!Init, M!None
<1>3. \A p \in M!Purposes, u \in Users :
         /\ link[p][u] = IF p = "verify" /\ u = u1 THEN 1 ELSE 0
         /\ key[p][u] = IF p = "verify" /\ u = u1 THEN 1 ELSE 0
  BY <1>1, <1>2
<1>4. LinksTyped
  <2>1. consumed \in [Users -> BOOLEAN] /\ revoked \in [Users -> BOOLEAN]
    BY Zenon DEF M!Init
  <2>2. key \in [M!Purposes -> [Users -> Nat]]
    BY <1>1, <1>2
  <2>3. shown \in [M!Purposes -> [Users -> M!Shown]]
    BY DEF M!Init, M!Shown
  <2>4. unreported \subseteq M!Purposes \X Users \X (Nat \ {0})
    BY <1>1 DEF M!Init
  <2> QED
    BY <2>1, <2>2, <2>3, <2>4 DEF LinksTyped
<1>5. LinksFollow
  <2> SUFFICES ASSUME NEW p \in M!Purposes, NEW u \in Users PROVE Follows(p, u)
    BY DEF LinksFollow
  <2>1. shown[p][u] \in {"pending", "none"}
    BY DEF M!Init
  <2>2. fate[p][u] = IF p = "verify" /\ u = u1 THEN <<"new">> ELSE <<>>
    BY DEF M!Init
  <2>3. Len(fate[p][u]) = IF p = "verify" /\ u = u1 THEN 1 ELSE 0
    BY <2>2
  <2> QED
    BY <1>3, <2>1, <2>3 DEF Follows
<1>6. SpentIsVoid
  BY <1>1, <1>3 DEF SpentIsVoid
<1>7. StrangersAreNew
  BY DEF M!Init, StrangersAreNew
<1>8. ResendIsUnused
  BY DEF M!Init, ResendIsUnused
<1> QED
  BY <1>4, <1>5, <1>6, <1>7, <1>8 DEF LinksInv

\* Every step keeps what is said about links.
LEMMA LinksStep ==
    ASSUME PeopleInv, LinksInv, [M!Next]_M!vars
    PROVE  LinksInv'
<1>1. CASE UNCHANGED M!vars
  <2>1. UNCHANGED <<membership, link, key, shown, consumed, revoked, fate, unreported, request>>
    BY <1>1 DEF M!vars
  <2>2. FewerRequests
    BY <2>1 DEF FewerRequests, PeopleInv, PeopleTyped
  <2> QED
    BY <2>1, <2>2, LinksRest
<1>2. ASSUME NEW p \in M!Purposes, NEW u \in Users, NEW n \in 1..Links,
             \/ M!Mail(p, u, n) \/ M!RecordDelivery(p, u, n) \/ M!HandlerStops(p, u, n)
             \/ M!ComesBack(p, u, n) \/ M!Feedback(p, u, n)
      PROVE  LinksInv'
  BY <1>2, MailFollows
<1>3. ASSUME NEW u \in Users,
             \/ M!ResendVerification(u) \/ M!CompleteSetup(u) \/ M!RequestReset(u)
             \/ M!CompleteReset(u)
      PROVE  LinksInv'
  BY <1>3, SentFollow, SetupFollows, UsedFollow
<1>4. ASSUME NEW s \in Browsers, NEW u \in Users, M!VerifyEmail(s, u)
      PROVE  LinksInv'
  BY <1>4, UsedFollow
<1>5. CASE \/ \E s \in Browsers :
                \/ M!CommitLogin(s) \/ M!AbortLogin(s) \/ M!EndSession(s)
                \/ M!RevokeOtherSessions(s)
                \/ \E u \in Users : M!BeginLogin(s, u)
           \/ \E r \in LifecycleRequests : M!Abort(r)
           \/ \E p \in M!Purposes, u \in Users : M!CoolDown(p, u)
  BY <1>5, SessionsFollow
<1>6. ASSUME NEW actor \in Users, NEW u \in Users,
             \/ \E as \in PeopleRoles : M!Invite(actor, u, as)
             \/ \E r \in LifecycleRequests :
                 \/ M!BeginSetStatus(r, actor, u) \/ M!BeginRevoke(r, actor, u)
                 \/ M!BeginResend(r, actor, u)
                 \/ \E as \in PeopleRoles : M!BeginUpdateRole(r, actor, u, as)
      PROVE  LinksInv'
  BY <1>6, InvitedFollow, BegunFollow
<1>7. ASSUME NEW r \in LifecycleRequests,
             \/ M!CommitDisable(r) \/ M!CommitEnable(r) \/ M!CommitRole(r)
             \/ M!CommitRevoke(r) \/ M!CommitResend(r)
      PROVE  LinksInv'
  BY <1>7, CommittedFollow
<1> QED
  BY <1>1, <1>2, <1>3, <1>4, <1>5, <1>6, <1>7 DEF M!Next

\* The inductive invariant, for finitely many people of whom one signed up.
THEOREM PeopleInvariance ==
    ASSUME PeopleAssumed
    PROVE  M!Spec => []PeopleInv
<1>1. M!Init => PeopleInv
  BY PeopleStart
<1>2. PeopleInv /\ [M!Next]_M!vars => PeopleInv'
  BY PeopleStep
<1> QED
  BY <1>1, <1>2, PTL DEF M!Spec

\* Whatever owners do to each other at the same time, one that is active remains.
THEOREM AnOwnerRemains ==
    ASSUME PeopleAssumed
    PROVE  M!Spec => []M!OwnerRemains
<1>1. PeopleInv => M!OwnerRemains
  BY DEF PeopleInv
<1> QED
  BY <1>1, PeopleInvariance, PTL

\* No session outlives the password that opened it.
THEOREM CredentialsStayCurrent ==
    ASSUME PeopleAssumed
    PROVE  M!Spec => []M!CredentialsCurrent
<1>1. PeopleInv => M!CredentialsCurrent
  BY DEF PeopleInv, M!CredentialsCurrent
<1> QED
  BY <1>1, PeopleInvariance, PTL

\* However late a mailer or the provider reports, only the newest link works,
\* and the status shown is what became of it.
THEOREM OnlyNewestLinks ==
    ASSUME PeopleAssumed
    PROVE  M!Spec => []M!NewestLinkOnly
<1>1. M!Init => PeopleInv /\ LinksInv
  BY PeopleStart, LinksStart
<1>2. PeopleInv /\ LinksInv /\ [M!Next]_M!vars => (PeopleInv /\ LinksInv)'
  BY PeopleStep, LinksStep
<1>3. PeopleInv /\ LinksInv => M!NewestLinkOnly
  BY NewestFromParts
<1> QED
  BY <1>1, <1>2, <1>3, PTL DEF M!Spec

-----------------------------------------------------------------------------
(* A member's mailbox: MailboxSync.                                        *)

\* The names of its variables.
account == v1
cycle == v2
syncDue == v3
inbox == v4
stored == v5
syncListed == v6
syncJob == v7
syncTries == v8
sync == v9
passedOver == v10
abandoned == v11
USE DEF account, cycle, syncDue, inbox, stored, syncListed, syncJob, syncTries, sync,
        passedOver, abandoned

\* The cardinality that MailboxSync uses is the library's.
LEMMA SyncSizes == \A S : B!Cardinality(S) = Cardinality(S)
BY DEF B!Cardinality, Cardinality

\* What is taken of the constants: finitely many synchronisations at once, and
\* numbers, with room for a first cycle.
MailboxAssumed ==
    /\ IsFiniteSet(Syncs)
    /\ FetchLimit \in Nat /\ SyncAttempts \in Nat /\ Messages \in Nat /\ SyncCycles \in Nat \ {0}

\* The rows of an account.
Accounts == [enabled : BOOLEAN, cursor : 0..Messages,
             status : {"none", "disabled", "pending", "syncing", "ready", "error"}]

\* The phases of the job of a cycle.
JobPhases == {"none", "waiting", "taken", "succeeded", "dead"}

\* Where a synchronisation may be and what it may have in hand.
SyncRecords == [at : {"idle", "load", "mark", "fetch", "store", "fail", "done", "failed",
                "check", "checked"},
          job : 0..SyncCycles, mark : 0..Messages, todo : SUBSET B!Mail, older : SUBSET B!Mail]

\* The types of the account, the jobs and the synchronisations.
MailboxTyped ==
    /\ account \in Accounts
    /\ cycle \in Nat /\ syncDue \in BOOLEAN
    /\ inbox \in 0..Messages
    /\ stored \in SUBSET B!Mail /\ passedOver \in SUBSET B!Mail
    /\ syncListed \in Nat
    /\ syncJob \in [B!Cycles -> JobPhases]
    /\ syncTries \in [B!Cycles -> Nat]
    /\ sync \in [Syncs -> SyncRecords]
    /\ abandoned \in BOOLEAN

\* What is accounted for, or is known to a synchronisation as too old.
Behind(r) == B!Accounted \cup sync[r].older

\* A synchronisation passes no message by that it neither has, nor counts as old,
\* nor could not read.
CoveredSoFar(r) ==
    /\ sync[r].at \in {"mark", "fetch"} => \A u \in 1..sync[r].mark : u \in B!Accounted
    /\ sync[r].at = "store" =>
        /\ \A u \in 1..sync[r].mark : u \in Behind(r)
        /\ \A v \in sync[r].todo : \A u \in 1..v : u \in Behind(r) \cup sync[r].todo

\* So does every synchronisation.
RunsCover == \A r \in Syncs : CoveredSoFar(r)

\* The inductive invariant of the cursor.
CursorInv == MailboxTyped /\ B!CursorCovers /\ RunsCover


\* Where a synchronisation may be.
SyncPlaces == {"idle", "load", "mark", "fetch", "store", "fail", "done", "failed", "check", "checked"}

\* The other synchronisations are where they were.
OtherSyncsStand(r) == \A q \in Syncs \ {r} : sync'[q] = sync[q]

\* A synchronisation keeps what it has in hand.
KeepsItsWork(r) ==
    /\ sync'[r].job = sync[r].job /\ sync'[r].mark = sync[r].mark
    /\ sync'[r].todo = sync[r].todo /\ sync'[r].older = sync[r].older

\* A synchronisation goes to a place with what it has.
LEMMA StepTaken ==
    ASSUME sync \in [Syncs -> SyncRecords], NEW r \in Syncs, NEW step \in SyncPlaces,
           B!GoTo(r, step)
    PROVE  sync' \in [Syncs -> SyncRecords] /\ sync'[r].at = step /\ KeepsItsWork(r) /\ OtherSyncsStand(r)
BY DEF B!GoTo, SyncRecords, SyncPlaces, KeepsItsWork, OtherSyncsStand

\* A status is written over an account.
LEMMA StatusWritten ==
    ASSUME account \in Accounts, abandoned \in BOOLEAN,
           NEW s \in {"pending", "syncing", "ready", "error"}, B!WriteStatus(s)
    PROVE  /\ account' \in Accounts /\ abandoned' \in BOOLEAN
           /\ account'.enabled = account.enabled /\ account'.cursor = account.cursor
           /\ account'.status = IF B!Exists THEN s ELSE "none"
           /\ abandoned' => abandoned /\ s = "syncing"
<1>1. account'.status = IF B!Exists THEN s ELSE "none"
  BY DEF Accounts, B!WriteStatus, B!Exists
<1>2. account' \in Accounts /\ account'.enabled = account.enabled /\ account'.cursor = account.cursor
  BY DEF Accounts, B!WriteStatus
<1>3. abandoned' \in BOOLEAN /\ (abandoned' => abandoned /\ s = "syncing")
  BY DEF B!WriteStatus
<1> QED BY <1>1, <1>2, <1>3

\* A synchronisation that begins.
LEMMA Began ==
    ASSUME sync \in [Syncs -> SyncRecords], MailboxAssumed, NEW r \in Syncs,
           NEW step \in SyncPlaces,
           NEW c \in 0..SyncCycles, sync' = [sync EXCEPT ![r] = B!Begun(step, c)]
    PROVE  /\ sync' \in [Syncs -> SyncRecords] /\ OtherSyncsStand(r)
           /\ sync'[r] = B!Begun(step, c) /\ sync'[r].at = step /\ sync'[r].job = c
BY DEF B!Begun, SyncRecords, SyncPlaces, OtherSyncsStand, MailboxAssumed

\* A synchronisation that ends.
LEMMA Rested ==
    ASSUME sync \in [Syncs -> SyncRecords], MailboxAssumed, NEW r \in Syncs,
           sync' = [sync EXCEPT ![r] = B!AtRest]
    PROVE  /\ sync' \in [Syncs -> SyncRecords] /\ OtherSyncsStand(r)
           /\ sync'[r].at = "idle" /\ sync'[r].job = 0
BY DEF B!AtRest, B!Begun, SyncRecords, OtherSyncsStand, MailboxAssumed

\* What loading the credentials does.
LEMMA LoadDoes ==
    ASSUME MailboxTyped, NEW r \in Syncs, B!LoadCredentials(r)
    PROVE  /\ sync' \in [Syncs -> SyncRecords] /\ OtherSyncsStand(r)
           /\ sync'[r].mark = account.cursor /\ sync'[r].at \in {"failed", "fail", "mark"}
           /\ sync'[r].job = sync[r].job
<1> DEFINE next == CASE ~B!Exists -> "failed"
                     [] B!Exists /\ ~account.enabled -> "fail"
                     [] OTHER -> "mark"
           cursor == account.cursor
<1>1. next \in {"failed", "fail", "mark"}
  OBVIOUS
<1>2. sync' = [sync EXCEPT ![r].mark = cursor, ![r].at = next]
  BY DEF B!LoadCredentials
<1>3. cursor \in 0..Messages
  BY DEF MailboxTyped, Accounts
<1> HIDE DEF next, cursor
<1>4. /\ sync' \in [Syncs -> SyncRecords] /\ OtherSyncsStand(r)
      /\ sync'[r].mark = cursor /\ sync'[r].at = next /\ sync'[r].job = sync[r].job
  BY <1>1, <1>2, <1>3 DEF MailboxTyped, SyncRecords, OtherSyncsStand
<1> QED
  BY <1>1, <1>4 DEF cursor

\* What fetching does: the newest messages above the cursor are in hand, but
\* for those that are too large.
LEMMA FetchDoes ==
    ASSUME MailboxAssumed, MailboxTyped, NEW r \in Syncs, B!Fetch(r)
    PROVE  /\ sync' \in [Syncs -> SyncRecords] /\ OtherSyncsStand(r)
           /\ sync'[r].at = "store" /\ sync'[r].mark = sync[r].mark /\ sync'[r].job = sync[r].job
           /\ \A u \in 1..inbox : u > sync[r].mark =>
                  u \in sync'[r].todo \cup sync'[r].older \cup TooLarge
           /\ sync'[r].todo \subseteq 1..inbox
<1> DEFINE recent == B!recentUIDs(sync[r].mark)
           above == B!Above(sync[r].mark)
           read == recent \ TooLarge
           older == above \ recent
<1>1. above = {u \in 1..inbox : u > sync[r].mark} /\ recent \subseteq above /\ above \subseteq B!Mail
  BY DEF B!Above, B!recentUIDs, MailboxTyped, MailboxAssumed, B!Mail
<1>2. sync' = [sync EXCEPT ![r].at = "store", ![r].todo = read, ![r].older = older]
  BY DEF B!Fetch, B!parseFetchResponses
<1>3. read \in SUBSET B!Mail /\ older \in SUBSET B!Mail
  BY <1>1
<1>4. /\ read \subseteq 1..inbox
      /\ \A u \in 1..inbox : u > sync[r].mark => u \in read \cup older \cup TooLarge
  BY <1>1
<1> HIDE DEF recent, above, read, older
<1>5. /\ sync' \in [Syncs -> SyncRecords] /\ OtherSyncsStand(r)
      /\ sync'[r].at = "store" /\ sync'[r].mark = sync[r].mark /\ sync'[r].job = sync[r].job
      /\ sync'[r].todo = read /\ sync'[r].older = older
  BY <1>2, <1>3 DEF MailboxTyped, SyncRecords, OtherSyncsStand
<1> QED
  BY <1>5, <1>4

\* What recording one message does.
LEMMA RecordDoes ==
    ASSUME MailboxTyped, NEW r \in Syncs, B!RecordInbound(r)
    PROVE  /\ sync' \in [Syncs -> SyncRecords] /\ OtherSyncsStand(r)
           /\ sync'[r].at = "store" /\ sync'[r].job = sync[r].job /\ sync'[r].older = sync[r].older
           /\ sync'[r].mark \in sync[r].todo
           /\ \A v \in sync[r].todo : sync'[r].mark <= v
           /\ sync'[r].todo = sync[r].todo \ {sync'[r].mark}
           /\ stored' = stored \cup {sync'[r].mark}
<1>1. PICK u \in B!Oldest(sync[r].todo) : /\ stored' = stored \cup {u}
                                          /\ sync' = [sync EXCEPT ![r].todo = @ \ {u}, ![r].mark = u]
  BY DEF B!RecordInbound
<1>2. u \in sync[r].todo /\ (\A v \in sync[r].todo : u <= v) /\ sync[r].at = "store"
  BY DEF B!Oldest, B!RecordInbound, B!At
<1>3. sync[r] \in SyncRecords /\ u \in B!Mail /\ u \in 0..Messages
  BY <1>2 DEF MailboxTyped, SyncRecords, B!Mail
<1>4. /\ sync' \in [Syncs -> SyncRecords] /\ OtherSyncsStand(r)
      /\ sync'[r].at = sync[r].at /\ sync'[r].job = sync[r].job /\ sync'[r].older = sync[r].older
      /\ sync'[r].mark = u /\ sync'[r].todo = sync[r].todo \ {u}
  BY <1>1, <1>3 DEF MailboxTyped, SyncRecords, OtherSyncsStand
<1> QED
  BY <1>1, <1>2, <1>4

\* What the last statement of a synchronisation does.
LEMMA FinishDoes ==
    ASSUME MailboxTyped, NEW r \in Syncs, NEW heard \in BOOLEAN, B!Finish(r, heard)
    PROVE  /\ sync' \in [Syncs -> SyncRecords] /\ KeepsItsWork(r) /\ OtherSyncsStand(r)
           /\ sync'[r].at = IF B!Exists /\ heard THEN "done" ELSE "failed"
           /\ account' \in Accounts /\ account'.enabled = account.enabled
           /\ account'.status = IF B!Exists THEN "ready" ELSE "none"
           /\ account'.cursor = IF B!Exists /\ sync[r].mark # 0 THEN sync[r].mark ELSE account.cursor
<1> DEFINE step == IF B!Exists /\ heard THEN "done" ELSE "failed"
           cursor == IF sync[r].mark # 0 THEN sync[r].mark ELSE account.cursor
<1>1. step \in SyncPlaces /\ B!GoTo(r, step)
  BY DEF B!Finish, SyncPlaces
<1>2. sync \in [Syncs -> SyncRecords] /\ account \in Accounts
  BY DEF MailboxTyped
<1>3. cursor \in 0..Messages
  BY <1>2 DEF SyncRecords, Accounts
<1>4. account' = IF ~B!Exists THEN account ELSE [account EXCEPT !.status = "ready", !.cursor = cursor]
  BY DEF B!Finish
<1>5. sync' \in [Syncs -> SyncRecords] /\ sync'[r].at = step /\ KeepsItsWork(r) /\ OtherSyncsStand(r)
  <2> HIDE DEF step
  <2> QED BY <1>1, <1>2, StepTaken
<1>6. CASE B!Exists
  <2> HIDE DEF cursor
  <2>1. /\ account' \in Accounts /\ account'.enabled = account.enabled
        /\ account'.status = "ready" /\ account'.cursor = cursor
    BY <1>2, <1>3, <1>4, <1>6 DEF Accounts
  <2> QED
    BY <2>1, <1>5, <1>6 DEF cursor
<1>7. CASE ~B!Exists
  BY <1>2, <1>4, <1>5, <1>7 DEF B!Exists
<1> QED BY <1>6, <1>7

\* Every step keeps the types.
LEMMA MailboxTypes == MailboxAssumed /\ MailboxTyped /\ [B!Next]_B!vars => MailboxTyped'
<1> SUFFICES ASSUME MailboxAssumed, MailboxTyped, [B!Next]_B!vars
             PROVE  MailboxTyped'
  OBVIOUS
<1> USE DEF MailboxTyped, MailboxAssumed
<1>1. ASSUME B!Arrive \/ B!ComeDue \/ B!Delete \/ B!Disable \/ \E on \in BOOLEAN : B!Upsert(on)
      PROVE  MailboxTyped'
  <2>1. ASSUME B!Arrive PROVE MailboxTyped'
    BY <2>1 DEF B!Arrive, B!schedule, B!jobs
  <2>2. ASSUME B!ComeDue PROVE MailboxTyped'
    BY <2>2 DEF B!ComeDue, B!jobs
  <2>3. ASSUME B!Delete PROVE MailboxTyped'
    <3>1. account' \in Accounts
      BY <2>3 DEF B!Delete, B!NoAccount, Accounts
    <3> QED
      BY <3>1, <2>3 DEF B!Delete, B!jobs
  <2>4. ASSUME B!Disable PROVE MailboxTyped'
    <3>1. account' \in Accounts
      BY <2>4 DEF B!Disable, Accounts
    <3>2. syncJob' \in [B!Cycles -> JobPhases]
      BY <2>4 DEF B!Disable, JobPhases
    <3> QED
      BY <3>1, <3>2, <2>4 DEF B!Disable, B!schedule
  <2>5. ASSUME NEW on \in BOOLEAN, B!Upsert(on) PROVE MailboxTyped'
    <3>1. account' \in Accounts
      BY <2>5 DEF B!Upsert, Accounts
    <3>2. syncDue' = on /\ abandoned' = FALSE
      BY <2>5, Zenon DEF B!Upsert
    <3>3. cycle' \in Nat /\ UNCHANGED <<syncListed, inbox, stored, syncJob, syncTries, sync, passedOver>>
      BY <2>5 DEF B!Upsert, B!jobs
    <3> QED
      BY <3>1, <3>2, <3>3
  <2> QED BY <1>1, <2>1, <2>2, <2>3, <2>4, <2>5
<1>2. ASSUME B!ListSyncTargets \/ B!ScheduleDueJobs \/ \E c \in B!Cycles : B!Lapse(c) \/ B!Replay(c)
      PROVE  MailboxTyped'
  <2>1. ASSUME B!ListSyncTargets PROVE MailboxTyped'
    BY <2>1 DEF B!ListSyncTargets, B!jobs
  <2>2. ASSUME B!ScheduleDueJobs PROVE MailboxTyped'
    BY <2>2 DEF B!ScheduleDueJobs, JobPhases
  <2>3. ASSUME NEW c \in B!Cycles, B!Lapse(c) \/ B!Replay(c) PROVE MailboxTyped'
    BY <2>3 DEF B!Lapse, B!Replay, B!AfterFailure, JobPhases, B!schedule
  <2> QED BY <1>2, <2>1, <2>2, <2>3
<1>3. ASSUME NEW r \in Syncs, NEW c \in B!Cycles, B!Take(r, c) PROVE MailboxTyped'
  <2>1. sync' = [sync EXCEPT ![r] = B!Begun("load", c)] /\ c \in 0..SyncCycles /\ "load" \in SyncPlaces
    BY <1>3 DEF B!Take, B!Cycles, SyncPlaces
  <2>2. sync' \in [Syncs -> SyncRecords]
    BY <2>1, Began
  <2> QED
    BY <2>2, <1>3 DEF B!Take, B!schedule, JobPhases
<1>4. ASSUME NEW r \in Syncs, B!RunNow(r) \/ B!BeginCheck(r) PROVE MailboxTyped'
  <2>1. sync' \in [Syncs -> SyncRecords]
    BY <1>4, Began DEF B!RunNow, B!BeginCheck, SyncPlaces
  <2> QED
    BY <2>1, <1>4 DEF B!RunNow, B!BeginCheck, B!schedule, B!jobs
<1>5. ASSUME NEW r \in Syncs, B!LoadCredentials(r) PROVE MailboxTyped'
  <2>1. sync' \in [Syncs -> SyncRecords]
    BY <1>5, LoadDoes
  <2> QED
    BY <2>1, <1>5 DEF B!LoadCredentials, B!schedule, B!jobs
<1>6. ASSUME NEW r \in Syncs, B!MarkSyncing(r) \/ B!MarkChecking(r) PROVE MailboxTyped'
  <2>1. PICK step \in SyncPlaces : B!GoTo(r, step)
    BY <1>6 DEF B!MarkSyncing, B!MarkChecking, SyncPlaces
  <2>2. B!WriteStatus("syncing")
    BY <1>6 DEF B!MarkSyncing, B!MarkChecking
  <2>3. sync' \in [Syncs -> SyncRecords] /\ account' \in Accounts /\ abandoned' \in BOOLEAN
    BY <2>1, <2>2, StepTaken, StatusWritten
  <2> QED
    BY <2>3, <1>6 DEF B!MarkSyncing, B!MarkChecking, B!schedule, B!jobs
<1>7. ASSUME NEW r \in Syncs, B!Fetch(r) PROVE MailboxTyped'
  <2>1. sync' \in [Syncs -> SyncRecords]
    BY <1>7, FetchDoes
  <2> QED
    BY <2>1, <1>7 DEF B!Fetch, B!schedule, B!jobs
<1>8. ASSUME NEW r \in Syncs, B!FetchFails(r) \/ B!RecordFails(r) PROVE MailboxTyped'
  <2>1. B!GoTo(r, "fail")
    BY <1>8 DEF B!FetchFails, B!RecordFails
  <2>2. sync' \in [Syncs -> SyncRecords]
    BY <2>1, StepTaken DEF SyncPlaces
  <2> QED
    BY <2>2, <1>8 DEF B!FetchFails, B!RecordFails, B!schedule, B!jobs
<1>9. ASSUME NEW r \in Syncs, B!RecordInbound(r) PROVE MailboxTyped'
  <2>1. sync' \in [Syncs -> SyncRecords] /\ stored' \in SUBSET B!Mail
    BY <1>9, RecordDoes DEF SyncRecords
  <2> QED
    BY <2>1, <1>9 DEF B!RecordInbound, B!schedule, B!jobs
<1>10. ASSUME NEW r \in Syncs, NEW heard \in BOOLEAN, B!Finish(r, heard) PROVE MailboxTyped'
  <2>1. sync' \in [Syncs -> SyncRecords] /\ account' \in Accounts
    BY <1>10, FinishDoes
  <2>2. sync[r].older \in SUBSET B!Mail
    BY DEF SyncRecords
  <2>3. /\ passedOver' \in SUBSET B!Mail /\ cycle' \in Nat
        /\ syncDue' \in BOOLEAN /\ abandoned' \in BOOLEAN
    <3>1. syncDue' = (syncDue /\ ~B!Exists) /\ abandoned' = FALSE
      BY <1>10, Zenon DEF B!Finish
    <3>2. passedOver' = (IF B!Exists THEN passedOver \cup {u \in sync[r].older : u <= sync[r].mark}
                         ELSE passedOver)
          /\ cycle' = (IF B!Exists THEN cycle + 1 ELSE cycle)
      BY <1>10 DEF B!Finish
    <3>3. syncDue' \in BOOLEAN
      BY <3>1, Zenon
    <3>4. passedOver' \in SUBSET B!Mail /\ cycle' \in Nat
      BY <2>2, <3>2
    <3> QED
      BY <3>1, <3>3, <3>4
  <2>4. UNCHANGED <<syncListed, inbox, stored, syncJob, syncTries>>
    BY <1>10 DEF B!Finish, B!jobs
  <2> QED
    BY <2>1, <2>3, <2>4
<1>11. ASSUME NEW r \in Syncs, B!updateFailure(r) PROVE MailboxTyped'
  <2>1. B!WriteStatus("error") /\ B!GoTo(r, "failed")
    BY <1>11 DEF B!updateFailure
  <2>2. sync' \in [Syncs -> SyncRecords] /\ account' \in Accounts /\ abandoned' \in BOOLEAN
    BY <2>1, StepTaken, StatusWritten DEF SyncPlaces
  <2> QED
    BY <2>2, <1>11 DEF B!updateFailure, B!schedule, B!jobs
<1>12. ASSUME NEW r \in Syncs, B!StatementFails(r) PROVE MailboxTyped'
  <2>1. B!GoTo(r, "failed") /\ abandoned' \in BOOLEAN
    BY <1>12 DEF B!StatementFails, B!LeavesBehind
  <2>2. sync' \in [Syncs -> SyncRecords]
    BY <2>1, StepTaken DEF SyncPlaces
  <2> QED
    BY <2>1, <2>2, <1>12 DEF B!StatementFails, B!schedule, B!jobs
<1>13. ASSUME NEW r \in Syncs, B!Stop(r) PROVE MailboxTyped'
  <2>1. sync' = [sync EXCEPT ![r] = B!AtRest]
    BY <1>13 DEF B!Stop
  <2>2. sync' \in [Syncs -> SyncRecords] /\ abandoned' \in BOOLEAN
    BY <2>1, <1>13, Rested DEF B!Stop, B!LeavesBehind
  <2> QED
    BY <2>2, <1>13 DEF B!Stop, B!schedule, B!jobs
<1>14. ASSUME NEW r \in Syncs, B!Settle(r) PROVE MailboxTyped'
  <2>0. sync' = [sync EXCEPT ![r] = B!AtRest]
    BY <1>14 DEF B!Settle
  <2>1. sync' \in [Syncs -> SyncRecords]
    BY <2>0, Rested
  <2>2. sync[r].job \in 0..SyncCycles
    BY DEF SyncRecords
  <2>3. syncJob' \in [B!Cycles -> JobPhases]
    BY <1>14, <2>2 DEF B!Settle, B!AfterFailure, JobPhases, B!Cycles
  <2> QED
    BY <2>1, <2>3, <1>14 DEF B!Settle, B!schedule
<1>15. ASSUME NEW r \in Syncs, NEW ready \in BOOLEAN, B!FinishCheck(r,
              ready) PROVE MailboxTyped'
  <2>1. PICK step \in SyncPlaces : B!GoTo(r, step)
    BY <1>15 DEF B!FinishCheck, SyncPlaces
  <2>2. PICK s \in {"ready", "error"} : B!WriteStatus(s)
    BY <1>15 DEF B!FinishCheck
  <2>3. sync' \in [Syncs -> SyncRecords] /\ account' \in Accounts /\ abandoned' \in BOOLEAN
    BY <2>1, <2>2, StepTaken, StatusWritten
  <2> QED
    BY <2>3, <1>15 DEF B!FinishCheck, B!schedule, B!jobs
<1>16. CASE UNCHANGED B!vars
  BY <1>16 DEF B!vars, B!schedule, B!jobs
<1> QED
  BY <1>1, <1>2, <1>3, <1>4, <1>5, <1>6, <1>7, <1>8, <1>9, <1>10, <1>11, <1>12, <1>13,
     <1>14, <1>15, <1>16 DEF B!Next

\* What was stored or passed over remains so.
NothingForgotten == stored \subseteq stored' /\ passedOver \subseteq passedOver'

\* The others' messages stay covered while nothing is forgotten.
LEMMA OthersCovered ==
    ASSUME CursorInv, NEW r \in Syncs, OtherSyncsStand(r), NothingForgotten, CoveredSoFar(r)'
    PROVE  RunsCover'
<1> SUFFICES ASSUME NEW q \in Syncs \ {r} PROVE CoveredSoFar(q)'
  BY DEF RunsCover
<1>1. sync'[q] = sync[q] /\ CoveredSoFar(q)
  BY DEF OtherSyncsStand, CursorInv, RunsCover
<1> QED
  BY <1>1 DEF NothingForgotten, CoveredSoFar, Behind, B!Accounted

\* The cursor is covered while it is not moved ahead.
LEMMA CursorStays ==
    ASSUME CursorInv, NothingForgotten, account'.cursor \in {account.cursor, 0}
    PROVE  B!CursorCovers'
<1>1. account.cursor \in 0..Messages
  BY DEF CursorInv, MailboxTyped, Accounts
<1> QED
  BY <1>1 DEF CursorInv, B!CursorCovers, B!Accounted, NothingForgotten

\* Synchronisations that hold no messages owe nothing.
Empty(r) == sync[r].at \notin {"mark", "fetch", "store"}

\* A synchronisation with nothing in hand covers everything.
LEMMA EmptyCovered == ASSUME NEW r \in Syncs, Empty(r)' PROVE CoveredSoFar(r)'
BY DEF Empty, CoveredSoFar

\* Every step keeps the invariant of the cursor.
LEMMA CursorStep == MailboxAssumed /\ CursorInv /\ [B!Next]_B!vars => CursorInv'
<1> SUFFICES ASSUME MailboxAssumed, CursorInv, [B!Next]_B!vars
             PROVE  B!CursorCovers' /\ RunsCover'
  BY MailboxTypes DEF CursorInv
<1>0. MailboxTyped /\ sync \in [Syncs -> SyncRecords] /\ account \in Accounts /\ abandoned \in BOOLEAN
  BY DEF CursorInv, MailboxTyped
<1>a. ASSUME NothingForgotten, UNCHANGED sync PROVE RunsCover'
  BY <1>a DEF CursorInv, RunsCover, CoveredSoFar, Behind, B!Accounted, NothingForgotten
<1>1. ASSUME B!Arrive \/ B!ComeDue \/ B!Delete \/ B!Disable \/ \E on \in BOOLEAN : B!Upsert(on)
      PROVE  B!CursorCovers' /\ RunsCover'
  <2>1. NothingForgotten /\ UNCHANGED sync
    BY <1>1 DEF B!Arrive, B!ComeDue, B!Delete, B!Disable, B!Upsert, NothingForgotten
  <2>2. account'.cursor \in {account.cursor, 0}
    <3>1. CASE B!Arrive \/ B!ComeDue
      BY <3>1 DEF B!Arrive, B!ComeDue
    <3>2. CASE B!Delete
      BY <3>2 DEF B!Delete, B!NoAccount
    <3>3. CASE B!Disable
      BY <3>3, <1>0 DEF B!Disable, Accounts
    <3>4. CASE \E on \in BOOLEAN : B!Upsert(on)
      BY <3>4, <1>0 DEF B!Upsert, Accounts
    <3> QED BY <1>1, <3>1, <3>2, <3>3, <3>4
  <2> QED BY <2>1, <2>2, <1>a, CursorStays
<1>2. ASSUME B!ListSyncTargets \/ B!ScheduleDueJobs \/ \E c \in B!Cycles : B!Lapse(c) \/ B!Replay(c)
      PROVE  B!CursorCovers' /\ RunsCover'
  <2>1. NothingForgotten /\ UNCHANGED <<sync, account>>
    BY <1>2 DEF B!ListSyncTargets, B!ScheduleDueJobs, B!Lapse, B!Replay, NothingForgotten
  <2> QED BY <2>1, <1>a, CursorStays
<1>3. ASSUME NEW r \in Syncs, \/ \E c \in B!Cycles : B!Take(r, c)
                              \/ B!RunNow(r) \/ B!BeginCheck(r) \/ B!Stop(r) \/ B!Settle(r)
      PROVE  B!CursorCovers' /\ RunsCover'
  <2>1. PICK step \in {"idle", "load", "check"}, c \in 0..SyncCycles :
            sync' = [sync EXCEPT ![r] = B!Begun(step, c)]
    BY <1>3 DEF B!Take, B!RunNow, B!BeginCheck, B!Stop, B!Settle, B!AtRest, B!Cycles,
       MailboxAssumed
  <2>2. OtherSyncsStand(r) /\ Empty(r)'
    <3>1. step \in SyncPlaces
      BY DEF SyncPlaces
    <3>2. OtherSyncsStand(r) /\ sync'[r].at = step
      BY <2>1, <3>1, <1>0, Began
    <3> QED
      BY <3>2 DEF Empty
  <2>3. NothingForgotten /\ UNCHANGED account
    BY <1>3 DEF B!Take, B!RunNow, B!BeginCheck, B!Stop, B!Settle, NothingForgotten
  <2> QED BY <2>2, <2>3, EmptyCovered, OthersCovered, CursorStays
<1>4. ASSUME NEW r \in Syncs, B!LoadCredentials(r) PROVE B!CursorCovers' /\ RunsCover'
  <2>1. NothingForgotten /\ UNCHANGED <<account, stored, passedOver>>
    BY <1>4 DEF B!LoadCredentials, NothingForgotten
  <2>2. OtherSyncsStand(r) /\ sync'[r].mark = account.cursor /\ sync'[r].at \in {"failed", "fail", "mark"}
    BY <1>4, <1>0, LoadDoes
  <2>3. CoveredSoFar(r)'
    BY <2>1, <2>2 DEF CoveredSoFar, CursorInv, B!CursorCovers, B!Accounted
  <2> QED BY <2>1, <2>2, <2>3, OthersCovered, CursorStays
<1>5. ASSUME NEW r \in Syncs,
             B!MarkSyncing(r) \/ B!MarkChecking(r) \/ B!updateFailure(r) \/ B!FetchFails(r)
             \/ B!RecordFails(r) \/ B!StatementFails(r) \/ \E ready \in BOOLEAN : B!FinishCheck(r, ready)
      PROVE  B!CursorCovers' /\ RunsCover'
  <2>1. PICK step \in SyncPlaces : /\ B!GoTo(r, step) /\ step \notin {"mark", "store"}
                                   /\ step = "fetch" => sync[r].at = "mark"
    BY <1>5 DEF B!MarkSyncing, B!MarkChecking, B!updateFailure, B!FetchFails, B!RecordFails,
       B!StatementFails,
                B!FinishCheck, SyncPlaces, B!At
  <2>2. NothingForgotten /\ UNCHANGED <<stored, passedOver>>
    BY <1>5 DEF B!MarkSyncing, B!MarkChecking, B!updateFailure, B!FetchFails, B!RecordFails,
       B!StatementFails,
                B!FinishCheck, NothingForgotten
  <2>3. \/ UNCHANGED account
        \/ \E s \in {"pending", "syncing", "ready", "error"} : B!WriteStatus(s)
    BY <1>5 DEF B!MarkSyncing, B!MarkChecking, B!updateFailure, B!FetchFails, B!RecordFails,
       B!StatementFails,
                B!FinishCheck
  <2>4. account'.cursor = account.cursor
    BY <2>3, <1>0, StatusWritten
  <2>5. OtherSyncsStand(r) /\ sync'[r].at = step /\ sync'[r].mark = sync[r].mark
    BY <2>1, <1>0, StepTaken DEF KeepsItsWork
  <2>6. CoveredSoFar(r)'
    BY <2>1, <2>2, <2>5 DEF CoveredSoFar, CursorInv, RunsCover, B!Accounted
  <2> QED BY <2>2, <2>4, <2>5, <2>6, OthersCovered, CursorStays
<1>6. ASSUME NEW r \in Syncs, B!Fetch(r) PROVE B!CursorCovers' /\ RunsCover'
  <2>1. NothingForgotten /\ UNCHANGED <<account, stored, passedOver>>
    BY <1>6 DEF B!Fetch, NothingForgotten
  <2>2. \A u \in 1..sync[r].mark : u \in B!Accounted
    BY <1>6 DEF B!Fetch, B!At, CursorInv, RunsCover, CoveredSoFar
  <2>3. /\ OtherSyncsStand(r) /\ sync'[r].at = "store" /\ sync'[r].mark = sync[r].mark
        /\ \A u \in 1..inbox : u > sync[r].mark =>
               u \in sync'[r].todo \cup sync'[r].older \cup TooLarge
        /\ sync'[r].todo \subseteq 1..inbox
    BY <1>6, <1>0, FetchDoes
  <2>4. sync[r].mark \in Nat /\ inbox \in Nat
    BY <1>0 DEF MailboxTyped, SyncRecords
  <2>5. \A v \in sync'[r].todo : \A u \in 1..v : u \in Behind(r)' \cup sync'[r].todo
    <3> SUFFICES ASSUME NEW v \in sync'[r].todo, NEW u \in 1..v
                 PROVE  u \in B!Accounted \cup sync'[r].older \cup sync'[r].todo
      BY <2>1 DEF Behind, B!Accounted
    <3>1. u \in 1..inbox
      BY <2>3, <2>4
    <3>2. CASE u > sync[r].mark
      BY <3>1, <3>2, <2>3 DEF B!Accounted
    <3>3. CASE ~(u > sync[r].mark)
      BY <3>1, <3>3, <2>2, <2>4
    <3> QED BY <3>2, <3>3
  <2>6. CoveredSoFar(r)'
    BY <2>1, <2>2, <2>3, <2>5 DEF CoveredSoFar, Behind, B!Accounted
  <2> QED BY <2>1, <2>3, <2>6, OthersCovered, CursorStays
<1>7. ASSUME NEW r \in Syncs, B!RecordInbound(r) PROVE B!CursorCovers' /\ RunsCover'
  <2>1. NothingForgotten /\ UNCHANGED <<account, passedOver>>
    BY <1>7 DEF B!RecordInbound, NothingForgotten
  <2>2. /\ OtherSyncsStand(r)
        /\ sync'[r].at = "store" /\ sync'[r].older = sync[r].older
        /\ sync'[r].mark \in sync[r].todo
        /\ \A v \in sync[r].todo : sync'[r].mark <= v
        /\ sync'[r].todo = sync[r].todo \ {sync'[r].mark}
        /\ stored' = stored \cup {sync'[r].mark}
    BY <1>7, <1>0, RecordDoes
  <2>3. sync[r].at = "store" /\ CoveredSoFar(r) /\ sync[r].todo \subseteq B!Mail
    BY <1>7, <1>0 DEF B!RecordInbound, B!At, CursorInv, RunsCover, SyncRecords
  <2>4. \A v \in sync[r].todo : \A u \in 1..v : u \in Behind(r) \cup sync[r].todo
    BY <2>3 DEF CoveredSoFar
  <2>5. Behind(r)' = Behind(r) \cup {sync'[r].mark}
    BY <2>1, <2>2 DEF Behind, B!Accounted
  <2>6. \A v \in sync[r].todo : \A u \in 1..v : u \in Behind(r)' \cup sync'[r].todo
    BY <2>2, <2>4, <2>5
  <2>7. \A u \in 1..sync'[r].mark : u \in Behind(r)'
    <3> SUFFICES ASSUME NEW u \in 1..sync'[r].mark, u \in sync'[r].todo PROVE u \in Behind(r)'
      BY <2>2, <2>6
    <3>1. sync'[r].mark \in Nat /\ sync'[r].mark <= u /\ u <= sync'[r].mark
      BY <2>2, <2>3 DEF B!Mail
    <3> QED BY <3>1, <2>5
  <2>8. CoveredSoFar(r)'
    BY <2>2, <2>6, <2>7 DEF CoveredSoFar
  <2> QED BY <2>1, <2>2, <2>8, OthersCovered, CursorStays
<1>8. ASSUME NEW r \in Syncs, NEW heard \in BOOLEAN, B!Finish(r, heard)
      PROVE  B!CursorCovers' /\ RunsCover'
  <2>1. /\ NothingForgotten /\ UNCHANGED stored
        /\ B!Exists => passedOver' = passedOver \cup {u \in sync[r].older : u <= sync[r].mark}
    BY <1>8 DEF B!Finish, NothingForgotten
  <2>2. /\ OtherSyncsStand(r) /\ sync'[r].at \in {"done", "failed"}
        /\ account'.cursor = IF B!Exists /\ sync[r].mark # 0 THEN sync[r].mark ELSE account.cursor
    BY <1>8, <1>0, FinishDoes
  <2>3. RunsCover'
    BY <2>1, <2>2, EmptyCovered, OthersCovered DEF Empty
  <2>4. CASE B!Exists /\ sync[r].mark # 0
    <3>1. \A u \in 1..sync[r].mark : u \in Behind(r)
      BY <1>8 DEF B!Finish, B!At, CursorInv, RunsCover, CoveredSoFar
    <3>2. sync[r].mark \in Nat
      BY <1>0 DEF SyncRecords
    <3>3. \A u \in 1..sync[r].mark : u \in B!Accounted'
      BY <3>1, <3>2, <2>1, <2>4 DEF Behind, B!Accounted
    <3> QED
      BY <3>3, <2>2, <2>3, <2>4 DEF B!CursorCovers
  <2>5. CASE ~(B!Exists /\ sync[r].mark # 0)
    BY <2>1, <2>2, <2>3, <2>5, CursorStays
  <2> QED BY <2>4, <2>5
<1>9. CASE UNCHANGED B!vars
  BY <1>9, <1>a, CursorStays DEF B!vars, NothingForgotten
<1> QED
  BY <1>1, <1>2, <1>3, <1>4, <1>5, <1>6, <1>7, <1>8, <1>9 DEF B!Next

\* Nothing arrived yet.
LEMMA CursorInit == MailboxAssumed /\ B!Init => CursorInv
<1> SUFFICES ASSUME MailboxAssumed, B!Init PROVE CursorInv
  OBVIOUS
<1>1. sync \in [Syncs -> SyncRecords] /\ \A r \in Syncs : sync[r].at = "idle"
  BY DEF B!Init, B!AtRest, B!Begun, SyncRecords, MailboxAssumed
<1>2. account \in Accounts /\ account.cursor = 0
  BY DEF B!Init, Accounts, MailboxAssumed
<1>a. syncJob \in [B!Cycles -> JobPhases] /\ syncTries \in [B!Cycles -> Nat]
  BY DEF B!Init, JobPhases
<1>b. /\ cycle \in Nat /\ syncDue \in BOOLEAN /\ inbox \in 0..Messages /\ syncListed \in Nat
      /\ stored \in SUBSET B!Mail /\ passedOver \in SUBSET B!Mail /\ abandoned \in BOOLEAN
  <2>1. cycle = 1 /\ inbox = 0 /\ syncListed = 0 /\ stored = {} /\ passedOver = {}
    BY Zenon DEF B!Init
  <2>2. syncDue \in BOOLEAN /\ abandoned \in BOOLEAN
    BY Zenon DEF B!Init
  <2> QED BY <2>1, <2>2 DEF MailboxAssumed
<1>3. MailboxTyped
  BY <1>1, <1>2, <1>a, <1>b DEF MailboxTyped
<1>4. B!CursorCovers /\ RunsCover
  BY <1>1, <1>2 DEF B!CursorCovers, RunsCover, CoveredSoFar
<1> QED BY <1>3, <1>4 DEF CursorInv

\* The cursor passes no message by that the CRM lacks, but those that were older
\* than the limit's newest when they were passed and those too large to be read.
THEOREM CursorIsCovered == ASSUME MailboxAssumed PROVE B!Spec => []B!CursorCovers
<1>1. CursorInv => B!CursorCovers
  BY DEF CursorInv
<1> QED BY <1>1, CursorInit, CursorStep, PTL DEF B!Spec

\* The synchronisations that may still open the next cycle.
Underway == {r \in Syncs : sync[r].at \notin {"idle", "done", "failed"}}

\* There is a cycle left for every synchronisation under way.
RoomInv == MailboxTyped /\ cycle > 0 /\ cycle + Cardinality(Underway) <= SyncCycles

\* Synchronisations can be counted.
LEMMA UnderwayFinite ==
    ASSUME MailboxAssumed
    PROVE  /\ IsFiniteSet(Underway) /\ Cardinality(Underway) \in Nat
           /\ IsFiniteSet(B!Active) /\ Cardinality(B!Active) \in Nat
           /\ Underway \subseteq B!Active
           /\ Cardinality(Underway) <= Cardinality(B!Active)
<1>1. IsFiniteSet(B!Active)
  BY FS_Subset DEF MailboxAssumed, B!Active
<1>2. Underway \subseteq B!Active
  BY DEF Underway, B!Active
<1> QED
  BY <1>1, <1>2, FS_Subset, FS_CardinalityType

\* No more of them are under way.
LEMMA FewerUnderway ==
    ASSUME MailboxAssumed, RoomInv, MailboxTyped', UNCHANGED cycle, Underway' \subseteq Underway
    PROVE  RoomInv'
<1>1. IsFiniteSet(Underway) /\ Cardinality(Underway) \in Nat
  BY UnderwayFinite
<1>2. IsFiniteSet(Underway') /\ Cardinality(Underway') <= Cardinality(Underway)
  BY <1>1, FS_Subset
<1>3. Cardinality(Underway') \in Nat
  BY <1>2, FS_CardinalityType
<1> QED
  BY <1>1, <1>2, <1>3 DEF RoomInv, MailboxAssumed, MailboxTyped

\* One more of them is under way, and there was room for it.
LEMMA OneMoreUnderway ==
    ASSUME MailboxAssumed, RoomInv, MailboxTyped', UNCHANGED cycle, B!MayBegin,
           NEW r \in Syncs, B!At(r, "idle"), OtherSyncsStand(r)
    PROVE  RoomInv'
<1>1. /\ IsFiniteSet(B!Active) /\ Cardinality(B!Active) \in Nat
  BY UnderwayFinite
<1>2. r \notin B!Active
  BY DEF B!At, B!Active
<1>3. Cardinality(B!Active \cup {r}) = Cardinality(B!Active) + 1 /\ IsFiniteSet(B!Active \cup {r})
  BY <1>1, <1>2, FS_AddElement
<1>4. Underway' \subseteq B!Active \cup {r}
  BY DEF Underway, B!Active, OtherSyncsStand
<1>5. IsFiniteSet(Underway') /\ Cardinality(Underway') <= Cardinality(B!Active \cup {r})
  BY <1>3, <1>4, FS_Subset
<1>6. Cardinality(Underway') \in Nat
  BY <1>5, FS_CardinalityType
<1> QED
  BY <1>1, <1>3, <1>5, <1>6, SyncSizes DEF RoomInv, B!MayBegin, MailboxAssumed, MailboxTyped

\* Every step keeps room for a cycle.
LEMMA RoomStep == MailboxAssumed /\ RoomInv /\ [B!Next]_B!vars => RoomInv'
<1> SUFFICES ASSUME MailboxAssumed, RoomInv, [B!Next]_B!vars PROVE RoomInv'
  OBVIOUS
<1>0. MailboxTyped /\ MailboxTyped' /\ sync \in [Syncs -> SyncRecords]
  BY MailboxTypes DEF RoomInv, MailboxTyped
<1>a. ASSUME UNCHANGED <<cycle, sync>> PROVE RoomInv'
  BY <1>a, <1>0, FewerUnderway DEF Underway
<1>1. ASSUME B!Arrive \/ B!ComeDue \/ B!Delete \/ B!Disable \/ B!ListSyncTargets \/ B!ScheduleDueJobs
             \/ \E c \in B!Cycles : B!Lapse(c) \/ B!Replay(c)
      PROVE  RoomInv'
  BY <1>1, <1>a DEF B!Arrive, B!ComeDue, B!Delete, B!Disable, B!ListSyncTargets,
     B!ScheduleDueJobs,
                    B!Lapse, B!Replay, B!schedule
<1>2. ASSUME NEW on \in BOOLEAN, B!Upsert(on) PROVE RoomInv'
  <2>1. cycle' = cycle + 1 /\ UNCHANGED sync /\ B!MayBegin
    BY <1>2 DEF B!Upsert
  <2>2. Underway' = Underway
    BY <2>1 DEF Underway
  <2>3. Cardinality(Underway) <= Cardinality(B!Active) /\ Cardinality(Underway) \in Nat
        /\ Cardinality(B!Active) \in Nat
    BY UnderwayFinite
  <2> QED
    BY <1>0, <2>1, <2>2, <2>3, SyncSizes DEF RoomInv, B!MayBegin, MailboxTyped, MailboxAssumed
<1>3. ASSUME NEW r \in Syncs, (\E c \in B!Cycles : B!Take(r,
             c)) \/ B!RunNow(r) \/ B!BeginCheck(r)
      PROVE  RoomInv'
  <2>1. B!At(r, "idle") /\ B!MayBegin /\ UNCHANGED cycle
    BY <1>3 DEF B!Take, B!RunNow, B!BeginCheck, B!schedule
  <2>a. PICK step \in {"load", "check"}, c \in 0..SyncCycles :
            sync' = [sync EXCEPT ![r] = B!Begun(step, c)]
    BY <1>3 DEF B!Take, B!RunNow, B!BeginCheck, B!Cycles, MailboxAssumed
  <2>b. step \in SyncPlaces
    BY DEF SyncPlaces
  <2>2. OtherSyncsStand(r)
    BY <2>a, <2>b, <1>0, Began
  <2> QED
    BY <1>0, <2>1, <2>2, OneMoreUnderway
<1>4. ASSUME NEW r \in Syncs, B!Stop(r) \/ B!Settle(r) PROVE RoomInv'
  <2>1. sync' = [sync EXCEPT ![r] = B!AtRest] /\ UNCHANGED cycle
    BY <1>4 DEF B!Stop, B!Settle, B!schedule
  <2>2. OtherSyncsStand(r) /\ sync'[r].at = "idle"
    BY <2>1, <1>0, Rested
  <2>3. Underway' \subseteq Underway
    BY <2>2 DEF Underway, OtherSyncsStand
  <2> QED
    BY <1>0, <2>1, <2>3, FewerUnderway
<1>5. ASSUME NEW r \in Syncs,
             B!LoadCredentials(r) \/ B!Fetch(r) \/ B!RecordInbound(r) \/ B!MarkSyncing(r) \/ B!MarkChecking(r)
             \/ B!updateFailure(r) \/ B!FetchFails(r) \/ B!RecordFails(r) \/ B!StatementFails(r)
             \/ \E ready \in BOOLEAN : B!FinishCheck(r, ready)
      PROVE  RoomInv'
  <2>1. r \in Underway /\ UNCHANGED cycle
    BY <1>5 DEF B!LoadCredentials, B!Fetch, B!RecordInbound, B!MarkSyncing, B!MarkChecking,
       B!updateFailure,
                B!FetchFails, B!RecordFails, B!StatementFails, B!FinishCheck, B!At,
                B!schedule, Underway
  <2>2. OtherSyncsStand(r)
    BY <1>5, <1>0 DEF B!LoadCredentials, B!Fetch, B!RecordInbound, B!MarkSyncing,
       B!MarkChecking,
                B!updateFailure, B!FetchFails, B!RecordFails, B!StatementFails, B!FinishCheck,
                B!GoTo, OtherSyncsStand
  <2>3. Underway' \subseteq Underway
    BY <2>1, <2>2 DEF Underway, OtherSyncsStand
  <2> QED
    BY <1>0, <2>1, <2>3, FewerUnderway
<1>6. ASSUME NEW r \in Syncs, NEW heard \in BOOLEAN, B!Finish(r, heard) PROVE RoomInv'
  <2>1. r \in Underway /\ cycle' \in {cycle, cycle + 1}
    BY <1>6 DEF B!Finish, B!At, Underway
  <2>2. OtherSyncsStand(r) /\ sync'[r].at \in {"done", "failed"}
    BY <1>6, <1>0, FinishDoes
  <2>3. Underway' = Underway \ {r}
    BY <2>2 DEF Underway, OtherSyncsStand
  <2>4. Cardinality(Underway') = Cardinality(Underway) - 1 /\ Cardinality(Underway) \in Nat
    BY <2>1, <2>3, UnderwayFinite, FS_RemoveElement
  <2>5. Cardinality(Underway') \in Int
    BY <2>4
  <2> QED
    BY <1>0, <2>1, <2>4 DEF RoomInv, MailboxTyped, MailboxAssumed
<1>7. CASE UNCHANGED B!vars
  BY <1>7, <1>a DEF B!vars, B!schedule
<1> QED
  BY <1>1, <1>2, <1>3, <1>4, <1>5, <1>6, <1>7 DEF B!Next

\* A synchronisation that answers for a job has it, alone, and none that ended
\* well has the job of the cycle that is on.
JobHeld(r) ==
    LET c == sync[r].job
    IN  /\ sync[r].at \in {"idle", "check", "checked"} => c = 0
        /\ c # 0 => syncJob[c] = "taken"
        /\ sync[r].at = "done" /\ c # 0 => c < cycle

\* No two synchronisations have the same job.
HeldAlone == \A r, q \in Syncs : r # q /\ sync[r].job # 0 => sync[q].job # sync[r].job

\* No cycle has a job before it is opened.
NoJobAhead == syncListed <= cycle /\ \A c \in B!Cycles : c > cycle => syncJob[c] = "none"

\* The job of the instant an account waits for was not used up before.
CurrentOpen ==
    account.enabled = TRUE =>
        /\ account.status \in {"pending", "syncing", "ready", "error"}
        /\ syncJob[cycle] # "succeeded"

\* The inductive invariant of the jobs of an account.
JobsInv ==
    RoomInv /\ (\A r \in Syncs : JobHeld(r)) /\ HeldAlone /\ NoJobAhead /\ CurrentOpen

\* The job in hand is of a cycle that was opened, and is taken.
LEMMA HeldIsPast ==
    ASSUME MailboxAssumed, JobsInv, NEW r \in Syncs, sync[r].job # 0
    PROVE  sync[r].job \in B!Cycles /\ syncJob[sync[r].job] = "taken" /\ sync[r].job <= cycle
<1>1. sync[r].job \in B!Cycles
  BY DEF JobsInv, RoomInv, MailboxTyped, SyncRecords, B!Cycles, MailboxAssumed
<1>2. syncJob[sync[r].job] = "taken"
  BY DEF JobsInv, JobHeld
<1>3. ~(sync[r].job > cycle)
  BY <1>1, <1>2 DEF JobsInv, NoJobAhead
<1> QED
  BY <1>1, <1>2, <1>3 DEF JobsInv, RoomInv, MailboxTyped, B!Cycles, MailboxAssumed

\* What only a run's own step changes: the others, and the jobs and the schedule, stand.
LEMMA JobsStandStill ==
    ASSUME MailboxAssumed, JobsInv, RoomInv', NEW r \in Syncs, OtherSyncsStand(r),
           UNCHANGED <<syncJob, syncListed, cycle>>, JobHeld(r)', sync'[r].job \in {0, sync[r].job},
           account'.enabled = account.enabled,
           account'.enabled = TRUE =>
                account'.status \in {"pending", "syncing", "ready", "error"}
    PROVE  JobsInv'
<1>1. \A q \in Syncs \ {r} : JobHeld(q)'
  BY DEF JobsInv, JobHeld, OtherSyncsStand
<1>2. HeldAlone'
  BY DEF JobsInv, HeldAlone, OtherSyncsStand
<1>3. NoJobAhead' /\ CurrentOpen'
  BY DEF JobsInv, NoJobAhead, CurrentOpen
<1> QED
  BY <1>1, <1>2, <1>3 DEF JobsInv

\* Every step keeps the invariant of the jobs.
LEMMA JobsStep == MailboxAssumed /\ JobsInv /\ [B!Next]_B!vars => JobsInv'
<1> SUFFICES ASSUME MailboxAssumed, JobsInv, [B!Next]_B!vars PROVE JobsInv'
  OBVIOUS
<1>0. /\ RoomInv /\ RoomInv' /\ MailboxTyped /\ MailboxTyped' /\ sync \in [Syncs -> SyncRecords]
      /\ account \in Accounts /\ abandoned \in BOOLEAN
  BY RoomStep DEF JobsInv, RoomInv, MailboxTyped
<1>b. /\ cycle \in B!Cycles /\ cycle' \in B!Cycles /\ B!Cycles \subseteq Nat \ {0}
      /\ syncListed \in Nat /\ syncJob \in [B!Cycles -> JobPhases]
  <2>1. Cardinality(Underway) \in Nat /\ SyncCycles \in Nat
    BY UnderwayFinite DEF MailboxAssumed
  <2>2. Cardinality(Underway') \in Nat
    <3>1. Underway' \subseteq Syncs
      BY DEF Underway
    <3> QED BY <3>1, FS_Subset, FS_CardinalityType DEF MailboxAssumed
  <2>3. cycle \in Nat /\ cycle' \in Nat /\ syncListed \in Nat /\ syncJob \in [B!Cycles -> JobPhases]
    BY <1>0 DEF MailboxTyped
  <2>4. /\ cycle > 0 /\ cycle + Cardinality(Underway) <= SyncCycles
        /\ cycle' > 0 /\ cycle' + Cardinality(Underway') <= SyncCycles
    BY <1>0 DEF RoomInv
  <2> QED
    BY <2>1, <2>2, <2>3, <2>4 DEF B!Cycles
<1>1. ASSUME B!Arrive \/ B!ComeDue PROVE JobsInv'
  <2>1. UNCHANGED <<account, cycle, syncListed, syncJob, sync>>
    BY <1>1 DEF B!Arrive, B!ComeDue, B!schedule, B!jobs
  <2> QED
    BY <1>0, <2>1 DEF JobsInv, JobHeld, HeldAlone, NoJobAhead, CurrentOpen
<1>2. ASSUME B!Delete PROVE JobsInv'
  <2>1. UNCHANGED <<cycle, syncListed, syncJob, sync>> /\ account'.enabled = FALSE
    BY <1>2 DEF B!Delete, B!NoAccount, B!jobs
  <2> QED
    BY <1>0, <2>1 DEF JobsInv, JobHeld, HeldAlone, NoJobAhead, CurrentOpen
<1>3. ASSUME B!Disable PROVE JobsInv'
  <2>1. UNCHANGED <<cycle, syncListed, sync>>
    BY <1>3 DEF B!Disable, B!schedule
  <2>2. account'.enabled = FALSE
    BY <1>0, <1>3 DEF B!Disable, Accounts, B!Exists, JobsInv, CurrentOpen
  <2>3. \A c \in B!Cycles : syncJob'[c] = IF syncJob[c] = "waiting" THEN "succeeded" ELSE syncJob[c]
    BY <1>3 DEF B!Disable
  <2>4. \A r \in Syncs : sync[r].job # 0 => sync[r].job \in B!Cycles
    BY HeldIsPast
  <2>5. \A r \in Syncs : JobHeld(r)'
    BY <2>1, <2>3, <2>4 DEF JobsInv, JobHeld
  <2> QED
    BY <1>0, <2>1, <2>2, <2>3, <2>5 DEF JobsInv, HeldAlone, NoJobAhead, CurrentOpen
<1>4. ASSUME NEW on \in BOOLEAN, B!Upsert(on) PROVE JobsInv'
  <2>1. cycle' = cycle + 1 /\ UNCHANGED <<syncListed, syncJob, sync>>
    BY <1>4 DEF B!Upsert, B!jobs
  <2>2. account'.enabled = TRUE => account'.status = "pending"
    BY <1>0, <1>4 DEF B!Upsert, Accounts
  <2>3. syncJob'[cycle'] = "none"
    BY <1>b, <2>1 DEF JobsInv, NoJobAhead
  <2>4. ASSUME NEW r \in Syncs PROVE JobHeld(r)'
    <3>1. sync[r].job # 0 => sync[r].job \in Nat /\ sync[r].job <= cycle
      BY <1>b, HeldIsPast
    <3> QED
      BY <1>b, <2>1, <3>1 DEF JobsInv, JobHeld
  <2>5. NoJobAhead'
    <3>1. syncListed <= cycle /\ \A c \in B!Cycles : c > cycle => syncJob[c] = "none"
      BY DEF JobsInv, NoJobAhead
    <3>2. \A c \in B!Cycles : c > cycle + 1 => c > cycle
      BY <1>b
    <3> QED BY <1>b, <2>1, <3>1, <3>2 DEF NoJobAhead
  <2> QED
    BY <1>0, <2>1, <2>2, <2>3, <2>4, <2>5 DEF JobsInv, HeldAlone, CurrentOpen
<1>5. ASSUME B!ListSyncTargets PROVE JobsInv'
  <2>1. syncListed' = cycle /\ UNCHANGED <<account, cycle, syncJob, sync>>
    BY <1>5 DEF B!ListSyncTargets, B!jobs
  <2> QED
    BY <1>0, <1>b, <2>1 DEF JobsInv, JobHeld, HeldAlone, NoJobAhead, CurrentOpen
<1>6. ASSUME B!ScheduleDueJobs PROVE JobsInv'
  <2>1. syncListed' = 0 /\ UNCHANGED <<account, cycle, sync>>
    BY <1>6 DEF B!ScheduleDueJobs
  <2>2. \A c \in B!Cycles : syncJob'[c] = syncJob[c] \/ (c = syncListed /\ syncJob[c] = "none" /\ syncJob'[c] = "waiting")
    BY <1>6, <1>b DEF B!ScheduleDueJobs
  <2>3. \A r \in Syncs : JobHeld(r)'
    BY <2>1, <2>2, HeldIsPast DEF JobsInv, JobHeld
  <2>4. NoJobAhead'
    BY <1>b, <1>0, <2>1, <2>2 DEF JobsInv, NoJobAhead, MailboxTyped
  <2>5. CurrentOpen'
    BY <1>b, <2>1, <2>2 DEF JobsInv, CurrentOpen
  <2> QED
    BY <1>0, <2>1, <2>3, <2>4, <2>5 DEF JobsInv, HeldAlone
<1>7. ASSUME NEW c \in B!Cycles, B!Lapse(c) \/ B!Replay(c) PROVE JobsInv'
  <2>1. /\ UNCHANGED <<account, cycle, syncListed, sync>> /\ syncJob[c] \in {"taken", "dead"}
        /\ syncJob'[c] \in {"waiting", "dead"} /\ \A d \in B!Cycles \ {c} : syncJob'[d] = syncJob[d]
    BY <1>7, <1>b DEF B!Lapse, B!Replay, B!schedule, B!AfterFailure
  <2>2. \A r \in Syncs : sync[r].job # c
    <3> SUFFICES ASSUME NEW r \in Syncs, sync[r].job = c PROVE FALSE
      OBVIOUS
    <3>1. syncJob[c] = "taken"
      BY <1>b, HeldIsPast
    <3> QED
      BY <1>7, <3>1 DEF B!Lapse, B!Replay
  <2>3. \A r \in Syncs : JobHeld(r)'
    BY <2>1, <2>2, HeldIsPast DEF JobsInv, JobHeld
  <2>4. NoJobAhead' /\ CurrentOpen'
    BY <1>b, <2>1 DEF JobsInv, NoJobAhead, CurrentOpen
  <2> QED
    BY <1>0, <2>1, <2>3, <2>4 DEF JobsInv, HeldAlone
<1>8. ASSUME NEW r \in Syncs, NEW c \in B!Cycles, B!Take(r, c) PROVE JobsInv'
  <2>1. /\ UNCHANGED <<account, cycle, syncListed>> /\ syncJob[c] = "waiting"
        /\ syncJob'[c] = "taken" /\ \A d \in B!Cycles \ {c} : syncJob'[d] = syncJob[d]
    BY <1>8, <1>b DEF B!Take, B!schedule
  <2>2. sync' = [sync EXCEPT ![r] = B!Begun("load", c)] /\ "load" \in SyncPlaces /\ c \in 0..SyncCycles
    BY <1>8 DEF B!Take, SyncPlaces, B!Cycles
  <2>3. OtherSyncsStand(r) /\ sync'[r].at = "load" /\ sync'[r].job = c
    BY <1>0, <2>2, Began
  <2>4. \A q \in Syncs : sync[q].job # c
    BY <1>b, <2>1, HeldIsPast
  <2>5. \A q \in Syncs : JobHeld(q)'
    <3>1. JobHeld(r)'
      BY <2>1, <2>3 DEF JobHeld
    <3>2. ASSUME NEW q \in Syncs \ {r} PROVE JobHeld(q)'
      BY <2>1, <2>3, <2>4, HeldIsPast DEF JobsInv, JobHeld, OtherSyncsStand
    <3> QED BY <3>1, <3>2
  <2>6. HeldAlone'
    BY <2>3, <2>4 DEF JobsInv, HeldAlone, OtherSyncsStand
  <2>7. NoJobAhead' /\ CurrentOpen'
    BY <1>b, <2>1 DEF JobsInv, NoJobAhead, CurrentOpen
  <2> QED
    BY <1>0, <2>5, <2>6, <2>7 DEF JobsInv
<1>9. ASSUME NEW r \in Syncs, B!RunNow(r) \/ B!BeginCheck(r) PROVE JobsInv'
  <2>1. PICK step \in {"load", "check"} : sync' = [sync EXCEPT ![r] = B!Begun(step, 0)]
    BY <1>9 DEF B!RunNow, B!BeginCheck
  <2>2. step \in SyncPlaces /\ 0 \in 0..SyncCycles
    BY DEF SyncPlaces, MailboxAssumed
  <2>3. OtherSyncsStand(r) /\ sync'[r].at = step /\ sync'[r].job = 0
    BY <1>0, <2>1, <2>2, Began
  <2>4. UNCHANGED <<account, syncJob, syncListed, cycle>>
    BY <1>9 DEF B!RunNow, B!BeginCheck, B!schedule, B!jobs
  <2>5. JobHeld(r)'
    BY <2>3 DEF JobHeld
  <2> QED
    BY <1>0, <2>3, <2>4, <2>5, JobsStandStill DEF JobsInv, CurrentOpen
<1>10. ASSUME NEW r \in Syncs, B!Stop(r) PROVE JobsInv'
  <2>1. OtherSyncsStand(r) /\ sync'[r].at = "idle" /\ sync'[r].job = 0
    BY <1>0, <1>10, Rested DEF B!Stop
  <2>2. UNCHANGED <<account, syncJob, syncListed, cycle>>
    BY <1>10 DEF B!Stop, B!schedule, B!jobs
  <2>3. JobHeld(r)'
    BY <2>1 DEF JobHeld
  <2> QED
    BY <1>0, <2>1, <2>2, <2>3, JobsStandStill DEF JobsInv, CurrentOpen
<1>11. ASSUME NEW r \in Syncs,
              B!LoadCredentials(r) \/ B!Fetch(r) \/ B!RecordInbound(r) PROVE JobsInv'
  <2>1. OtherSyncsStand(r) /\ sync'[r].job = sync[r].job
        /\ sync'[r].at \notin {"idle", "check", "checked", "done"}
    BY <1>0, <1>11, LoadDoes, FetchDoes, RecordDoes
  <2>2. UNCHANGED <<account, syncJob, syncListed, cycle>>
    BY <1>11 DEF B!LoadCredentials, B!Fetch, B!RecordInbound, B!schedule, B!jobs
  <2>3. JobHeld(r)'
    BY <2>1, <2>2 DEF JobsInv, JobHeld
  <2> QED
    BY <1>0, <2>1, <2>2, <2>3, JobsStandStill DEF JobsInv, CurrentOpen
<1>12. ASSUME NEW r \in Syncs, B!MarkSyncing(r) \/ B!FetchFails(r) \/ B!RecordFails(r)
                             \/ B!updateFailure(r) \/ B!StatementFails(r)
                             \/ B!MarkChecking(r) \/ \E ready \in BOOLEAN : B!FinishCheck(r, ready)
      PROVE  JobsInv'
  <2>1. PICK step \in SyncPlaces :
            B!GoTo(r, step) /\ step # "idle" /\ (step \in {"checked", "done"} => sync[r].at \in {"check", "checked"})
            /\ step # "check"
    BY <1>12 DEF B!MarkSyncing, B!FetchFails, B!RecordFails, B!updateFailure,
       B!StatementFails, B!MarkChecking,
                 B!FinishCheck, SyncPlaces, B!At
  <2>2. OtherSyncsStand(r) /\ sync'[r].job = sync[r].job /\ sync'[r].at = step
    BY <1>0, <2>1, StepTaken DEF KeepsItsWork
  <2>3. UNCHANGED <<syncJob, syncListed, cycle>>
    BY <1>12 DEF B!MarkSyncing, B!FetchFails, B!RecordFails, B!updateFailure,
       B!StatementFails, B!MarkChecking,
                 B!FinishCheck, B!schedule, B!jobs
  <2>4. \/ UNCHANGED account
        \/ \E s \in {"pending", "syncing", "ready", "error"} : B!WriteStatus(s)
    BY <1>12 DEF B!MarkSyncing, B!FetchFails, B!RecordFails, B!updateFailure,
       B!StatementFails, B!MarkChecking,
                 B!FinishCheck
  <2>5. /\ account'.enabled = account.enabled
        /\ account'.enabled = TRUE => account'.status \in {"pending", "syncing", "ready", "error"}
    BY <1>0, <2>4, StatusWritten DEF JobsInv, CurrentOpen, B!Exists
  <2>6. JobHeld(r)'
    BY <2>1, <2>2, <2>3 DEF JobsInv, JobHeld
  <2> QED
    BY <1>0, <2>2, <2>3, <2>5, <2>6, JobsStandStill
<1>13. ASSUME NEW r \in Syncs, NEW heard \in BOOLEAN, B!Finish(r, heard) PROVE JobsInv'
  <2>1. /\ OtherSyncsStand(r) /\ sync'[r].job = sync[r].job
        /\ sync'[r].at = IF B!Exists /\ heard THEN "done" ELSE "failed"
        /\ account'.enabled = account.enabled
        /\ account'.status = IF B!Exists THEN "ready" ELSE "none"
    BY <1>0, <1>13, FinishDoes DEF KeepsItsWork
  <2>2. UNCHANGED <<syncListed, syncJob>> /\ cycle' = IF B!Exists THEN cycle + 1 ELSE cycle
    BY <1>13 DEF B!Finish, B!jobs
  <2>3. ASSUME NEW q \in Syncs PROVE JobHeld(q)'
    <3>1. sync[q].job # 0 => sync[q].job \in Nat /\ sync[q].job <= cycle /\ syncJob[sync[q].job] = "taken"
      BY <1>b, HeldIsPast
    <3>2. sync'[q].job = sync[q].job
      BY <2>1 DEF OtherSyncsStand
    <3>3. CASE q = r
      BY <1>b, <2>1, <2>2, <3>1, <3>2, <3>3 DEF JobHeld
    <3>4. CASE q # r
      BY <1>b, <2>1, <2>2, <3>1, <3>2, <3>4 DEF JobsInv, JobHeld, OtherSyncsStand
    <3> QED BY <3>3, <3>4
  <2>4. NoJobAhead'
    BY <1>b, <1>0, <2>2 DEF JobsInv, NoJobAhead, MailboxTyped
  <2>5. CurrentOpen'
    <3>1. account.enabled = TRUE => B!Exists
      BY DEF JobsInv, CurrentOpen, B!Exists
    <3>2. B!Exists => syncJob[cycle'] = "none"
      BY <1>b, <2>2 DEF JobsInv, NoJobAhead
    <3> QED BY <2>1, <2>2, <3>1, <3>2 DEF CurrentOpen
  <2>6. HeldAlone'
    BY <2>1 DEF JobsInv, HeldAlone, OtherSyncsStand
  <2> QED
    BY <1>0, <2>3, <2>4, <2>5, <2>6 DEF JobsInv
<1>14. ASSUME NEW r \in Syncs, B!Settle(r) PROVE JobsInv'
  <2>1. OtherSyncsStand(r) /\ sync'[r].at = "idle" /\ sync'[r].job = 0
    BY <1>0, <1>14, Rested DEF B!Settle
  <2>2. UNCHANGED <<account, syncListed, cycle>>
    BY <1>14 DEF B!Settle, B!schedule
  <2>3. CASE sync[r].job = 0
    <3>1. UNCHANGED syncJob /\ JobHeld(r)'
      BY <1>14, <2>1, <2>3 DEF B!Settle, JobHeld
    <3> QED
      BY <1>0, <2>1, <2>2, <3>1, JobsStandStill DEF JobsInv, CurrentOpen
  <2>4. CASE sync[r].job # 0
    <3> DEFINE c == sync[r].job
    <3>1. c \in B!Cycles /\ syncJob[c] = "taken" /\ c <= cycle
      BY <2>4, HeldIsPast
    <3>2. /\ syncJob'[c] = IF B!At(r, "done") THEN "succeeded" ELSE B!AfterFailure(c)
          /\ \A d \in B!Cycles \ {c} : syncJob'[d] = syncJob[d]
      BY <1>14, <1>b, <2>4, <3>1 DEF B!Settle
    <3>3. B!At(r, "done") => c < cycle
      BY <2>4 DEF JobsInv, JobHeld, B!At
    <3>4. \A q \in Syncs \ {r} : sync[q].job # c
      BY <2>4 DEF JobsInv, HeldAlone
    <3>5. ASSUME NEW q \in Syncs \ {r} PROVE JobHeld(q)'
      <4>1. sync[q].job # 0 => sync[q].job \in B!Cycles \ {c}
        BY <3>4, HeldIsPast
      <4> QED
        BY <2>1, <2>2, <3>2, <4>1 DEF JobsInv, JobHeld, OtherSyncsStand
    <3>6. JobHeld(r)' /\ HeldAlone'
      BY <2>1 DEF JobsInv, JobHeld, HeldAlone, OtherSyncsStand
    <3>7. NoJobAhead'
      BY <1>b, <2>2, <3>1, <3>2 DEF JobsInv, NoJobAhead
    <3>8. syncJob'[cycle] # "succeeded" \/ syncJob'[cycle] = syncJob[cycle]
      BY <1>b, <3>1, <3>2, <3>3 DEF B!AfterFailure
    <3>9. CurrentOpen'
      BY <2>2, <3>8 DEF JobsInv, CurrentOpen
    <3> QED
      BY <1>0, <3>5, <3>6, <3>7, <3>9 DEF JobsInv
  <2> QED BY <2>3, <2>4
<1>15. CASE UNCHANGED B!vars
  <2>1. UNCHANGED <<account, cycle, syncListed, syncJob, sync>>
    BY <1>15 DEF B!vars, B!schedule, B!jobs
  <2> QED
    BY <1>0, <2>1 DEF JobsInv, JobHeld, HeldAlone, NoJobAhead, CurrentOpen
<1> QED
  BY <1>1, <1>2, <1>3, <1>4, <1>5, <1>6, <1>7, <1>8, <1>9, <1>10, <1>11, <1>12, <1>13,
     <1>14, <1>15 DEF B!Next

\* What will write the status of an account that is "syncing": a run in the
\* middle of it, or a job that is not done with it.
InHand(r) == sync[r].at \in {"fetch", "store", "fail", "checked"}

\* A job that will, or that an administrator can, see to the account.
Owing(c) ==
    /\ syncJob[c] \in {"waiting", "taken", "dead"}
    /\ \A r \in Syncs : sync[r].at = "done" => sync[r].job # c

\* Somebody will write the status of the account, or a request left it so.
Answered == abandoned = TRUE \/ (\E r \in Syncs : InHand(r)) \/ \E c \in B!Cycles : Owing(c)

\* An account marked syncing is answered.
SyncingIsAnswered == account.enabled = TRUE /\ account.status = "syncing" => Answered

\* The inductive invariant of an account's service.
ServiceInv == JobsInv /\ SyncingIsAnswered

\* An account is still answered when another synchronisation goes on.
LEMMA StillAnswered ==
    ASSUME Answered, NEW r \in Syncs, ~InHand(r), OtherSyncsStand(r), sync'[r].at # "done",
           UNCHANGED abandoned,
           \A c \in B!Cycles : syncJob[c] \in {"waiting", "taken", "dead"} =>
                              syncJob'[c] \in {"waiting", "taken", "dead"}
    PROVE  Answered'
<1>1. CASE abandoned = TRUE
  BY <1>1 DEF Answered
<1>2. ASSUME NEW q \in Syncs, InHand(q) PROVE Answered'
  <2>1. q # r
    BY <1>2
  <2>2. InHand(q)'
    BY <1>2, <2>1 DEF InHand, OtherSyncsStand
  <2> QED BY <2>2 DEF Answered
<1>3. ASSUME NEW c \in B!Cycles, Owing(c) PROVE Answered'
  <2>1. Owing(c)'
    BY <1>3 DEF Owing, OtherSyncsStand
  <2> QED BY <2>1 DEF Answered
<1> QED BY <1>1, <1>2, <1>3 DEF Answered

\* Every step leaves an account that is marked syncing answered.
LEMMA AnsweredStep == MailboxAssumed /\ ServiceInv /\ [B!Next]_B!vars => SyncingIsAnswered'
<1> SUFFICES ASSUME MailboxAssumed, ServiceInv, [B!Next]_B!vars,
                    account'.enabled = TRUE, account'.status = "syncing"
             PROVE  Answered'
  BY DEF SyncingIsAnswered
<1>0. /\ JobsInv /\ MailboxTyped /\ sync \in [Syncs -> SyncRecords] /\ syncJob \in [B!Cycles -> JobPhases]
      /\ account \in Accounts /\ abandoned \in BOOLEAN
  BY DEF ServiceInv, JobsInv, RoomInv, MailboxTyped
<1>a. ASSUME UNCHANGED account PROVE Answered
  BY <1>a DEF ServiceInv, SyncingIsAnswered
<1>1. ASSUME B!Arrive \/ B!ComeDue \/ B!ListSyncTargets PROVE Answered'
  <2>1. UNCHANGED <<account, sync, syncJob, abandoned>>
    BY <1>1 DEF B!Arrive, B!ComeDue, B!ListSyncTargets, B!jobs
  <2> QED
    BY <1>a, <2>1 DEF Answered, InHand, Owing
<1>2. ASSUME B!Delete \/ B!Disable \/ \E on \in BOOLEAN : B!Upsert(on) PROVE Answered'
  <2>1. CASE B!Delete
    BY <2>1 DEF B!Delete, B!NoAccount
  <2>2. CASE B!Disable
    BY <1>0, <2>2 DEF B!Disable, Accounts, B!Exists
  <2>3. CASE \E on \in BOOLEAN : B!Upsert(on)
    BY <1>0, <2>3 DEF B!Upsert, Accounts
  <2> QED BY <1>2, <2>1, <2>2, <2>3
<1>3. ASSUME B!ScheduleDueJobs \/ \E c \in B!Cycles : B!Lapse(c) \/ B!Replay(c) PROVE Answered'
  <2>1. UNCHANGED <<account, sync, abandoned>>
    BY <1>3 DEF B!ScheduleDueJobs, B!Lapse, B!Replay
  <2>2. \A c \in B!Cycles : syncJob[c] \in {"waiting", "taken", "dead"} =>
                              syncJob'[c] \in {"waiting", "taken", "dead"}
    BY <1>0, <1>3 DEF B!ScheduleDueJobs, B!Lapse, B!Replay, B!AfterFailure
  <2> QED
    BY <1>a, <2>1, <2>2 DEF Answered, InHand, Owing
<1>4. ASSUME NEW r \in Syncs, (\E c \in B!Cycles : B!Take(r,
             c)) \/ B!RunNow(r) \/ B!BeginCheck(r)
      PROVE  Answered'
  <2>1. PICK step \in {"load", "check"}, d \in 0..SyncCycles :
            sync' = [sync EXCEPT ![r] = B!Begun(step, d)]
    BY <1>4 DEF B!Take, B!RunNow, B!BeginCheck, B!Cycles, MailboxAssumed
  <2>2. step \in SyncPlaces
    BY DEF SyncPlaces
  <2>3. OtherSyncsStand(r) /\ sync'[r].at = step
    BY <1>0, <2>1, <2>2, Began
  <2>4. UNCHANGED <<account, abandoned>> /\ sync[r].at = "idle"
    BY <1>4 DEF B!Take, B!RunNow, B!BeginCheck, B!At
  <2>5. \A c \in B!Cycles : syncJob[c] \in {"waiting", "taken", "dead"} =>
                              syncJob'[c] \in {"waiting", "taken", "dead"}
    BY <1>0, <1>4 DEF B!Take, B!RunNow, B!BeginCheck, B!jobs
  <2>6. ~InHand(r) /\ sync'[r].at # "done"
    BY <2>3, <2>4 DEF InHand
  <2> QED
    BY <1>a, <2>3, <2>4, <2>5, <2>6, StillAnswered
<1>5. ASSUME NEW r \in Syncs, B!LoadCredentials(r) PROVE Answered'
  <2>1. OtherSyncsStand(r) /\ sync'[r].at \in {"failed", "fail", "mark"}
    BY <1>0, <1>5, LoadDoes
  <2>2. UNCHANGED <<account, abandoned, syncJob>> /\ sync[r].at = "load"
    BY <1>5 DEF B!LoadCredentials, B!At, B!jobs
  <2>3. ~InHand(r) /\ sync'[r].at # "done"
    BY <2>1, <2>2 DEF InHand
  <2> QED
    BY <1>a, <2>1, <2>2, <2>3, StillAnswered
<1>6. ASSUME NEW r \in Syncs, B!MarkSyncing(r) \/ B!MarkChecking(r) PROVE Answered'
  <2>1. B!WriteStatus("syncing")
    BY <1>6 DEF B!MarkSyncing, B!MarkChecking
  <2>2. B!Exists
    BY <1>0, <2>1, StatusWritten
  <2>3. PICK step \in {"fetch", "checked"} : B!GoTo(r, step)
    BY <1>6, <2>2 DEF B!MarkSyncing, B!MarkChecking
  <2>4. sync'[r].at = step
    BY <1>0, <2>3, StepTaken DEF SyncPlaces
  <2> QED
    BY <2>4 DEF Answered, InHand
<1>7. ASSUME NEW r \in Syncs,
             B!Fetch(r) \/ B!FetchFails(r) \/ B!RecordInbound(r) \/ B!RecordFails(r)
      PROVE  Answered'
  <2>1. CASE B!Fetch(r) \/ B!RecordInbound(r)
    BY <1>0, <2>1, FetchDoes, RecordDoes DEF Answered, InHand
  <2>2. CASE B!FetchFails(r) \/ B!RecordFails(r)
    BY <1>0, <2>2, StepTaken DEF B!FetchFails, B!RecordFails, SyncPlaces, Answered, InHand
  <2> QED BY <1>7, <2>1, <2>2
<1>8. ASSUME NEW r \in Syncs, \/ \E heard \in BOOLEAN : B!Finish(r, heard)
                              \/ B!updateFailure(r)
                              \/ \E ready \in BOOLEAN : B!FinishCheck(r, ready)
      PROVE  FALSE
  <2>1. CASE \E heard \in BOOLEAN : B!Finish(r, heard)
    BY <1>0, <2>1, FinishDoes
  <2>2. CASE B!updateFailure(r) \/ \E ready \in BOOLEAN : B!FinishCheck(r, ready)
    <3>1. PICK s \in {"ready", "error"} : B!WriteStatus(s)
      BY <2>2 DEF B!updateFailure, B!FinishCheck
    <3> QED BY <1>0, <3>1, StatusWritten
  <2> QED BY <1>8, <2>1, <2>2
<1>9. ASSUME NEW r \in Syncs, B!StatementFails(r) \/ B!Stop(r) PROVE Answered'
  <2>1. OtherSyncsStand(r) /\ sync'[r].at \in {"idle", "failed"}
    <3>1. CASE B!StatementFails(r)
      BY <1>0, <3>1, StepTaken DEF B!StatementFails, SyncPlaces
    <3>2. CASE B!Stop(r)
      BY <1>0, <3>2, Rested DEF B!Stop
    <3> QED BY <1>9, <3>1, <3>2
  <2>2. UNCHANGED <<account, syncJob>> /\ B!LeavesBehind(r)
    BY <1>9 DEF B!StatementFails, B!Stop, B!jobs
  <2>3. CASE abandoned = TRUE
    BY <2>2, <2>3 DEF B!LeavesBehind, Answered
  <2>4. CASE \E q \in Syncs : q # r /\ InHand(q)
    BY <2>1, <2>4 DEF OtherSyncsStand, InHand, Answered
  <2>5. CASE InHand(r)
    <3>1. CASE sync[r].job = 0
      BY <2>2, <2>5, <3>1 DEF B!LeavesBehind, InHand, Answered
    <3>2. CASE sync[r].job # 0
      <4>1. PICK c \in B!Cycles : c = sync[r].job /\ syncJob[c] = "taken"
        BY <1>0, <3>2, HeldIsPast
      <4>2. \A q \in Syncs \ {r} : sync[q].job # c
        BY <1>0, <3>2, <4>1 DEF JobsInv, HeldAlone
      <4>3. Owing(c)'
        BY <2>1, <2>2, <4>1, <4>2 DEF Owing, OtherSyncsStand
      <4> QED BY <4>1, <4>3 DEF Answered
    <3> QED BY <3>1, <3>2
  <2>6. CASE \E c \in B!Cycles : Owing(c)
    BY <2>1, <2>2, <2>6 DEF Owing, OtherSyncsStand, Answered
  <2> QED BY <1>a, <2>2, <2>3, <2>4, <2>5, <2>6 DEF Answered
<1>10. ASSUME NEW r \in Syncs, B!Settle(r) PROVE Answered'
  <2>1. OtherSyncsStand(r) /\ sync'[r].at = "idle"
    BY <1>0, <1>10, Rested DEF B!Settle
  <2>2. UNCHANGED <<account, abandoned>> /\ sync[r].at \in {"done", "failed"}
    BY <1>10 DEF B!Settle
  <2>3. CASE abandoned = TRUE \/ \E q \in Syncs : InHand(q)
    BY <2>1, <2>2, <2>3 DEF Answered, InHand, OtherSyncsStand
  <2>4. ASSUME NEW c \in B!Cycles, Owing(c) PROVE Answered'
    <3>1. syncJob'[c] \in {"waiting", "taken", "dead"}
      BY <1>0, <1>10, <2>2, <2>4 DEF B!Settle, Owing, B!AfterFailure, B!At
    <3>2. Owing(c)'
      BY <2>1, <2>4, <3>1 DEF Owing, OtherSyncsStand
    <3> QED BY <3>2 DEF Answered
  <2> QED BY <1>a, <2>2, <2>3, <2>4 DEF Answered
<1>11. CASE UNCHANGED B!vars
  BY <1>11, <1>a DEF B!vars, B!jobs, Answered, InHand, Owing
<1> QED
  BY <1>1, <1>2, <1>3, <1>4, <1>5, <1>6, <1>7, <1>8, <1>9, <1>10, <1>11 DEF B!Next

\* A new account waits to be found.
LEMMA ServiceInit == MailboxAssumed /\ B!Init => ServiceInv
<1> SUFFICES ASSUME MailboxAssumed, B!Init PROVE ServiceInv
  OBVIOUS
<1>1. MailboxTyped
  BY CursorInit DEF CursorInv
<1>2. \A r \in Syncs : sync[r].at = "idle" /\ sync[r].job = 0
  BY DEF B!Init, B!AtRest, B!Begun
<1>3. /\ cycle = 1 /\ syncListed = 0 /\ account.status = "pending"
      /\ \A c \in B!Cycles : syncJob[c] = "none"
  BY DEF B!Init
<1>4. RoomInv
  <2>1. Underway = {}
    BY <1>2 DEF Underway
  <2>2. Cardinality(Underway) = 0
    BY <2>1, FS_EmptySet
  <2> QED BY <1>1, <1>3, <2>2 DEF RoomInv, MailboxAssumed
<1>5. JobsInv
  BY <1>2, <1>3, <1>4 DEF JobsInv, JobHeld, HeldAlone, NoJobAhead, CurrentOpen, B!Cycles,
     MailboxAssumed
<1> QED BY <1>3, <1>5 DEF ServiceInv, SyncingIsAnswered

\* Every step keeps the invariant of the service.
LEMMA ServiceStep == MailboxAssumed /\ ServiceInv /\ [B!Next]_B!vars => ServiceInv'
BY JobsStep, AnsweredStep DEF ServiceInv

\* Who is found, has a job or is answered is served.
LEMMA ServedWhenDue == MailboxAssumed /\ ServiceInv => B!DueIsServed
<1> SUFFICES ASSUME MailboxAssumed, ServiceInv, account.enabled
             PROVE  \/ account.status \in B!ListedStatuses /\ syncJob[cycle] = "none"
                    \/ \E c \in B!Cycles : syncJob[c] \in {"waiting", "taken", "dead"}
                    \/ B!Active # {}
                    \/ abandoned
  BY Zenon DEF B!DueIsServed
<1>0. account.enabled = TRUE /\ (abandoned = TRUE => abandoned)
  BY DEF ServiceInv, JobsInv, RoomInv, MailboxTyped, Accounts
<1>1. CASE account.status = "syncing"
  BY <1>0, <1>1 DEF ServiceInv, SyncingIsAnswered, Answered, Owing, InHand, B!Active
<1>2. CASE account.status # "syncing"
  <2>1. account.status \in B!ListedStatuses /\ syncJob[cycle] # "succeeded"
    BY <1>0, <1>2 DEF ServiceInv, JobsInv, CurrentOpen, B!ListedStatuses
  <2>2. cycle \in B!Cycles /\ syncJob \in [B!Cycles -> JobPhases]
    <3>1. Cardinality(Underway) \in Nat
      BY UnderwayFinite
    <3> QED
      BY <3>1 DEF ServiceInv, JobsInv, RoomInv, MailboxTyped, B!Cycles, MailboxAssumed
  <2> QED BY <2>1, <2>2 DEF JobPhases
<1> QED BY <1>1, <1>2

\* Every message up to the cursor is stored, was older than the limit when the
\* cursor passed it, or is too large to be read; and an account that is due is
\* found, has a job that waits, is taken or is dead, or a synchronisation is at it.
THEOREM DueAccountsAreServed == ASSUME MailboxAssumed PROVE B!Spec => [](B!CursorCovers /\ B!DueIsServed)
<1>1. CursorInv => B!CursorCovers
  BY DEF CursorInv
<1> QED
  BY <1>1, CursorInit, CursorStep, ServiceInit, ServiceStep, ServedWhenDue, PTL DEF B!Spec

-----------------------------------------------------------------------------
(* The rate limiter: RateLimits.                                           *)

\* The names of its variables.
now == v1
count == v2
expires == v3
before == v4
granted == v5
holder == v6
asked == v7
left == v8
stamp == v9
denied == v10
USE DEF now, count, expires, before, granted, holder, asked, left, stamp, denied

\* What is taken of the constants: budgets and windows are numbers.
LimitsAssumed == BudgetOf \in [Buckets -> Nat] /\ Window \in Nat /\ Nobody \notin Callers

\* The buckets whose unit a caller has consumed.
Consumed(c) == asked[c] \ left[c]

\* A row is held by the caller that consumed it, until it is finished.
HolderConsumed == \A b \in Buckets, c \in Callers : L!Holds(c, b) <=> b \in Consumed(c)

\* What a held row would be after a rollback is exact.
Exact(n, g, b) == g = L!Min(n, BudgetOf[b]) /\ n <= BudgetOf[b] + 1

\* What a held row is: the unit just consumed is not yet granted, or it
\* was the mark of a rejection.
RowInHand ==
    \A b \in Buckets : holder[b] # Nobody =>
        /\ Exact(before[b].count, before[b].granted, b)
        /\ \/ count[b] <= BudgetOf[b] /\ granted[b] + 1 = count[b]
           \/ count[b] = BudgetOf[b] + 1 /\ granted[b] = BudgetOf[b]

\* A caller is denied by one of the rows it holds.
DeniedByARow ==
    \A c \in Callers : denied[c] <=> \E b \in Consumed(c) : count[b] > BudgetOf[b]

\* The types of the rows and of the calls under way.
LimitsTyped ==
    /\ count \in [Buckets -> Nat] /\ expires \in [Buckets -> Nat]
    /\ granted \in [Buckets -> Nat]
    /\ before \in [Buckets -> L!Row]
    /\ holder \in [Buckets -> Callers \cup {Nobody}]
    /\ asked \in [Callers -> SUBSET Buckets]
    /\ left \in [Callers -> SUBSET Buckets]
    /\ \A c \in Callers : left[c] \subseteq asked[c]
    /\ stamp \in [Callers -> Nat] /\ now \in Nat
    /\ denied \in [Callers -> BOOLEAN]

\* The inductive invariant: between two calls the rows are exact, and a row in
\* hand would be exact again after either end of the call that holds it.
LimitsInv == LimitsTyped /\ L!BudgetsExact /\ HolderConsumed /\ RowInHand /\ DeniedByARow

\* No row was counted yet.
LEMMA LimitsInit == LimitsAssumed /\ L!Init => LimitsInv
<1> SUFFICES ASSUME LimitsAssumed, L!Init PROVE LimitsInv
  OBVIOUS
<1> USE DEF LimitsAssumed, L!Init
<1>1. LimitsTyped
  BY DEF LimitsTyped, L!Row
<1>2. L!BudgetsExact /\ HolderConsumed /\ RowInHand /\ DeniedByARow
  BY DEF L!BudgetsExact, HolderConsumed, RowInHand, DeniedByARow, Consumed, L!Holds, L!Min
<1> QED
  BY <1>1, <1>2 DEF LimitsInv

\* A call that begins holds nothing yet.
LEMMA LimitsBegin ==
    ASSUME LimitsAssumed, LimitsInv, NEW c \in Callers, NEW S \in SUBSET Buckets, L!Begin(c, S)
    PROVE  LimitsInv'
BY DEF LimitsAssumed, LimitsInv, LimitsTyped, L!BudgetsExact, HolderConsumed, RowInHand,
   DeniedByARow,
   Consumed, L!Holds, L!Begin, L!bucketVars, Exact

\* A call that is sent keeps what it saw of the clock.
LEMMA LimitsIssue ==
    ASSUME LimitsAssumed, LimitsInv, NEW c \in Callers, L!Issue(c)
    PROVE  LimitsInv'
BY DEF LimitsAssumed, LimitsInv, LimitsTyped, L!BudgetsExact, HolderConsumed, RowInHand,
   DeniedByARow,
   Consumed, L!Holds, L!Issue, L!bucketVars, Exact

\* A unit is consumed from a row that nobody holds, and the row is held.
LEMMA LimitsConsume ==
    ASSUME LimitsAssumed, LimitsInv, NEW c \in Callers, L!Consume(c)
    PROVE  LimitsInv'
<1> PICK b \in L!NextBudgets(c) : L!Consume(c)!(b)
  BY DEF L!Consume
<1> DEFINE over == expires[b] <= stamp[c]
           counted == IF over THEN 1 ELSE L!Min(count[b] + 1, BudgetOf[b] + 1)
<1>1. /\ b \in Buckets /\ b \in left[c] /\ b \in asked[c]
      /\ counted \in Nat /\ stamp[c] \in Nat /\ count[b] \in Nat /\ BudgetOf[b] \in Nat
  BY DEF L!NextBudgets, LimitsInv, LimitsTyped, LimitsAssumed, L!Min
<1>2. Exact(count[b], granted[b], b)
  BY <1>1 DEF LimitsInv, L!BudgetsExact, Exact
<1>3. /\ holder' = [holder EXCEPT ![b] = c] /\ holder[b] = Nobody
      /\ before' = [before EXCEPT ![b] =
            [count |-> count[b], expires |-> expires[b], granted |-> granted[b]]]
      /\ count' = [count EXCEPT ![b] = counted]
      /\ expires' = [expires EXCEPT ![b] = IF over THEN stamp[c] + Window ELSE @]
      /\ granted' = [granted EXCEPT ![b] = IF over THEN 0 ELSE @]
      /\ denied' = [denied EXCEPT ![c] = @ \/ ~(counted <= BudgetOf[b])]
      /\ left' = [left EXCEPT ![c] = @ \ {b}]
      /\ stamp' = [stamp EXCEPT ![c] = 0]
      /\ UNCHANGED <<now, asked>>
  OBVIOUS
<1>4. LimitsTyped'
  BY <1>1, <1>3 DEF LimitsInv, LimitsTyped, L!Row, LimitsAssumed
<1>5. Consumed(c)' = Consumed(c) \cup {b} /\ \A d \in Callers \ {c} : Consumed(d)' = Consumed(d)
  BY <1>1, <1>3 DEF LimitsInv, LimitsTyped, Consumed
<1>6. HolderConsumed'
  BY <1>1, <1>3, <1>5 DEF LimitsInv, LimitsTyped, LimitsAssumed, HolderConsumed, L!Holds
<1>7. \/ counted <= BudgetOf[b] /\ granted'[b] + 1 = counted
      \/ counted = BudgetOf[b] + 1 /\ granted'[b] = BudgetOf[b]
  <2>0. granted'[b] = IF over THEN 0 ELSE granted[b]
    BY <1>1, <1>3 DEF LimitsInv, LimitsTyped
  <2>1. CASE over
    BY <2>0, <2>1, <1>1
  <2>2. CASE ~over
    BY <2>0, <2>2, <1>1, <1>2 DEF Exact, L!Min
  <2> QED BY <2>1, <2>2
<1>8. RowInHand'
  <2> SUFFICES ASSUME NEW a \in Buckets, holder'[a] # Nobody
               PROVE  /\ Exact(before'[a].count, before'[a].granted, a)
                      /\ \/ count'[a] <= BudgetOf[a] /\ granted'[a] + 1 = count'[a]
                         \/ count'[a] = BudgetOf[a] + 1 /\ granted'[a] = BudgetOf[a]
    BY DEF RowInHand, Exact
  <2>1. CASE a = b
    BY <2>1, <1>1, <1>2, <1>3, <1>7 DEF LimitsInv, LimitsTyped
  <2>2. CASE a # b
    BY <2>2, <1>3 DEF LimitsInv, LimitsTyped, RowInHand
  <2> QED BY <2>1, <2>2
<1>9. L!BudgetsExact'
  BY <1>1, <1>3 DEF LimitsInv, LimitsTyped, L!BudgetsExact, LimitsAssumed
<1>10. DeniedByARow'
  <2>1. \A d \in Callers : b \notin Consumed(d)
    BY <1>1, <1>3 DEF LimitsInv, HolderConsumed, L!Holds, LimitsAssumed
  <2>2. \A d \in Callers \ {c} : denied'[d] <=> \E a \in Consumed(d)' : count'[a] > BudgetOf[a]
    <3> SUFFICES ASSUME NEW d \in Callers \ {c}
                 PROVE  denied'[d] <=> \E a \in Consumed(d)' : count'[a] > BudgetOf[a]
      OBVIOUS
    <3>1. denied'[d] = denied[d] /\ Consumed(d)' = Consumed(d) /\ Consumed(d) \subseteq Buckets
      BY <1>3, <1>5 DEF LimitsInv, LimitsTyped, Consumed
    <3>2. \A a \in Consumed(d) : count'[a] = count[a]
      BY <2>1, <3>1, <1>3 DEF LimitsInv, LimitsTyped
    <3> QED
      BY <3>1, <3>2 DEF LimitsInv, DeniedByARow
  <2>3. denied'[c] <=> (denied[c] \/ counted > BudgetOf[b])
    <3>1. denied'[c] = (denied[c] \/ ~(counted <= BudgetOf[b]))
      BY <1>3, Zenon DEF LimitsInv, LimitsTyped
    <3>2. ~(counted <= BudgetOf[b]) <=> counted > BudgetOf[b]
      <4> HIDE DEF counted
      <4> QED
        BY <1>1 DEF LimitsAssumed
    <3> QED
      BY <3>1, <3>2, Zenon
  <2>4. (\E a \in Consumed(c)' : count'[a] > BudgetOf[a])
          <=> ((\E a \in Consumed(c) : count[a] > BudgetOf[a]) \/ counted > BudgetOf[b])
    BY <2>1, <1>1, <1>3, <1>5 DEF LimitsInv, LimitsTyped, Consumed
  <2> QED
    BY <2>2, <2>3, <2>4 DEF LimitsInv, DeniedByARow
<1> QED
  BY <1>4, <1>6, <1>8, <1>9, <1>10 DEF LimitsInv

\* A call that is denied or lost gives its rows back as they were, but for the
\* mark of a rejection.
LEMMA LimitsUndo ==
    ASSUME LimitsAssumed, LimitsInv, NEW c \in Callers, L!Undo(c)
    PROVE  LimitsInv'
<1> USE DEF LimitsAssumed, L!Undo, L!Release, L!Forget
<1>1. LimitsTyped'
  BY DEF LimitsInv, LimitsTyped, L!Row, L!Holds
<1>2. Consumed(c)' = {} /\ \A d \in Callers \ {c} : Consumed(d)' = Consumed(d)
  BY DEF LimitsInv, LimitsTyped, Consumed
<1>3. HolderConsumed'
  BY <1>2 DEF LimitsInv, LimitsTyped, HolderConsumed, L!Holds
<1>4. L!BudgetsExact'
  <2> SUFFICES ASSUME NEW b \in Buckets, holder'[b] = Nobody
               PROVE  granted'[b] = L!Min(count'[b], BudgetOf[b]) /\ count'[b] <= BudgetOf[b] + 1
    BY DEF L!BudgetsExact
  <2>1. CASE L!Holds(c, b)
    BY <2>1 DEF LimitsInv, LimitsTyped, RowInHand, Exact, L!Holds
  <2>2. CASE ~L!Holds(c, b)
    BY <2>2 DEF LimitsInv, LimitsTyped, L!BudgetsExact, L!Holds
  <2> QED BY <2>1, <2>2
<1>5. RowInHand'
  BY DEF LimitsInv, LimitsTyped, RowInHand, Exact, L!Holds
<1>6. DeniedByARow'
  <2>1. \A d \in Callers \ {c} : \A b \in Consumed(d) : ~L!Holds(c, b)
    BY DEF LimitsInv, LimitsTyped, HolderConsumed, L!Holds, Consumed
  <2> QED
    BY <2>1, <1>2 DEF LimitsInv, LimitsTyped, DeniedByARow, Consumed
<1> QED
  BY <1>1, <1>3, <1>4, <1>5, <1>6 DEF LimitsInv

\* The rows a caller leaves as they are were counted and granted alike.
LEMMA LimitsKeep ==
    ASSUME LimitsAssumed, LimitsInv, NEW c \in Callers, L!Finished(c), L!Keep(c),
           \/ /\ ~denied[c]
              /\ granted' = [b \in Buckets |-> granted[b] + IF b \in asked[c] THEN 1 ELSE 0]
           \/ /\ denied[c] /\ UNCHANGED granted
              /\ \E b \in Buckets : asked[c] = {b}
    PROVE  LimitsInv'
<1> USE DEF LimitsAssumed, L!Keep, L!Release, L!Forget, L!Finished
<1>0. Consumed(c) = asked[c]
  <2>1. left[c] = {}
    OBVIOUS
  <2> QED
    BY <2>1 DEF Consumed
<1>1. LimitsTyped'
  <2>1. granted' \in [Buckets -> Nat]
    BY DEF LimitsInv, LimitsTyped
  <2> QED
    BY <2>1 DEF LimitsInv, LimitsTyped, L!Row, L!Holds
<1>2. Consumed(c)' = {} /\ \A d \in Callers \ {c} : Consumed(d)' = Consumed(d)
  BY DEF LimitsInv, LimitsTyped, Consumed
<1>3. HolderConsumed'
  BY <1>2 DEF LimitsInv, LimitsTyped, HolderConsumed, L!Holds
<1>4. \A b \in Buckets : L!Holds(c, b) <=> b \in asked[c]
  BY <1>0 DEF LimitsInv, HolderConsumed
<1>5. \A b \in Buckets : ~L!Holds(c, b) => granted'[b] = granted[b]
  BY <1>4 DEF LimitsInv, LimitsTyped
<1>6. \A b \in Buckets : L!Holds(c, b) => Exact(count[b], granted'[b], b)
  <2> SUFFICES ASSUME NEW b \in Buckets, L!Holds(c, b) PROVE Exact(count[b], granted'[b], b)
    OBVIOUS
  <2>1. /\ \/ count[b] <= BudgetOf[b] /\ granted[b] + 1 = count[b]
           \/ count[b] = BudgetOf[b] + 1 /\ granted[b] = BudgetOf[b]
        /\ count[b] \in Nat /\ granted[b] \in Nat /\ BudgetOf[b] \in Nat
    BY DEF LimitsInv, LimitsTyped, RowInHand, L!Holds
  <2>2. CASE ~denied[c]
    <3>1. count[b] <= BudgetOf[b]
      BY <2>1, <2>2, <1>0, <1>4 DEF LimitsInv, DeniedByARow
    <3>2. granted'[b] = granted[b] + 1
      BY <2>2, <1>4
    <3> QED BY <2>1, <3>1, <3>2 DEF Exact, L!Min
  <2>3. CASE denied[c]
    <3>1. count[b] > BudgetOf[b] /\ granted' = granted
      BY <2>3, <1>0, <1>4 DEF LimitsInv, DeniedByARow
    <3> QED BY <2>1, <3>1 DEF Exact, L!Min
  <2> QED BY <2>2, <2>3
<1>7. L!BudgetsExact'
  BY <1>5, <1>6 DEF LimitsInv, LimitsTyped, L!BudgetsExact, Exact, L!Holds
<1>8. RowInHand'
  BY <1>5 DEF LimitsInv, LimitsTyped, RowInHand, Exact, L!Holds
<1>9. DeniedByARow'
  BY <1>2 DEF LimitsInv, LimitsTyped, DeniedByARow, Consumed
<1> QED
  BY <1>1, <1>3, <1>7, <1>8, <1>9 DEF LimitsInv

\* Every step keeps the invariant.
LEMMA LimitsStep ==
    ASSUME LimitsAssumed, LimitsInv, L!Next
    PROVE  LimitsInv'
<1>1. CASE \E c \in Callers, S \in SUBSET Buckets : L!Begin(c, S)
  BY <1>1, LimitsBegin
<1>2. CASE \E c \in Callers : L!Issue(c)
  BY <1>2, LimitsIssue
<1>3. CASE \E c \in Callers : L!Consume(c)
  BY <1>3, LimitsConsume
<1>4. CASE \E c \in Callers : L!Accept(c)
  BY <1>4, LimitsKeep DEF L!Accept
<1>5. CASE \E c \in Callers : L!Deny(c)
  BY <1>5, LimitsKeep, LimitsUndo DEF L!Deny
<1>6. CASE \E c \in Callers : L!Lose(c)
  BY <1>6, LimitsUndo DEF L!Lose
<1>7. CASE \E b \in Buckets : L!CleanupExpired(b)
  BY <1>7 DEF LimitsAssumed, L!CleanupExpired, L!callVars, LimitsInv, LimitsTyped,
     L!BudgetsExact, HolderConsumed,
     RowInHand, DeniedByARow, Consumed, L!Holds, Exact, L!Min
<1>8. CASE L!Tick
  BY <1>8 DEF L!Tick, L!bucketVars, L!callVars, LimitsInv, LimitsTyped, L!BudgetsExact,
     HolderConsumed,
     RowInHand, DeniedByARow, Consumed, L!Holds, Exact
<1> QED
  BY <1>1, <1>2, <1>3, <1>4, <1>5, <1>6, <1>7, <1>8 DEF L!Next

\* Nothing is lost while nothing happens.
LEMMA LimitsStutter == LimitsInv /\ UNCHANGED L!vars => LimitsInv'
BY DEF L!vars, LimitsInv, LimitsTyped, L!BudgetsExact, HolderConsumed, RowInHand,
   DeniedByARow, Consumed, L!Holds, Exact

\* What the invariant says holds throughout.
THEOREM LimitsInvariance ==
    ASSUME LimitsAssumed
    PROVE  L!Spec => []LimitsInv
<1>1. L!Init => LimitsInv
  BY LimitsInit
<1>2. LimitsInv /\ [L!Next]_L!vars => LimitsInv'
  BY LimitsStutter, LimitsStep
<1> QED
  BY <1>1, <1>2, PTL DEF L!Spec

\* A window has admitted what it counted and no more than its limit, whatever
\* rolled over, crashed or waited in between.
THEOREM BudgetsStayExact ==
    ASSUME LimitsAssumed
    PROVE  L!Spec => []L!BudgetsExact
<1>1. LimitsInv => L!BudgetsExact
  BY DEF LimitsInv
<1> QED
  BY <1>1, LimitsInvariance, PTL

-----------------------------------------------------------------------------
(* The workspace.  A behaviour of MCWorkspace is about one of its parts:   *)
(* its steps are that part's.                                              *)

\* The constants of the workspace are as the three parts need them.
LEMMA AccessAssumed == PeopleAssumed /\ MailboxAssumed /\ LimitsAssumed
BY WorkspaceAssumption DEF PeopleAssumed, MailboxAssumed, LimitsAssumed

\* No step changes what the behaviour is about.
LEMMA AccessSubject == ASSUME [WorkspaceNext]_shared PROVE UNCHANGED about
<1>1. CASE UNCHANGED shared
  BY <1>1 DEF shared
<1>2. CASE ImportStep
  BY <1>2 DEF ImportStep, Rest18
<1>3. CASE ReportStep
  BY <1>3 DEF ReportStep, Rest
<1>4. CASE MailStep
  BY <1>4 DEF MailStep, Rest18
<1>5. CASE MemberStep
  BY <1>5 DEF MemberStep, Rest18
<1>6. CASE ApprovalStep
  BY <1>6 DEF ApprovalStep, Rest17
<1>7. CASE MailboxStep
  BY <1>7 DEF MailboxStep, Rest12
<1>8. CASE LimitStep
  BY <1>8 DEF LimitStep, Rest11
<1> QED
  BY <1>1, <1>2, <1>3, <1>4, <1>5, <1>6, <1>7, <1>8 DEF WorkspaceNext

\* While the mailbox is looked at, every step is one of MailboxSync.
LEMMA MailboxMoved == ASSUME OnMailbox, [WorkspaceNext]_shared PROVE [B!Next]_B!vars
<1>1. CASE UNCHANGED shared
  BY <1>1 DEF shared, from11, B!vars, B!schedule, B!jobs
<1>2. CASE MailboxStep
  BY <1>2 DEF MailboxStep, B!Next
<1>3. ~(ImportStep \/ ReportStep \/ MailStep \/ MemberStep \/ ApprovalStep \/ LimitStep)
  BY DEF ImportStep, ReportStep, MailStep, MemberStep, ApprovalStep, LimitStep, OnImports,
         OnReports, OnPeople, OnMembers, OnApprovals, OnMailbox, OnLimits
<1> QED
  BY <1>1, <1>2, <1>3 DEF WorkspaceNext

\* While the rate limiter is looked at, every step is one of RateLimits.
LEMMA LimitsMoved == ASSUME OnLimits, [WorkspaceNext]_shared PROVE [L!Next]_L!vars
<1>1. CASE UNCHANGED shared
  BY <1>1 DEF shared, from11, L!vars
<1>2. CASE LimitStep
  BY <1>2 DEF LimitStep, L!Next
<1>3. ~(ImportStep \/ ReportStep \/ MailStep \/ MemberStep \/ ApprovalStep \/ MailboxStep)
  BY DEF ImportStep, ReportStep, MailStep, MemberStep, ApprovalStep, MailboxStep, OnImports,
         OnReports, OnPeople, OnMembers, OnApprovals, OnMailbox, OnLimits
<1> QED
  BY <1>1, <1>2, <1>3 DEF WorkspaceNext

\* While people are looked at, every step is mail on its way or one of Members'.
LEMMA PeopleMoved ==
    ASSUME OnMembers, [WorkspaceNext]_shared
    PROVE  MailStep \/ MemberStep \/ UNCHANGED M!vars
<1>1. CASE UNCHANGED shared
  BY <1>1 DEF shared, from11, M!vars
<1>2. ~(ImportStep \/ ReportStep \/ ApprovalStep \/ MailboxStep \/ LimitStep)
  BY DEF ImportStep, ReportStep, ApprovalStep, MailboxStep, LimitStep, OnImports,
         OnReports, OnMembers, OnApprovals, OnMailbox, OnLimits
<1> QED
  BY <1>1, <1>2 DEF WorkspaceNext

\* A step of Members other than a mailer's or the provider's is as in Members.
LEMMA MemberStepIsNext == ASSUME MemberStep PROVE M!Next
BY DEF MemberStep, M!Next, PeopleRoles

\* Of mail on its way, every link that was written counts, however many.
LEMMA MailStepKeeps ==
    ASSUME PeopleInv, LinksInv, MailStep PROVE PeopleInv' /\ LinksInv'
<1>1. unreported \subseteq M!Purposes \X Users \X (Nat \ {0})
  BY DEF LinksInv, LinksTyped
<1>2. ASSUME NEW x \in unreported,
             M!Mail(x[1], x[2], x[3]) \/ M!RecordDelivery(x[1], x[2], x[3])
                \/ M!HandlerStops(x[1], x[2], x[3])
      PROVE  PeopleInv' /\ LinksInv'
  <2>1. x[1] \in M!Purposes /\ x[2] \in Users
    BY <1>1
  <2> QED
    BY <1>2, <2>1, MailPreserves, MailFollows
<1>3. ASSUME NEW p \in M!Purposes, NEW u \in Users, NEW n, M!ComesBack(p, u,
             n) \/ M!Feedback(p, u, n)
      PROVE  PeopleInv' /\ LinksInv'
  BY <1>3, MailPreserves, MailFollows
<1>4. ASSUME NEW p \in M!Purposes, NEW u \in Users, M!CoolDown(p, u)
      PROVE  PeopleInv' /\ LinksInv'
  BY <1>4, CoolDownPreserves, SessionsFollow
<1> QED
  BY <1>2, <1>3, <1>4 DEF MailStep

\* The inductive invariant of the workspace: that of the part looked at.
AccessInv ==
    /\ OnMembers => PeopleInv /\ LinksInv
    /\ OnMailbox => CursorInv /\ ServiceInv
    /\ OnLimits => LimitsInv

\* It holds at the start.
LEMMA AccessStart == ASSUME WorkspaceInit PROVE AccessInv
<1>1. ASSUME OnMembers PROVE PeopleInv /\ LinksInv
  BY <1>1, AccessAssumed, PeopleStart, LinksStart DEF WorkspaceInit, OnMembers
<1>2. ASSUME OnMailbox PROVE CursorInv /\ ServiceInv
  BY <1>2, AccessAssumed, CursorInit, ServiceInit DEF WorkspaceInit, OnMailbox
<1>3. ASSUME OnLimits PROVE LimitsInv
  BY <1>3, AccessAssumed, LimitsInit DEF WorkspaceInit, OnLimits
<1> QED
  BY <1>1, <1>2, <1>3 DEF AccessInv

\* Every step keeps it.
LEMMA AccessStep == ASSUME AccessInv, [WorkspaceNext]_shared PROVE AccessInv'
<1>1. OnMembers' = OnMembers /\ OnMailbox' = OnMailbox /\ OnLimits' = OnLimits
  BY AccessSubject DEF OnMembers, OnMailbox, OnLimits
<1>2. ASSUME OnMembers PROVE PeopleInv' /\ LinksInv'
  <2>1. PeopleInv /\ LinksInv
    BY <1>2 DEF AccessInv
  <2>2. CASE MailStep
    BY <2>1, <2>2, MailStepKeeps
  <2>3. CASE MemberStep \/ UNCHANGED M!vars
    BY <2>1, <2>3, MemberStepIsNext, PeopleStep, LinksStep
  <2> QED
    BY <1>2, <2>2, <2>3, PeopleMoved
<1>3. ASSUME OnMailbox PROVE CursorInv' /\ ServiceInv'
  BY <1>3, AccessAssumed, MailboxMoved, CursorStep, ServiceStep DEF AccessInv
<1>4. ASSUME OnLimits PROVE LimitsInv'
  BY <1>4, AccessAssumed, LimitsMoved, LimitsStep, LimitsStutter DEF AccessInv
<1> QED
  BY <1>1, <1>2, <1>3, <1>4 DEF AccessInv

\* A workspace keeps what is known of its part.
LEMMA AccessAlways == WorkspaceSpec => []AccessInv
<1>1. WorkspaceInit => AccessInv
  BY AccessStart
<1>2. AccessInv /\ [WorkspaceNext]_shared => AccessInv'
  BY AccessStep
<1> QED
  BY <1>1, <1>2, PTL DEF WorkspaceSpec

\* Whatever owners do to each other at the same time, one that is active remains.
THEOREM WorkspaceKeepsAnOwner == WorkspaceSpec => []OwnerRemains
<1>1. AccessInv => OwnerRemains
  BY DEF AccessInv, OwnerRemains, PeopleInv
<1> QED
  BY <1>1, AccessAlways, PTL

\* Nobody is signed in by a password that was replaced.
THEOREM WorkspaceCredentialsAreCurrent == WorkspaceSpec => []CredentialsCurrent
<1>1. AccessInv => CredentialsCurrent
  BY DEF AccessInv, CredentialsCurrent, PeopleInv, M!CredentialsCurrent
<1> QED
  BY <1>1, AccessAlways, PTL

\* However late a mailer or the provider reports, only the newest link works,
\* and the status shown is what became of it.
THEOREM WorkspaceLinksAreNewest == WorkspaceSpec => []NewestLinkOnly
<1>1. AccessInv => NewestLinkOnly
  BY NewestFromParts DEF AccessInv, NewestLinkOnly
<1> QED
  BY <1>1, AccessAlways, PTL

\* The cursor of a mailbox passes no message by that is not stored, but those
\* that were older than the limit when it passed and those too large to be read;
\* and an account that is due is found again.
THEOREM WorkspaceMailboxIsFollowed == WorkspaceSpec => []MailboxFollowed
<1>1. AccessInv => MailboxFollowed
  BY AccessAssumed, ServedWhenDue DEF AccessInv, MailboxFollowed, B!MailboxFollowed, CursorInv
<1> QED
  BY <1>1, AccessAlways, PTL

\* What the rate limiter granted is what its buckets count.
THEOREM WorkspaceBudgetsAreExact == WorkspaceSpec => []BudgetsExact
<1>1. AccessInv => BudgetsExact
  BY DEF AccessInv, BudgetsExact, LimitsInv
<1> QED
  BY <1>1, AccessAlways, PTL
=============================================================================
