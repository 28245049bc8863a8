----------------------------- MODULE MCOutgoing ------------------------------
(***************************************************************************)
(* Instances for TLC of what leaves a workspace: record e-mail and replies, *)
(* quotes and their signatures, and exports.  A behaviour is about one of   *)
(* them, which the initial state picks, so they take turns on one set of    *)
(* variables; what a part has no use for stays Idle.                        *)
(***************************************************************************)
EXTENDS Integers, TLC

CONSTANTS
    Idle, None,
    d1, d2,     \* deliveries
    c1, c2,     \* the requests that drive them, or the workers that build exports
    q1, q2,     \* quotes or exports
    visitor, a1,
    Deliveries, Senders, Quotes, Visitors, Admins,
    MaxRetries, MaxRows, MaxReady, MaxAttempts, MaxReplays

\* Nothing is not a quote, nor a delivery.
ASSUME OutgoingAssumption == None \notin Quotes /\ None \notin Deliveries

VARIABLES about, v1, v2, v3, v4, v5, v6, v7, v8, v9, v10, v11, v12, v13, v14

shared == <<about, v1, v2, v3, v4, v5, v6, v7, v8, v9, v10, v11, v12, v13, v14>>

Exports == Quotes
Workers == Senders

M == INSTANCE MailDeliveries WITH
        Calls <- Senders,
        NoDelivery <- None, Kinds <- BOOLEAN,
        recordMail <- v1, status <- v2, stale <- v3, messages <- v4, active <- v5,
        writer <- v6, linked <- v7, pc <- v8, task <- v9, mailbox <- v10,
        claims <- v11, retries <- v12

Q == INSTANCE QuoteDeliveries WITH
        Calls <- Senders,
        approval <- v1, age <- v2, source <- v3, status <- v4, quoteOf <- v5,
        stale <- v6, signature <- v7, converted <- v8, deal <- v9, active <- v10,
        pc <- v11, task <- v12, signing <- v13, arrived <- v14

E == INSTANCE ExportJobs WITH
        NoExport <- None, Nobody <- None, Kinds <- BOOLEAN,
        filtered <- v1, status <- v2, requester <- v3, expires <- v4, later <- v5,
        active <- v6, jobPhase <- v7, jobTries <- v8, jobOwner <- v9,
        withdrawn <- v10, pc <- v11, task <- v12, evicts <- v13, replays <- v14

OutgoingInit ==
    \/ about = "mail" /\ M!Init /\ v13 = Idle /\ v14 = Idle
    \/ about = "quotes" /\ Q!Init
    \/ about = "exports" /\ E!Init

-----------------------------------------------------------------------------
OnMail == about = "mail"
OnQuotes == about = "quotes"
OnExports == about = "exports"

Rest == UNCHANGED about
Rest13 == UNCHANGED <<about, v13, v14>>

MailStep ==
    \/ \E c \in Senders, d \in Deliveries :
        \/ OnMail /\ M!Prepare(c, d) /\ Rest13
        \/ OnMail /\ M!Replay(c, d) /\ Rest13
        \/ OnMail /\ M!Retry(c, d) /\ Rest13
    \/ \E c \in Senders :
        \/ OnMail /\ M!Claim(c) /\ Rest13
        \/ OnMail /\ M!ClaimChanged(c) /\ Rest13
        \/ OnMail /\ M!ClaimStale(c) /\ Rest13
        \/ OnMail /\ M!ClaimNothing(c) /\ Rest13
        \/ OnMail /\ M!RefuseToSend(c) /\ Rest13
        \/ OnMail /\ M!CallProvider(c) /\ Rest13
        \/ OnMail /\ M!Answer(c) /\ Rest13
        \/ OnMail /\ M!Complete(c) /\ Rest13
        \/ OnMail /\ M!CompleteTwice(c) /\ Rest13
        \/ OnMail /\ M!CompleteFails(c) /\ Rest13
        \/ OnMail /\ M!Fail(c) /\ Rest13
        \/ OnMail /\ M!FailRefused(c) /\ Rest13
        \/ OnMail /\ M!Stop(c) /\ Rest13
    \/ \E d \in Deliveries :
        \/ OnMail /\ M!Age(d) /\ Rest13
        \/ OnMail /\ M!Recover(d) /\ Rest13
        \/ OnMail /\ M!ConfirmSent(d) /\ Rest13
        \/ OnMail /\ M!MarkNotSent(d) /\ Rest13
    \/ OnMail /\ M!Deactivate /\ Rest13
    \/ OnMail /\ M!Reactivate /\ Rest13
    \/ OnMail /\ M!ChangeRole /\ Rest13
    \/ OnMail /\ M!ChangeRecord /\ Rest13

QuoteStep ==
    \/ \E q \in Quotes :
        \/ OnQuotes /\ Q!FinalizeQuote(q) /\ Rest
        \/ OnQuotes /\ Q!DecideQuoteApproval(q) /\ Rest
        \/ OnQuotes /\ Q!Expire(q) /\ Rest
        \/ \E new \in Quotes : OnQuotes /\ Q!ReissueExpiredQuote(q, new) /\ Rest
    \/ \E c \in Senders, d \in Deliveries :
        \/ \E q \in Quotes : OnQuotes /\ Q!PrepareQuoteDelivery(c, d, q) /\ Rest
        \/ OnQuotes /\ Q!ReplayQuoteDelivery(c, d) /\ Rest
        \/ OnQuotes /\ Q!CheckRetry(c, d) /\ Rest
    \/ \E c \in Senders :
        \/ OnQuotes /\ Q!ClaimQuoteDelivery(c) /\ Rest
        \/ OnQuotes /\ Q!ClaimExpired(c) /\ Rest
        \/ OnQuotes /\ Q!ClaimStale(c) /\ Rest
        \/ OnQuotes /\ Q!ClaimNothing(c) /\ Rest
        \/ OnQuotes /\ Q!Send(c) /\ Rest
        \/ OnQuotes /\ Q!CompleteQuoteDelivery(c) /\ Rest
        \/ OnQuotes /\ Q!CompleteTwice(c) /\ Rest
        \/ OnQuotes /\ Q!CompleteFails(c) /\ Rest
        \/ OnQuotes /\ Q!FailQuoteDelivery(c) /\ Rest
        \/ OnQuotes /\ Q!FailRefused(c) /\ Rest
        \/ OnQuotes /\ Q!Retry(c) /\ Rest
        \/ OnQuotes /\ Q!RetryRefused(c) /\ Rest
        \/ OnQuotes /\ Q!Stop(c) /\ Rest
    \/ \E d \in Deliveries :
        \/ OnQuotes /\ Q!Age(d) /\ Rest
        \/ OnQuotes /\ Q!Recover(d) /\ Rest
        \/ OnQuotes /\ Q!ConfirmSent(d) /\ Rest
        \/ OnQuotes /\ Q!MarkNotSent(d) /\ Rest
        \/ OnQuotes /\ Q!DeclinePublicQuote(d) /\ Rest
        \/ OnQuotes /\ Q!VoidSignatureRequest(d) /\ Rest
        \/ OnQuotes /\ Q!ConvertSignedQuoteToWon(d) /\ Rest
        \/ \E v \in Visitors : OnQuotes /\ Q!BeginSigning(v, d) /\ Rest
    \/ \E v \in Visitors :
        \/ OnQuotes /\ Q!SignPublicQuote(v) /\ Rest
        \/ OnQuotes /\ Q!SignNothing(v) /\ Rest
    \* The deal is moved, or its sender is away, but not both at once.
    \/ OnQuotes /\ v9 /\ Q!Deactivate /\ Rest
    \/ OnQuotes /\ Q!Reactivate /\ Rest
    \/ OnQuotes /\ v10 /\ Q!MoveDealStage /\ Rest

ExportStep ==
    \/ \E x \in Exports :
        \/ \E a \in Admins : OnExports /\ E!Request(x, a) /\ Rest
        \/ OnExports /\ E!ArtifactTTLPasses(x) /\ Rest
        \/ OnExports /\ E!Expire(x) /\ Rest
        \/ OnExports /\ E!GiveUp(x) /\ Rest
        \/ OnExports /\ E!Replay(x) /\ Rest
        \/ \E w \in Workers : OnExports /\ E!Take(w, x) /\ Rest
    \/ \E a \in Admins :
        \/ OnExports /\ E!Disable(a) /\ Rest
        \/ OnExports /\ E!Reactivate(a) /\ Rest
    \/ \E w \in Workers :
        \/ OnExports /\ E!Load(w) /\ Rest
        \/ OnExports /\ E!CheckActor(w) /\ Rest
        \/ OnExports /\ E!MarkProcessing(w) /\ Rest
        \/ OnExports /\ E!Build(w) /\ Rest
        \/ OnExports /\ E!Store(w) /\ Rest
        \/ OnExports /\ E!Commit(w) /\ Rest
        \/ OnExports /\ E!RecordFailure(w) /\ Rest
        \/ OnExports /\ E!CallFails(w) /\ Rest
        \/ OnExports /\ E!Settle(w) /\ Rest
        \/ OnExports /\ E!Crash(w) /\ Rest

OutgoingNext == MailStep \/ QuoteStep \/ ExportStep

OutgoingSpec == OutgoingInit /\ [][OutgoingNext]_shared

-----------------------------------------------------------------------------
TypesOK ==
    /\ OnMail => M!TypeOK
    /\ OnQuotes => Q!TypeOK
    /\ OnExports => E!TypeOK

\* MailDeliveries: recorded once, and one claim per decision to send.
DeliveredOnce == OnMail => M!DeliveredOnce

\* MailDeliveries: a late answer decides nothing.
LateAnswersDecideNothing == [][OnMail => M!KeepsSettled]_shared

\* QuoteDeliveries: a draft while unresolved, signed only when delivered, and
\* nothing left of a replaced quote.
SignatureFollowsDelivery == OnQuotes => Q!SignatureFollowsDelivery

\* QuoteDeliveries: the customer's decision is final.
DecisionsAreFinal == [][OnQuotes => Q!KeepsDecisions]_shared

\* ExportJobs: a blocking export has a job, and a job that succeeded a file.
ExportsAccounted == OnExports => E!ExportsAccounted

\* ExportJobs: what is downloadable only shrinks by expiry.
ReadyStaysUsable == [][OnExports => E!KeepsReady]_shared

Symmetry ==
    Permutations(Senders) \cup Permutations(Deliveries) \cup Permutations(Quotes)
=============================================================================
