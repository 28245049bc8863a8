-------------------------- MODULE QuoteDeliveries ----------------------------
(***************************************************************************)
(* The quotes of one deal, from finalization to the customer's signature   *)
(* (modules/deals): independent approval, delivery through the sender's    *)
(* mailbox, the public signature ceremony, reissue after expiry and the    *)
(* conversion of the deal.                                                 *)
(*                                                                         *)
(* A delivery is prepared, claimed, sent outside any transaction and       *)
(* settled, as in MailDeliveries.  When it asks for a signature it carries *)
(* a signature request, a draft until the delivery is accepted.  Two       *)
(* unique indexes hold it together: one unresolved delivery of a quote,    *)
(* and one draft, sent or signed request of a quote.                       *)
(***************************************************************************)
EXTENDS Integers, FiniteSets

CONSTANTS
    Quotes,       \* quote versions of the deal
    Deliveries,   \* rows of deal_quote_deliveries, one idempotency key each
    Calls,        \* the sender's requests that drive a delivery
    Visitors,     \* the customer's requests that are signing
    None,         \* no quote, no delivery
    MaxRows       \* bound: quotes and deliveries together

VARIABLES
    approval,     \* of each quote: "none" when the quote does not exist yet
    age,          \* "valid", "expired", and "closed" once the public link ended
    source,       \* the expired quote that a quote replaces, or None
    status,       \* of each delivery, "none" before it exists
    quoteOf,      \* the quote it delivers
    stale,        \* claimed_at is older than the stale limit
    signature,    \* status of its signature request, "none" without one
    converted,    \* the signed request was turned into the deal's outcome
    deal,         \* the deal is open
    active,       \* membership of the sender
    pc, task,     \* of each call
    signing,      \* the delivery whose link a visitor is signing, having read
                  \* the clock before expiry, or None
    arrived       \* deliveries that the provider took at least once

quoteVars == <<approval, age, source>>
rowVars == <<status, quoteOf, stale, signature, converted>>
callVars == <<pc, task>>
vars == <<approval, age, source, status, quoteOf, stale, signature, converted,
          deal, active, pc, task, signing, arrived>>

Unresolved == {"prepared", "sending", "uncertain"}
Sendable == {"free", "approved"}          \* no review needed, or reviewed
OpenSignature == {"draft", "sent", "signed"}
Decided == {"signed", "declined", "voided"}

Exists(q) == approval[q] # "none"
Replaced(q) == \E r \in Quotes : source[r] = q
Delivering(q) == \E d \in Deliveries : quoteOf[d] = q /\ status[d] \in Unresolved

\* There is room for one more quote or delivery.
Room ==
    Cardinality({q \in Quotes : Exists(q)})
      + Cardinality({d \in Deliveries : status[d] # "none"}) < MaxRows

TypeOK ==
    /\ approval \in [Quotes -> {"none", "free", "pending", "approved", "rejected"}]
    /\ age \in [Quotes -> {"valid", "expired", "closed"}]
    /\ source \in [Quotes -> Quotes \cup {None}]
    /\ status \in [Deliveries -> Unresolved \cup {"none", "sent", "failed"}]
    /\ quoteOf \in [Deliveries -> Quotes \cup {None}]
    /\ \A d \in Deliveries : status[d] # "none" => quoteOf[d] \in Quotes
    /\ stale \in [Deliveries -> BOOLEAN]
    /\ signature \in [Deliveries -> Decided \cup {"none", "draft", "sent"}]
    /\ converted \in [Deliveries -> BOOLEAN]
    /\ deal \in BOOLEAN /\ active \in BOOLEAN
    /\ pc \in [Calls -> {"idle", "claim", "send", "accepted", "rejected",
                         "unknown", "retry"}]
    /\ task \in [Calls -> Deliveries \cup {None}]
    /\ \A c \in Calls : pc[c] # "idle" => task[c] \in Deliveries
    /\ signing \in [Visitors -> Deliveries \cup {None}]
    /\ arrived \subseteq Deliveries

Init ==
    /\ approval = [q \in Quotes |-> "none"]
    /\ age = [q \in Quotes |-> "valid"]
    /\ source = [q \in Quotes |-> None]
    /\ status = [d \in Deliveries |-> "none"]
    /\ quoteOf = [d \in Deliveries |-> None]
    /\ stale = [d \in Deliveries |-> FALSE]
    /\ signature = [d \in Deliveries |-> "none"]
    /\ converted = [d \in Deliveries |-> FALSE]
    /\ deal = TRUE /\ active = TRUE
    /\ pc = [c \in Calls |-> "idle"]
    /\ task = [c \in Calls |-> None]
    /\ signing = [v \in Visitors |-> None]
    /\ arrived = {}

-----------------------------------------------------------------------------
(* Quotes: finalization, review, expiry, reissue.                          *)

\* Review is asked for by the writer, the template or the workspace.
FinalizeQuote(q) ==
    /\ ~Exists(q) /\ Room
    /\ deal
    /\ \E review \in {"free", "pending"} : approval' = [approval EXCEPT ![q] = review]
    /\ UNCHANGED <<age, source, rowVars, deal, active, callVars, signing, arrived>>

\* By an owner or administrator who neither asked for it nor made the quote.
DecideQuoteApproval(q) ==
    /\ approval[q] = "pending"
    /\ \E decision \in {"approved", "rejected"} :
        approval' = [approval EXCEPT ![q] = decision]
    /\ UNCHANGED <<age, source, rowVars, deal, active, callVars, signing, arrived>>

\* The last valid day passes; thirty days later the link ends.
Expire(q) ==
    /\ Exists(q)
    /\ age[q] # "closed"
    /\ age' = [age EXCEPT ![q] = IF @ = "valid" THEN "expired" ELSE "closed"]
    /\ UNCHANGED <<approval, source, rowVars, deal, active, callVars, signing, arrived>>

ReissueExpiredQuote(q, new) ==
    /\ Exists(q) /\ ~Exists(new) /\ Room
    /\ deal
    /\ age[q] # "valid"
    /\ ~Replaced(q)
    /\ ~Delivering(q)
    /\ \A d \in Deliveries : quoteOf[d] = q => signature[d] # "signed"
    /\ source' = [source EXCEPT ![new] = q]
    /\ \E review \in {"free", "pending"} :
        /\ approval[q] # "free" => review = "pending"
        /\ approval' = [approval EXCEPT ![new] = review]
    /\ signature' = [d \in Deliveries |->
                       IF quoteOf[d] = q /\ signature[d] \in {"draft", "sent"}
                       THEN "voided" ELSE signature[d]]
    /\ UNCHANGED <<age, status, quoteOf, stale, converted, deal, active,
                   callVars, signing, arrived>>

-----------------------------------------------------------------------------
(* The sender's request.                                                   *)

Leave(c) ==
    /\ pc' = [pc EXCEPT ![c] = "idle"]
    /\ task' = [task EXCEPT ![c] = None]

Goto(c, place) ==
    /\ pc' = [pc EXCEPT ![c] = place]
    /\ UNCHANGED task

Take(c, d, place) ==
    /\ pc' = [pc EXCEPT ![c] = place]
    /\ task' = [task EXCEPT ![c] = d]

\* A delivery that failed before acceptance takes its draft request with it.
VoidDraft(d) ==
    signature' = [signature EXCEPT ![d] = IF @ = "draft" THEN "voided" ELSE @]

PrepareQuoteDelivery(c, d, q) ==
    /\ pc[c] = "idle"
    /\ status[d] = "none" /\ Room
    /\ active
    /\ approval[q] \in Sendable
    /\ age[q] = "valid"
    /\ ~Delivering(q)
    /\ \E wanted \in {"none", "draft"} :
        /\ wanted = "draft" =>
             \A other \in Deliveries :
                quoteOf[other] = q => signature[other] \notin OpenSignature
        /\ signature' = [signature EXCEPT ![d] = wanted]
    /\ status' = [status EXCEPT ![d] = "prepared"]
    /\ quoteOf' = [quoteOf EXCEPT ![d] = q]
    /\ Take(c, d, "claim")
    /\ UNCHANGED <<quoteVars, stale, converted, deal, active, signing, arrived>>

ReplayQuoteDelivery(c, d) ==
    /\ pc[c] = "idle"
    /\ status[d] \in {"prepared", "sending"}
    /\ active
    /\ Take(c, d, "claim")
    /\ UNCHANGED <<quoteVars, rowVars, deal, active, signing, arrived>>

ClaimQuoteDelivery(c) ==
    LET d == task[c] IN
    /\ pc[c] = "claim"
    /\ active
    /\ status[d] = "prepared"
    /\ approval[quoteOf[d]] \in Sendable
    /\ age[quoteOf[d]] = "valid"
    /\ status' = [status EXCEPT ![d] = "sending"]
    /\ stale' = [stale EXCEPT ![d] = FALSE]
    /\ Goto(c, "send")
    /\ UNCHANGED <<quoteVars, quoteOf, signature, converted, deal, active, signing,
                   arrived>>

ClaimExpired(c) ==
    LET d == task[c] IN
    /\ pc[c] = "claim"
    /\ active
    /\ status[d] = "prepared"
    /\ approval[quoteOf[d]] \in Sendable
    /\ age[quoteOf[d]] # "valid"
    /\ status' = [status EXCEPT ![d] = "failed"]
    /\ VoidDraft(d)
    /\ Leave(c)
    /\ UNCHANGED <<quoteVars, quoteOf, stale, converted, deal, active, signing,
                   arrived>>

ClaimStale(c) ==
    LET d == task[c] IN
    /\ pc[c] = "claim"
    /\ active
    /\ status[d] = "sending" /\ stale[d]
    /\ status' = [status EXCEPT ![d] = "uncertain"]
    /\ stale' = [stale EXCEPT ![d] = FALSE]
    /\ Leave(c)
    /\ UNCHANGED <<quoteVars, quoteOf, signature, converted, deal, active, signing,
                   arrived>>

ClaimNothing(c) ==
    LET d == task[c] IN
    /\ pc[c] = "claim"
    /\ \/ ~active
       \/ status[d] \notin {"prepared", "sending"}
       \/ status[d] = "sending" /\ ~stale[d]
    /\ Leave(c)
    /\ UNCHANGED <<quoteVars, rowVars, deal, active, signing, arrived>>

\* Suppression list and mailbox, which may refuse first, and the provider.
Send(c) ==
    /\ pc[c] = "send"
    /\ \E answer \in {"accepted", "rejected", "unknown"}, taken \in BOOLEAN :
        /\ answer = "accepted" => taken
        /\ answer = "rejected" => ~taken
        /\ arrived' = IF taken THEN arrived \cup {task[c]} ELSE arrived
        /\ Goto(c, answer)
    /\ UNCHANGED <<quoteVars, rowVars, deal, active, signing>>

\* The accepting update; with no request to activate it is refused and rolled
\* back (ErrSignatureState).
Accept(d) ==
    /\ status[d] \in {"sending", "uncertain"}
    /\ signature[d] \in {"none", "draft", "sent"}
    /\ status' = [status EXCEPT ![d] = "sent"]
    /\ stale' = [stale EXCEPT ![d] = FALSE]
    /\ signature' = [signature EXCEPT ![d] = IF @ = "draft" THEN "sent" ELSE @]

CompleteQuoteDelivery(c) ==
    /\ pc[c] = "accepted"
    /\ Accept(task[c])
    /\ Leave(c)
    /\ UNCHANGED <<quoteVars, quoteOf, converted, deal, active, signing, arrived>>

CompleteTwice(c) ==
    /\ pc[c] = "accepted"
    /\ status[task[c]] = "sent"
    /\ Leave(c)
    /\ UNCHANGED <<quoteVars, rowVars, deal, active, signing, arrived>>

\* The delivery is in no state to be accepted, or the transaction failed: the
\* handler reports it as uncertain instead.
CompleteFails(c) ==
    /\ pc[c] = "accepted"
    /\ Goto(c, "unknown")
    /\ UNCHANGED <<quoteVars, rowVars, deal, active, signing, arrived>>

FailKeepingDraft(c) ==
    LET d == task[c] IN
    /\ pc[c] \in {"rejected", "unknown"}
    /\ status[d] = "sending"
    /\ status' = [status EXCEPT ![d] = IF pc[c] = "rejected" THEN "failed" ELSE "uncertain"]
    /\ stale' = [stale EXCEPT ![d] = FALSE]
    /\ UNCHANGED signature
    /\ Leave(c)
    /\ UNCHANGED <<quoteVars, quoteOf, converted, deal, active, signing, arrived>>

FailQuoteDelivery(c) ==
    LET d == task[c] IN
    /\ pc[c] \in {"rejected", "unknown"}
    /\ status[d] = "sending"
    /\ status' = [status EXCEPT ![d] = IF pc[c] = "rejected" THEN "failed" ELSE "uncertain"]
    /\ stale' = [stale EXCEPT ![d] = FALSE]
    /\ IF pc[c] = "rejected" THEN VoidDraft(d) ELSE UNCHANGED signature
    /\ Leave(c)
    /\ UNCHANGED <<quoteVars, quoteOf, converted, deal, active, signing, arrived>>

FailRefused(c) ==
    /\ pc[c] \in {"rejected", "unknown"}
    /\ status[task[c]] # "sending"
    /\ Leave(c)
    /\ UNCHANGED <<quoteVars, rowVars, deal, active, signing, arrived>>

Stop(c) ==
    /\ pc[c] # "idle"
    /\ Leave(c)
    /\ UNCHANGED <<quoteVars, rowVars, deal, active, signing, arrived>>

-----------------------------------------------------------------------------
(* Recovery, and the resolution of what is uncertain.                      *)

Age(d) ==
    /\ status[d] = "sending" /\ ~stale[d]
    /\ stale' = [stale EXCEPT ![d] = TRUE]
    /\ UNCHANGED <<quoteVars, status, quoteOf, signature, converted, deal, active,
                   callVars, signing, arrived>>

Recover(d) ==
    /\ status[d] = "sending" /\ stale[d]
    /\ status' = [status EXCEPT ![d] = "uncertain"]
    /\ stale' = [stale EXCEPT ![d] = FALSE]
    /\ UNCHANGED <<quoteVars, quoteOf, signature, converted, deal, active, callVars,
                   signing, arrived>>

ConfirmSent(d) ==
    /\ status[d] = "uncertain"
    /\ d \in arrived
    /\ Accept(d)
    /\ UNCHANGED <<quoteVars, quoteOf, converted, deal, active, callVars, signing,
                   arrived>>

MarkNotSent(d) ==
    /\ status[d] = "uncertain"
    /\ d \notin arrived
    /\ status' = [status EXCEPT ![d] = "failed"]
    /\ VoidDraft(d)
    /\ UNCHANGED <<quoteVars, quoteOf, stale, converted, deal, active, callVars,
                   signing, arrived>>

\* The retry reads the sender's role without a lock ...
CheckRetry(c, d) ==
    /\ pc[c] = "idle"
    /\ active
    /\ status[d] = "uncertain"
    /\ Take(c, d, "retry")
    /\ UNCHANGED <<quoteVars, rowVars, deal, active, signing, arrived>>

\* ... and then locks the delivery.
Retry(c) ==
    LET d == task[c] IN
    /\ pc[c] = "retry"
    /\ status[d] = "uncertain"
    /\ status' = [status EXCEPT ![d] = "prepared"]
    /\ Goto(c, "claim")
    /\ UNCHANGED <<quoteVars, quoteOf, stale, signature, converted, deal, active,
                   signing, arrived>>

RetryRefused(c) ==
    /\ pc[c] = "retry"
    /\ status[task[c]] # "uncertain"
    /\ Leave(c)
    /\ UNCHANGED <<quoteVars, rowVars, deal, active, signing, arrived>>

Deactivate ==
    /\ active
    /\ active' = FALSE
    /\ status' = [d \in Deliveries |->
                    CASE status[d] = "prepared" -> "failed"
                      [] status[d] = "sending" -> "uncertain"
                      [] OTHER -> status[d]]
    /\ stale' = [d \in Deliveries |-> FALSE]
    /\ signature' = [d \in Deliveries |->
                       IF status[d] = "prepared" /\ signature[d] = "draft"
                       THEN "voided" ELSE signature[d]]
    /\ UNCHANGED <<quoteVars, quoteOf, converted, deal, callVars, signing, arrived>>

Reactivate ==
    /\ ~active
    /\ active' = TRUE
    /\ UNCHANGED <<quoteVars, rowVars, deal, callVars, signing, arrived>>

-----------------------------------------------------------------------------
(* The customer, and the deal.                                             *)

\* The clock is read before the rows are locked.
BeginSigning(v, d) ==
    /\ signing[v] = None
    /\ status[d] = "sent" /\ signature[d] # "none"
    /\ age[quoteOf[d]] = "valid"
    /\ signing' = [signing EXCEPT ![v] = d]
    /\ UNCHANGED <<quoteVars, rowVars, deal, active, callVars, arrived>>

SignUnchecked(v) ==
    LET d == signing[v] IN
    /\ d # None
    /\ signature' = [signature EXCEPT ![d] = "signed"]
    /\ signing' = [signing EXCEPT ![v] = None]
    /\ UNCHANGED <<quoteVars, status, quoteOf, stale, converted, deal, active, callVars,
                   arrived>>

SignPublicQuote(v) ==
    LET d == signing[v] IN
    /\ d # None
    /\ signature[d] = "sent"
    /\ signature' = [signature EXCEPT ![d] = "signed"]
    /\ signing' = [signing EXCEPT ![v] = None]
    /\ UNCHANGED <<quoteVars, status, quoteOf, stale, converted, deal, active, callVars,
                   arrived>>

\* A repetition of the same signature, or a request in no state to be signed.
SignNothing(v) ==
    LET d == signing[v] IN
    /\ d # None
    /\ signature[d] # "sent"
    /\ signing' = [signing EXCEPT ![v] = None]
    /\ UNCHANGED <<quoteVars, rowVars, deal, active, callVars, arrived>>

\* Declining is open until the link ends.
DeclinePublicQuote(d) ==
    /\ status[d] = "sent" /\ signature[d] = "sent"
    /\ age[quoteOf[d]] # "closed"
    /\ signature' = [signature EXCEPT ![d] = "declined"]
    /\ UNCHANGED <<quoteVars, status, quoteOf, stale, converted, deal, active, callVars,
                   signing, arrived>>

VoidSignatureRequest(d) ==
    /\ signature[d] = "sent"
    /\ signature' = [signature EXCEPT ![d] = "voided"]
    /\ UNCHANGED <<quoteVars, status, quoteOf, stale, converted, deal, active, callVars,
                   signing, arrived>>

ConvertSignedQuoteToWon(d) ==
    /\ signature[d] = "signed" /\ ~converted[d]
    /\ deal
    /\ deal' = FALSE
    /\ converted' = [converted EXCEPT ![d] = TRUE]
    /\ UNCHANGED <<quoteVars, status, quoteOf, stale, signature, active, callVars, signing,
                   arrived>>

\* Any writer may move the deal to a stage of another outcome, and back.
MoveDealStage ==
    /\ deal' = ~deal
    /\ UNCHANGED <<quoteVars, rowVars, active, callVars, signing, arrived>>

-----------------------------------------------------------------------------
Quote(q) ==
    \/ FinalizeQuote(q) \/ DecideQuoteApproval(q) \/ Expire(q)
    \/ \E new \in Quotes : ReissueExpiredQuote(q, new)

Call(c) ==
    \/ \E d \in Deliveries :
        \/ \E q \in Quotes : PrepareQuoteDelivery(c, d, q)
        \/ ReplayQuoteDelivery(c, d)
        \/ CheckRetry(c, d)
    \/ ClaimQuoteDelivery(c) \/ ClaimExpired(c) \/ ClaimStale(c) \/ ClaimNothing(c)
    \/ Send(c)
    \/ CompleteQuoteDelivery(c) \/ CompleteTwice(c) \/ CompleteFails(c)
    \/ FailQuoteDelivery(c) \/ FailRefused(c)
    \/ Retry(c) \/ RetryRefused(c)
    \/ Stop(c)

Delivery(d) ==
    \/ Age(d) \/ Recover(d) \/ ConfirmSent(d) \/ MarkNotSent(d)
    \/ DeclinePublicQuote(d) \/ VoidSignatureRequest(d) \/ ConvertSignedQuoteToWon(d)

Visitor(v) ==
    \/ \E d \in Deliveries : BeginSigning(v, d)
    \/ SignPublicQuote(v) \/ SignNothing(v)

Next ==
    \/ \E q \in Quotes : Quote(q)
    \/ \E c \in Calls : Call(c)
    \/ \E d \in Deliveries : Delivery(d)
    \/ \E v \in Visitors : Visitor(v)
    \/ Deactivate \/ Reactivate \/ MoveDealStage

Spec == Init /\ [][Next]_vars

-----------------------------------------------------------------------------
(* Properties.                                                             *)

\* A signature request waits as a draft exactly as long as its delivery is
\* unresolved.  A draft left behind would occupy the unique index for ever and
\* the quote could never be signed; a request closed under an unresolved
\* delivery would make a late acceptance impossible to record.
DraftWhileUnresolved ==
    \A d \in Deliveries :
        signature[d] # "none" => (signature[d] = "draft" <=> status[d] \in Unresolved)

\* What a customer can sign, signed or declined was delivered, and reviewed
\* when a review was asked for, whichever of a retry, a late answer, an
\* operator and a deactivation settled the delivery.
SignedWasDelivered ==
    \A d \in Deliveries :
        signature[d] \in {"sent", "signed", "declined"} =>
            /\ status[d] = "sent"
            /\ d \in arrived
            /\ approval[quoteOf[d]] \in Sendable

\* Once a quote is replaced nothing of it is left that a customer could still
\* accept, and nothing that could still reach the customer: the version in
\* force is the last one, though a customer may have begun to sign before.
ReplacedIsClosed ==
    \A q \in Quotes : Replaced(q) =>
        /\ ~Delivering(q)
        /\ \A d \in Deliveries : quoteOf[d] = q => signature[d] \notin OpenSignature

\* A request opens, closes and gives way together with its delivery.
SignatureFollowsDelivery ==
    DraftWhileUnresolved /\ SignedWasDelivered /\ ReplacedIsClosed

\* The customer's decision is final, whatever is settled, voided or replaced
\* after it, and one request gives one conversion.
KeepsDecisions ==
    \A d \in Deliveries :
        /\ signature[d] \in Decided => signature'[d] = signature[d]
        /\ converted[d] => converted'[d]

DecisionsAreFinal == [][KeepsDecisions]_vars
=============================================================================
