--------------------------- MODULE DeliveryPromise ---------------------------
(***************************************************************************)
(* What sending by hand promises, whether a record e-mail, a reply or a    *)
(* quote is sent: the part MailDeliveries and QuoteDeliveries share, with  *)
(* no claims that age, no recovery, no membership, no evidence messages    *)
(* and no signatures.  Every subject has one unresolved delivery at a      *)
(* time.  A decision to send buys one permit, a permit one provider call,  *)
(* and a caller holds one permit at a time.  A call may come as late as it *)
(* likes, after anything else was decided, but it is made once.  What is   *)
(* in doubt is never sent again unless somebody decides so, and is settled *)
(* by what arrived: as sent if the provider took it, as failed only if not.*)
(* What is settled stays settled.                                          *)
(***************************************************************************)
CONSTANTS
    Deliveries,
    Callers,      \* requests that call the provider
    Subjects,     \* what a delivery is about
    Nothing       \* no delivery, no subject

VARIABLES
    fate,         \* of each delivery: "none", then unresolved, "sent" or "failed"
    subject,      \* [Deliveries -> Subjects \cup {Nothing}]
    permit,       \* [Callers -> Deliveries \cup {Nothing}]
    reached       \* deliveries the provider took at least once

vars == <<fate, subject, permit, reached>>

Unresolved == {"prepared", "sending", "uncertain"}

Init ==
    /\ fate = [d \in Deliveries |-> "none"]
    /\ subject \in [Deliveries -> Subjects \cup {Nothing}]
    /\ permit = [c \in Callers |-> Nothing]
    /\ reached = {}

Become(d, what) ==
    /\ fate' = [fate EXCEPT ![d] = what]
    /\ UNCHANGED <<subject, reached>>

Decide(d, s) ==
    /\ fate[d] = "none"
    /\ \A other \in Deliveries : subject[other] = s => fate[other] \notin Unresolved
    /\ fate' = [fate EXCEPT ![d] = "prepared"]
    /\ subject' = [subject EXCEPT ![d] = s]
    /\ UNCHANGED <<permit, reached>>

Grant(d, c) ==
    /\ fate[d] = "prepared"
    /\ permit[c] = Nothing
    /\ Become(d, "sending")
    /\ permit' = [permit EXCEPT ![c] = d]

\* The permit is used, or given back: the call is refused, or never made.
Call(c) ==
    /\ permit[c] # Nothing
    /\ permit' = [permit EXCEPT ![c] = Nothing]
    /\ reached' \in {reached, reached \cup {permit[c]}}
    /\ UNCHANGED <<fate, subject>>

Accept(d) ==
    /\ fate[d] \in {"sending", "uncertain"}
    /\ d \in reached
    /\ Become(d, "sent")
    /\ UNCHANGED permit

Refuse(d) ==
    /\ fate[d] \in {"prepared", "sending"}
    /\ Become(d, "failed")
    /\ UNCHANGED permit

Doubt(d) ==
    /\ fate[d] = "sending"
    /\ Become(d, "uncertain")
    /\ UNCHANGED permit

GiveUp(d) ==
    /\ fate[d] = "uncertain"
    /\ d \notin reached
    /\ Become(d, "failed")
    /\ UNCHANGED permit

Again(d) ==
    /\ fate[d] = "uncertain"
    /\ Become(d, "prepared")
    /\ UNCHANGED permit

\* The sender is gone: nothing more is begun, and what is underway is in doubt.
Withdraw ==
    /\ fate' = [d \in Deliveries |->
                  CASE fate[d] = "prepared" -> "failed"
                    [] fate[d] = "sending" -> "uncertain"
                    [] OTHER -> fate[d]]
    /\ UNCHANGED <<subject, permit, reached>>

Next ==
    \/ \E d \in Deliveries :
        \/ \E s \in Subjects : Decide(d, s)
        \/ \E c \in Callers : Grant(d, c)
        \/ Accept(d) \/ Refuse(d) \/ Doubt(d) \/ GiveUp(d) \/ Again(d)
    \/ \E c \in Callers : Call(c)
    \/ Withdraw

Spec == Init /\ [][Next]_vars
=============================================================================
