------------------------- MODULE TransferFormProofs -------------------------
(***************************************************************************)
(* Proofs about TransferForm, for any names, numbers of lookups in flight, *)
(* poll limits and failures.                                               *)
(***************************************************************************)
EXTENDS TransferForm, TLAPS

Status == {"NOT_REQUIRED", "PENDING", "GENERATED", "FAILED"}

TypeOK ==
    /\ lookupTimer \in BOOLEAN /\ amount \in BOOLEAN
    /\ submitting \in BOOLEAN /\ mounted \in BOOLEAN /\ late \in BOOLEAN
    /\ lookups \in [Lookup -> Name \union {NoName}]
    /\ username \in Name \union {NoName}
    /\ create \in [at : {"none", "sent", "committed"}, to : Name \union {NoName},
                   id : Transfer \union {0}]
    /\ transfers \in Seq(Status) /\ Len(transfers) \in 0 .. MaxTyped + MaxFaults
    /\ result \in 0 .. Len(transfers)
    /\ card \in Status \union {"none"} /\ (result = 0 => card = "none")
    /\ polls \in [Transfer -> [at : {"none", "timer", "sent", "over"}, attempt : Nat]]
    /\ typed \in Nat /\ told \in Nat

\* The recipient and the error under the field are about the name that is there,
\* or a lookup of it is coming; a lookup never asks for the user itself.
FieldInv ==
    /\ \A l \in Lookup : lookups[l] # Self
    /\ RecipientIsNamed
    /\ mounted /\ ~late => lookupError \in {NoName, username}
    /\ mounted /\ username # NoName /\ ~lookupTimer
          => \/ recipient # NoName \/ lookupError # NoName
             \/ \E l \in Lookup : lookups[l] = username

\* The POST in flight is the only one, and its transfer is the latest.
CreateInv ==
    /\ create.at # "none" => submitting
    /\ create.at = "committed" => create.id = Len(transfers) /\ create.id \in Transfer

\* One more transfer is owed to a name in the field, or to a POST under way.
SendInv ==
    LET owed == \/ create.at = "sent"
                \/ mounted /\ username # NoName /\ create.at = "none"
    IN  Len(transfers) + (IF owed THEN 1 ELSE 0) <= typed + told

IInv == TypeOK /\ FieldInv /\ CreateInv /\ SendInv /\ CardIsPolled

LEMMA InitInvariant == Init => IInv
<1> SUFFICES ASSUME Init PROVE IInv
  OBVIOUS
<1> USE FormAssumption
<1>1. TypeOK
  <2>1. transfers \in Seq(Status) /\ Len(transfers) = 0
    BY DEF Init
  <2>2. create \in [at : {"none", "sent", "committed"}, to : Name \union {NoName},
                   id : Transfer \union {0}]
    BY DEF Init, NoCreate
  <2>3. polls \in [Transfer -> [at : {"none", "timer", "sent", "over"}, attempt : Nat]]
    BY DEF Init, NoPoll
  <2>4. MaxTyped + MaxFaults \in Nat
    BY FormAssumption
  <2>5. 0 \in 0 .. MaxTyped + MaxFaults
    BY <2>4
  <2>6. result = 0 /\ 0 \in 0 .. Len(transfers)
    BY <2>1 DEF Init
  <2>7. lookups \in [Lookup -> Name \union {NoName}] /\ typed \in Nat /\ told \in Nat
    BY DEF Init
  <2> QED
    BY <2>1, <2>2, <2>3, <2>5, <2>6, <2>7 DEF Init, TypeOK
<1>2. FieldInv
  BY DEF Init, FieldInv, RecipientIsNamed
<1>3. CreateInv /\ SendInv /\ CardIsPolled
  BY DEF Init, CreateInv, SendInv, CardIsPolled, NoCreate
<1> QED
  BY <1>1, <1>2, <1>3 DEF IInv

-----------------------------------------------------------------------------
(* The steps, one lemma each where several parts are disturbed.             *)

LEMMA TypeNameInvariant ==
  ASSUME IInv, NEW n \in Name \union {NoName}, TypeName(n)
  PROVE  IInv'
<1> USE FormAssumption
<1>1. TypeOK'
  <2>1. late' \in BOOLEAN /\ lookupTimer' \in BOOLEAN /\ username' \in Name \union {NoName}
    BY DEF IInv, TypeOK, TypeName, WatchUsername
  <2>2. typed' \in Nat /\ mounted' \in BOOLEAN
    BY DEF IInv, TypeOK, TypeName
  <2>3. UNCHANGED <<lookups, amount, submitting, create, transfers, shown, polls, told>>
    BY DEF TypeName, polling
  <2> QED
    BY <2>1, <2>2, <2>3 DEF IInv, TypeOK, shown, Transfer
<1>2. FieldInv'
  BY DEF IInv, TypeOK, FieldInv, RecipientIsNamed, TypeName, WatchUsername
<1>3. CreateInv' /\ CardIsPolled'
  BY DEF IInv, CreateInv, CardIsPolled, TypeName, polling, shown, Transfer
<1>4. SendInv'
  BY DEF IInv, TypeOK, SendInv, CreateInv, TypeName
<1> QED
  BY <1>1, <1>2, <1>3, <1>4 DEF IInv

LEMMA LookupInvariant ==
  ASSUME IInv, NEW l \in Lookup, LookupStep(l)
  PROVE  IInv'
<1> USE FormAssumption
<1>1. UNCHANGED <<username, amount, submitting, create, transfers, shown, polling, mounted, typed, told, cut>>
  BY DEF LookupStep, StartLookup, FinishLookup
<1>2. lookupTimer' \in BOOLEAN /\ late' \in BOOLEAN /\ lookups' \in [Lookup -> Name \union {NoName}]
  BY DEF IInv, TypeOK, LookupStep, StartLookup, FinishLookup, StillNamed
<1>3. TypeOK'
  BY <1>1, <1>2 DEF IInv, TypeOK, polling, shown, Transfer
<1>6. CreateInv' /\ SendInv' /\ CardIsPolled'
  BY <1>1 DEF IInv, CreateInv, SendInv, CardIsPolled, shown, polling, Transfer
<1>7. FieldInv'
  <2>1. CASE StartLookup(l)
    BY <2>1 DEF IInv, TypeOK, FieldInv, RecipientIsNamed, StartLookup
  <2>2. CASE FinishLookup(l)
    BY <2>2 DEF IInv, TypeOK, FieldInv, RecipientIsNamed, FinishLookup, StillNamed
  <2> QED
    BY <2>1, <2>2 DEF LookupStep
<1> QED
  BY <1>3, <1>6, <1>7 DEF IInv

LEMMA FillAmountInvariant == IInv /\ FillAmount => IInv'
  BY DEF IInv, TypeOK, FieldInv, RecipientIsNamed, CreateInv, SendInv, CardIsPolled, FillAmount,
         field, shown, polling, Transfer

LEMMA SubmitInvariant ==
  ASSUME IInv, Submit
  PROVE  IInv'
<1> USE FormAssumption
<1>1. recipient = username /\ username # NoName /\ create.at = "none"
  BY DEF IInv, TypeOK, FieldInv, RecipientIsNamed, CreateInv, Submit, CanSubmit
<1>2. polls' \in [Transfer -> [at : {"none", "timer", "sent", "over"}, attempt : Nat]]
  BY DEF IInv, TypeOK, Submit, ClearPollTimer, NoPoll
<1>3. TypeOK'
  BY <1>1, <1>2 DEF IInv, TypeOK, Submit, field, shown, Transfer
<1>4. FieldInv'
  BY DEF IInv, FieldInv, RecipientIsNamed, Submit, field
<1>5. CreateInv' /\ SendInv'
  BY <1>1 DEF IInv, TypeOK, CreateInv, SendInv, Submit, field
<1>6. CardIsPolled'
  <2> SUFFICES ASSUME card = "PENDING", result \notin cut'
               PROVE  polls'[result].at # "none"
    BY DEF CardIsPolled, Submit, shown
  <2>1. result \in Transfer
    BY DEF IInv, TypeOK, Transfer
  <2>2. polls'[result] = polls[result] /\ result \notin cut
    BY <2>1 DEF Submit
  <2> QED
    BY <2>2 DEF IInv, CardIsPolled, Submit
<1> QED
  BY <1>3, <1>4, <1>5, <1>6 DEF IInv

LEMMA CommitInvariant ==
  ASSUME IInv, CommitTransfer
  PROVE  IInv'
<1> USE FormAssumption
<1> PICK status \in {"PENDING", "NOT_REQUIRED"} : transfers' = Append(transfers, status)
  BY DEF CommitTransfer
<1>1. transfers' \in Seq(Status) /\ Len(transfers') = Len(transfers) + 1
  BY DEF IInv, TypeOK, Status
<1>2. TypeOK'
  <2>1. create' \in [at : {"none", "sent", "committed"}, to : Name \union {NoName},
                    id : Transfer \union {0}]
    <3>1. Len(transfers) + 1 \in Transfer
      BY DEF IInv, TypeOK, CommitTransfer, Transfer
    <3>2. create' = [at |-> "committed", to |-> create.to, id |-> Len(transfers) + 1]
      BY Zenon DEF IInv, TypeOK, CommitTransfer
    <3> QED
      BY <3>1, <3>2 DEF IInv, TypeOK
  <2>2. /\ Len(transfers') \in 0 .. MaxTyped + MaxFaults
        /\ result \in 0 .. Len(transfers')
    BY <1>1 DEF IInv, TypeOK, CommitTransfer
  <2> QED
    BY <1>1, <2>1, <2>2 DEF IInv, TypeOK, CommitTransfer, field, shown, polling
<1>3. FieldInv' /\ CardIsPolled'
  BY DEF IInv, FieldInv, RecipientIsNamed, CardIsPolled, CommitTransfer, field, shown, polling
<1>4. CreateInv' /\ SendInv'
  BY <1>1 DEF IInv, TypeOK, CreateInv, SendInv, CommitTransfer, field, Transfer
<1> QED
  BY <1>2, <1>3, <1>4 DEF IInv

LEMMA SubmittedInvariant ==
  ASSUME IInv, Submitted
  PROVE  IInv'
<1> USE FormAssumption
<1>1. create.id \in Transfer /\ create.id = Len(transfers)
  BY DEF IInv, CreateInv, Submitted
<1>2. polls' \in [Transfer -> [at : {"none", "timer", "sent", "over"}, attempt : Nat]]
  BY DEF IInv, TypeOK, Submitted, PollReceipt, polling
<1>3. TypeOK'
  <2>1. NoCreate \in [at : {"none", "sent", "committed"}, to : Name \union {NoName},
                     id : Transfer \union {0}]
    BY DEF NoCreate
  <2>2. result' \in 1 .. Len(transfers)
    BY <1>1 DEF Submitted, Transfer
  <2>3. UNCHANGED <<transfers, lookups, mounted, typed, told>> /\ submitting' = FALSE
    BY DEF Submitted
  <2>4. card' \in Status
    BY DEF Submitted, Status
  <2>5. /\ lookupTimer' \in BOOLEAN /\ late' \in BOOLEAN /\ amount' \in BOOLEAN
        /\ username' \in Name \union {NoName}
    BY DEF IInv, TypeOK, Submitted, ClearForm, WatchUsername
  <2>6. result' \in 0 .. Len(transfers) /\ result' # 0
    BY <2>2 DEF IInv, TypeOK
  <2>7. create' \in [at : {"none", "sent", "committed"}, to : Name \union {NoName},
                    id : Transfer \union {0}]
    BY <2>1 DEF Submitted
  <2> QED
    BY <1>2, <2>3, <2>4, <2>5, <2>6, <2>7 DEF IInv, TypeOK
<1>4. FieldInv'
  BY DEF IInv, FieldInv, RecipientIsNamed, Submitted, ClearForm, WatchUsername
<1>5. CreateInv' /\ SendInv'
  BY DEF IInv, TypeOK, CreateInv, SendInv, Submitted, ClearForm, WatchUsername, NoCreate
<1>6. CardIsPolled'
  BY <1>1 DEF IInv, TypeOK, CardIsPolled, Submitted, PollReceipt
<1> QED
  BY <1>3, <1>4, <1>5, <1>6 DEF IInv

LEMMA SubmitFailsInvariant ==
  ASSUME IInv, SubmitFails
  PROVE  IInv'
<1>1. TypeOK'
  <2>1. NoCreate \in [at : {"none", "sent", "committed"}, to : Name \union {NoName},
                     id : Transfer \union {0}]
    BY DEF NoCreate
  <2>2. told + 1 \in Nat
    BY DEF IInv, TypeOK
  <2> QED
    BY <2>1, <2>2 DEF IInv, TypeOK, SubmitFails, field, shown, polling
<1>2. FieldInv' /\ CardIsPolled'
  BY DEF IInv, FieldInv, RecipientIsNamed, CardIsPolled, SubmitFails, field, shown, polling
<1>3. CreateInv' /\ SendInv'
  BY DEF IInv, TypeOK, CreateInv, SendInv, SubmitFails, NoCreate, field
<1> QED
  BY <1>1, <1>2, <1>3 DEF IInv

LEMMA ResolveInvariant ==
  ASSUME IInv, NEW t \in Transfer, ResolveReceipt(t)
  PROVE  IInv'
<1>1. transfers' \in Seq(Status) /\ Len(transfers') = Len(transfers)
  BY DEF IInv, TypeOK, ResolveReceipt, Status
<1>2. TypeOK'
  BY <1>1 DEF IInv, TypeOK, ResolveReceipt, field, shown, polling
<1>3. FieldInv' /\ CardIsPolled'
  BY DEF IInv, FieldInv, RecipientIsNamed, CardIsPolled, ResolveReceipt, field, shown, polling
<1>4. CreateInv' /\ SendInv'
  BY <1>1 DEF IInv, CreateInv, SendInv, ResolveReceipt, field
<1> QED
  BY <1>2, <1>3, <1>4 DEF IInv

LEMMA PollInvariant ==
  ASSUME IInv, NEW t \in Transfer, PollStep(t) \/ PollFails(t)
  PROVE  IInv'
<1> USE FormAssumption
<1>1. UNCHANGED <<field, amount, submitting, create, transfers, mounted, typed, told, cut>>
  BY DEF PollStep, SendPoll, FinishPoll, PollFails
<1>2. polls' \in [Transfer -> [at : {"none", "timer", "sent", "over"}, attempt : Nat]]
  <2>1. \A attempt \in Nat : [at |-> "timer", attempt |-> attempt]
                                \in [at : {"none", "timer", "sent", "over"}, attempt : Nat]
    OBVIOUS
  <2>2. polls[t].attempt + 1 \in Nat
    BY DEF IInv, TypeOK
  <2>3. CASE SendPoll(t)
    BY <2>3 DEF IInv, TypeOK, SendPoll
  <2>4. CASE PollAgain(t)
    <3>1. CASE PollReceipt(t, polls[t].attempt + 1)
      BY <2>1, <2>2, <3>1 DEF IInv, TypeOK, PollReceipt
    <3>2. CASE polls' = [polls EXCEPT ![t].at = "over"]
      BY <3>2 DEF IInv, TypeOK
    <3> QED
      BY <2>4, <3>1, <3>2 DEF PollAgain
  <2>5. CASE polls' = [polls EXCEPT ![t] = NoPoll]
    BY <2>5 DEF IInv, TypeOK, NoPoll
  <2> QED
    BY <2>3, <2>4, <2>5 DEF PollStep, FinishPoll, PollFails
<1>3. result' = result /\ (card' = card \/ (result = t /\ card' = transfers[t] /\ FinishPoll(t)))
  BY DEF PollStep, SendPoll, FinishPoll, PollFails, StillShown, shown
<1>4. card' \in Status \union {"none"} /\ (result' = 0 => card' = "none")
  <2>1. CASE card' = card
    BY <2>1, <1>3 DEF IInv, TypeOK
  <2>2. CASE result = t /\ card' = transfers[t]
    <3>1. t \in 1 .. Len(transfers)
      BY <2>2 DEF IInv, TypeOK, Transfer
    <3> QED
      BY <3>1, <2>2, <1>3 DEF IInv, TypeOK
  <2> QED
    BY <1>3, <2>1, <2>2
<1>5. TypeOK'
  BY <1>1, <1>2, <1>3, <1>4 DEF IInv, TypeOK, field
<1>6. FieldInv' /\ CreateInv' /\ SendInv'
  BY <1>1 DEF IInv, FieldInv, RecipientIsNamed, CreateInv, SendInv, field
<1>7. CardIsPolled'
  <2> SUFFICES ASSUME mounted, card' = "PENDING", result \notin cut
               PROVE  polls'[result].at # "none"
    BY <1>1, <1>3 DEF CardIsPolled
  <2>1. CASE result # t
    <3>1. card = "PENDING" /\ polls[result].at # "none"
      BY <2>1, <1>3 DEF IInv, CardIsPolled
    <3>2. result \in Transfer
      BY <3>1 DEF IInv, TypeOK, Transfer
    <3>3. polls'[result] = polls[result]
      BY <2>1, <3>2 DEF IInv, TypeOK, PollStep, SendPoll, FinishPoll, PollFails, PollAgain, PollReceipt
    <3> QED
      BY <3>1, <3>3
  <2>2. CASE result = t /\ FinishPoll(t)
    BY <2>2 DEF IInv, TypeOK, FinishPoll, StillShown, PollAgain, PollReceipt
  <2>3. CASE result = t /\ (SendPoll(t) \/ PollFails(t))
    <3>1. CASE SendPoll(t)
      BY <3>1, <2>3 DEF IInv, TypeOK, SendPoll
    <3>2. CASE PollFails(t)
      BY <3>2, <2>3 DEF IInv, TypeOK, PollFails, PollAgain, PollReceipt
    <3> QED
      BY <3>1, <3>2, <2>3
  <2> QED
    BY <2>1, <2>2, <2>3 DEF PollStep
<1> QED
  BY <1>5, <1>6, <1>7 DEF IInv

LEMMA UnmountInvariant ==
  ASSUME IInv, Unmount
  PROVE  IInv'
<1>1. polls' \in [Transfer -> [at : {"none", "timer", "sent", "over"}, attempt : Nat]]
  BY DEF IInv, TypeOK, Unmount, ClearPollTimer, NoPoll
<1>2. TypeOK'
  BY <1>1 DEF IInv, TypeOK, Unmount, shown
<1>3. FieldInv' /\ CardIsPolled'
  BY DEF IInv, FieldInv, RecipientIsNamed, CardIsPolled, Unmount
<1>4. CreateInv' /\ SendInv'
  BY DEF IInv, TypeOK, CreateInv, SendInv, Unmount
<1> QED
  BY <1>2, <1>3, <1>4 DEF IInv

LEMMA StepInvariant == IInv /\ [Next]_vars => IInv'
<1> SUFFICES ASSUME IInv, [Next]_vars PROVE IInv'
  OBVIOUS
<1>1. CASE UNCHANGED vars
  BY <1>1 DEF IInv, TypeOK, FieldInv, RecipientIsNamed, CreateInv, SendInv, CardIsPolled,
              vars, field, shown, polling
<1>2. CASE Next
  BY <1>2, TypeNameInvariant, LookupInvariant, FillAmountInvariant, SubmitInvariant,
     CommitInvariant, SubmittedInvariant, SubmitFailsInvariant, ResolveInvariant, PollInvariant,
     UnmountInvariant DEF Next
<1> QED
  BY <1>1, <1>2

-----------------------------------------------------------------------------
(* What follows of every behaviour.                                         *)

\* Every variable of the form and of the transfers it makes keeps to its kind.
THEOREM Invariant == Spec => []IInv
  BY InitInvariant, StepInvariant, PTL DEF Spec

\* The recipient set is the name in the field and not the user, whatever lookups
\* are answered late.
THEOREM RecipientTheorem == Spec => []RecipientIsNamed
<1>1. IInv => RecipientIsNamed
  BY DEF IInv, FieldInv
<1> QED
  BY <1>1, Invariant, PTL

\* Of a name in the field that no lookup is coming for or under way, the form shows
\* the recipient or an error about that name, unless a lookup of another name that
\* failed has since written its own (TransferForm.vue:53).
THEOREM FieldTheorem == Spec => []FieldIsExplained
<1>1. IInv => FieldIsExplained
  BY DEF IInv, FieldInv, RecipientIsNamed, FieldIsExplained, Hint
<1> QED
  BY <1>1, Invariant, PTL

\* A receipt shown as PENDING is polled for.
THEOREM CardTheorem == Spec => []CardIsPolled
<1>1. IInv => CardIsPolled
  BY DEF IInv
<1> QED
  BY <1>1, Invariant, PTL

\* A filled-in form makes one transfer.
THEOREM SendTheorem == Spec => []NoDoubleSend
<1>1. IInv => NoDoubleSend
  BY DEF IInv, TypeOK, SendInv, NoDoubleSend
<1> QED
  BY <1>1, Invariant, PTL

\* The transfer shown as done is never replaced by an older one.
THEOREM ResultTheorem == Spec => ResultIsLatest
<1>1. IInv /\ [Next]_vars => [result' >= result]_vars
  <2> SUFFICES ASSUME IInv, Next PROVE result' >= result
    BY DEF vars, shown
  <2>1. CASE Submitted
    BY <2>1 DEF IInv, TypeOK, CreateInv, Submitted
  <2>2. CASE \E t \in Transfer : PollStep(t)
    BY <2>2 DEF IInv, TypeOK, PollStep, SendPoll, FinishPoll, StillShown, shown
  <2>3. CASE ~Submitted /\ ~(\E t \in Transfer : PollStep(t))
    <3>1. result' = result
      BY <2>3 DEF Next, TypeName, LookupStep, StartLookup, FinishLookup, FillAmount, Submit,
                  CommitTransfer, SubmitFails, ResolveReceipt, PollFails, Unmount, shown
    <3> QED
      BY <3>1 DEF IInv, TypeOK
  <2> QED
    BY <2>1, <2>2, <2>3
<1> QED
  BY <1>1, Invariant, PTL DEF Spec, ResultIsLatest
-----------------------------------------------------------------------------
(* Polling ends: what PollsEnd rests on besides the fairness of timers and  *)
(* answers.                                                                 *)

\* The form has not been told of the transfer: it is not committed, or the answer
\* of its POST is still to come.
Unanswered(t) == t > Len(transfers) \/ (create.at = "committed" /\ create.id = t)

\* How often a transfer's timer may still be set, may fire and be answered: each
\* attempt is a timer and a poll.
PollsLeft(t) ==
    IF Unanswered(t) THEN 2 * PollLimit + 3
    ELSE IF polls[t].at \in {"timer", "sent"}
         THEN 2 * (PollLimit - polls[t].attempt) + (IF polls[t].at = "timer" THEN 2 ELSE 1)
         ELSE 0

\* A transfer is polled for only once its POST was answered, and within the limit.
PollInv ==
    \A t \in Transfer : /\ polls[t].attempt <= PollLimit
                        /\ Unanswered(t) => polls[t].at = "none"

\* The timer of a transfer fires, its poll is answered or fails, and there is less
\* left to do for it; nothing else, not a later transfer, a cleared timer or a
\* worker that never finishes, ever leaves more.
PollsShorten ==
    \A t \in Transfer : /\ PollsLeft(t)' <= PollsLeft(t)
                        /\ PollStep(t) \/ PollFails(t) => PollsLeft(t)' < PollsLeft(t)

LEMMA PollInit == Init => PollInv
  BY FormAssumption DEF Init, PollInv, NoPoll, NoCreate

LEMMA PollsLeftBounds ==
  ASSUME IInv, PollInv, NEW t \in Transfer
  PROVE  PollsLeft(t) \in 0 .. 2 * PollLimit + 3
<1>1. polls[t].attempt \in 0 .. PollLimit /\ PollLimit \in Nat
  BY FormAssumption DEF IInv, TypeOK, PollInv
<1> QED
  BY <1>1 DEF PollsLeft

\* What a step that leaves the polling of t as it is, or drops it, does.
LEMMA PollUntouched ==
  ASSUME IInv, PollInv, NEW t \in Transfer,
         polls'[t] = polls[t] \/ polls'[t] = NoPoll,
         Unanswered(t)' => Unanswered(t)
  PROVE  /\ polls'[t].attempt <= PollLimit
         /\ Unanswered(t)' => polls'[t].at = "none"
         /\ PollsLeft(t)' <= PollsLeft(t)
<1>1. polls[t].attempt \in 0 .. PollLimit /\ PollLimit \in Nat
  BY FormAssumption DEF IInv, TypeOK, PollInv
<1>2. (Unanswered(t) => polls[t].at = "none") /\ NoPoll.at = "none" /\ NoPoll.attempt = 0
  BY DEF PollInv, NoPoll
<1>3. polls'[t].attempt <= PollLimit /\ (Unanswered(t)' => polls'[t].at = "none")
  BY <1>1, <1>2
<1>4. PollsLeft(t)' = IF Unanswered(t)' THEN 2 * PollLimit + 3
                      ELSE IF polls'[t].at \in {"timer", "sent"}
                           THEN 2 * (PollLimit - polls'[t].attempt)
                                  + (IF polls'[t].at = "timer" THEN 2 ELSE 1)
                           ELSE 0
  BY DEF PollsLeft
<1>5. PollsLeft(t)' <= PollsLeft(t)
  <2>1. CASE Unanswered(t)'
    BY <2>1, <1>1, <1>4 DEF PollsLeft
  <2>2. CASE ~Unanswered(t)' /\ polls'[t] = NoPoll
    BY <2>2, <1>1, <1>2, <1>4, PollsLeftBounds
  <2>3. CASE ~Unanswered(t)' /\ polls'[t] = polls[t] /\ Unanswered(t)
    BY <2>3, <1>1, <1>2, <1>4, PollsLeftBounds
  <2>4. CASE ~Unanswered(t)' /\ polls'[t] = polls[t] /\ ~Unanswered(t)
    BY <2>4, <1>1, <1>4 DEF PollsLeft
  <2> QED
    BY <2>1, <2>2, <2>3, <2>4
<1> QED
  BY <1>3, <1>5

\* What a poll that is made or answered does for its own transfer.
LEMMA PollOwnStep ==
  ASSUME IInv, PollInv, NEW t \in Transfer, PollStep(t) \/ PollFails(t)
  PROVE  /\ polls'[t].attempt <= PollLimit
         /\ Unanswered(t)' => polls'[t].at = "none"
         /\ PollsLeft(t)' <= PollsLeft(t) /\ PollsLeft(t)' < PollsLeft(t)
<1> DEFINE a == polls[t].attempt
<1>1. a \in Nat /\ a <= PollLimit /\ PollLimit \in Nat
  BY FormAssumption DEF IInv, TypeOK, PollInv
<1>2. polls[t].at \in {"timer", "sent"} /\ ~Unanswered(t)
  BY DEF PollInv, PollStep, SendPoll, FinishPoll, PollFails
<1>3. UNCHANGED <<transfers, create>>
  BY DEF PollStep, SendPoll, FinishPoll, PollFails
<1>4. ~Unanswered(t)'
  BY <1>2, <1>3 DEF Unanswered
<1>5. CASE polls[t].at = "timer" /\ polls'[t].at = "sent" /\ polls'[t].attempt = a
  BY <1>1, <1>2, <1>4, <1>5 DEF PollsLeft
<1>6. CASE polls[t].at = "sent" /\ polls'[t].at = "timer" /\ polls'[t].attempt = a + 1 /\ a < PollLimit
  BY <1>1, <1>2, <1>4, <1>6 DEF PollsLeft
<1>7. CASE polls[t].at = "sent" /\ polls'[t].at \in {"none", "over"} /\ polls'[t].attempt \in {a, 0}
  BY <1>1, <1>2, <1>4, <1>7 DEF PollsLeft
<1>8. \/ polls[t].at = "timer" /\ polls'[t].at = "sent" /\ polls'[t].attempt = a
      \/ polls[t].at = "sent" /\ polls'[t].at = "timer" /\ polls'[t].attempt = a + 1 /\ a < PollLimit
      \/ polls[t].at = "sent" /\ polls'[t].at \in {"none", "over"} /\ polls'[t].attempt \in {a, 0}
  <2>1. CASE SendPoll(t)
    BY <2>1 DEF IInv, TypeOK, SendPoll
  <2>2. CASE polls[t].at = "sent" /\ PollAgain(t)
    BY <2>2 DEF IInv, TypeOK, PollAgain, PollReceipt
  <2>3. CASE polls[t].at = "sent" /\ polls' = [polls EXCEPT ![t] = NoPoll]
    BY <2>3 DEF IInv, TypeOK, NoPoll
  <2> QED
    BY <2>1, <2>2, <2>3 DEF PollStep, FinishPoll, PollFails
<1> QED
  BY <1>5, <1>6, <1>7, <1>8

\* A step of a transfer's polling is of that transfer alone.
LEMMA PollOthers ==
  ASSUME IInv, NEW u \in Transfer, PollStep(u) \/ PollFails(u), NEW t \in Transfer, t # u
  PROVE  polls'[t] = polls[t]
  BY DEF IInv, TypeOK, PollStep, SendPoll, FinishPoll, PollFails, PollAgain, PollReceipt

\* A POST that is answered leaves its transfer with its polls to make, one that is
\* not the newest as it is.
LEMMA PollSubmitted ==
  ASSUME IInv, PollInv, Submitted, NEW t \in Transfer
  PROVE  /\ polls'[t].attempt <= PollLimit
         /\ Unanswered(t)' => polls'[t].at = "none"
         /\ PollsLeft(t)' <= PollsLeft(t)
<1>1. PollLimit \in Nat /\ Len(transfers) \in Nat
  BY FormAssumption DEF IInv, TypeOK
<1>2. Unanswered(t)' => Unanswered(t) /\ t # create.id
  BY <1>1 DEF IInv, CreateInv, Submitted, NoCreate, Unanswered, Transfer
<1>3. CASE t = create.id /\ polls'[t] # polls[t]
  <2>1. polls'[t] = [at |-> "timer", attempt |-> 0]
    BY <1>3 DEF IInv, TypeOK, Submitted, PollReceipt, polling
  <2>2. PollsLeft(t) = 2 * PollLimit + 3
    BY <1>3 DEF PollsLeft, Unanswered, Submitted
  <2>3. PollsLeft(t)' = 2 * PollLimit + 2
    BY <1>1, <1>2, <1>3, <2>1 DEF PollsLeft
  <2> QED
    BY <1>1, <1>2, <1>3, <2>1, <2>2, <2>3
<1>4. CASE polls'[t] = polls[t]
  BY <1>2, <1>4, PollUntouched
<1>5. t # create.id => polls'[t] = polls[t]
  BY DEF IInv, TypeOK, Submitted, PollReceipt, polling
<1> QED
  BY <1>3, <1>4, <1>5

\* No other step sets a timer or makes an answered transfer an unanswered one.
LEMMA PollElsewhere ==
  ASSUME IInv, PollInv, [Next]_vars, ~Submitted,
         ~(\E u \in Transfer : PollStep(u) \/ PollFails(u)), NEW t \in Transfer
  PROVE  /\ polls'[t] = polls[t] \/ polls'[t] = NoPoll
         /\ Unanswered(t)' => Unanswered(t)
<1>1. CASE Submit
  <2>1. create.at # "committed" /\ create'.at # "committed" /\ transfers' = transfers
    BY <1>1 DEF IInv, CreateInv, Submit, CanSubmit
  <2> QED
    BY <1>1, <2>1 DEF Submit, ClearPollTimer, Unanswered
<1>2. CASE Unmount
  BY <1>2 DEF Unmount, ClearPollTimer, Unanswered
<1>3. CASE CommitTransfer
  <2>1. Len(transfers') = Len(transfers) + 1 /\ Len(transfers) \in Nat
    BY <1>3 DEF IInv, TypeOK, CommitTransfer, Status
  <2>2. polls' = polls /\ create'.id = Len(transfers) + 1
    BY <1>3 DEF IInv, TypeOK, CommitTransfer, polling
  <2> QED
    BY <2>1, <2>2 DEF Unanswered, Transfer
<1>4. CASE SubmitFails
  BY <1>4 DEF SubmitFails, polling, NoCreate, Unanswered
<1>5. CASE \E u \in Transfer : ResolveReceipt(u)
  <2>1. Len(transfers') = Len(transfers) /\ polls' = polls /\ create' = create
    BY <1>5 DEF IInv, TypeOK, ResolveReceipt, polling
  <2> QED
    BY <2>1 DEF Unanswered
<1>6. CASE UNCHANGED <<polls, create, transfers>>
  BY <1>6 DEF Unanswered
<1>7. UNCHANGED vars => UNCHANGED <<polls, create, transfers>>
  BY DEF vars, polling
<1>8. (\E n \in Name \union {NoName} : TypeName(n)) \/ FillAmount
         \/ (\E l \in Lookup : LookupStep(l)) => UNCHANGED <<polls, create, transfers>>
  BY DEF TypeName, FillAmount, LookupStep, StartLookup, FinishLookup, polling
<1> QED
  BY <1>1, <1>2, <1>3, <1>4, <1>5, <1>6, <1>7, <1>8 DEF Next

LEMMA PollStepInvariant == IInv /\ PollInv /\ [Next]_vars => PollInv' /\ [PollsShorten]_vars
<1> SUFFICES ASSUME IInv, PollInv, [Next]_vars PROVE PollInv' /\ [PollsShorten]_vars
  OBVIOUS
<1>1. \A t \in Transfer : /\ polls'[t].attempt <= PollLimit
                          /\ Unanswered(t)' => polls'[t].at = "none"
                          /\ PollsLeft(t)' <= PollsLeft(t)
                          /\ PollStep(t) \/ PollFails(t) => PollsLeft(t)' < PollsLeft(t)
  <2> TAKE t \in Transfer
  <2>1. CASE PollStep(t) \/ PollFails(t)
    BY <2>1, PollOwnStep
  <2>2. CASE ~(PollStep(t) \/ PollFails(t)) /\ Submitted
    BY <2>2, PollSubmitted
  <2>3. CASE ~(PollStep(t) \/ PollFails(t)) /\ \E u \in Transfer : PollStep(u) \/ PollFails(u)
    <3> PICK u \in Transfer : PollStep(u) \/ PollFails(u)
      BY <2>3
    <3>1. polls'[t] = polls[t]
      BY <2>3, PollOthers
    <3>2. Unanswered(t)' = Unanswered(t)
      BY DEF Unanswered, PollStep, SendPoll, FinishPoll, PollFails
    <3> QED
      BY <2>3, <3>1, <3>2, PollUntouched
  <2>4. CASE ~Submitted /\ ~(\E u \in Transfer : PollStep(u) \/ PollFails(u))
    BY <2>4, PollElsewhere, PollUntouched
  <2> QED
    BY <2>1, <2>2, <2>3, <2>4
<1>2. Transfer' = Transfer
  BY DEF Transfer
<1> QED
  BY <1>1, <1>2 DEF PollInv, PollsShorten

\* However often the form is used, each transfer's receipt is asked for a bounded
\* number of times, a poll for every attempt up to RECEIPT_POLL_LIMIT and no more:
\* what is left to do for it is at most 2 * PollLimit + 3, falls with every timer
\* that fires and every poll that ends, and never rises (TransferForm.vue:75).
THEOREM PollsShortenTheorem ==
  Spec => /\ [](\A t \in Transfer : PollsLeft(t) \in 0 .. 2 * PollLimit + 3)
          /\ [][PollsShorten]_vars
<1>1. IInv /\ PollInv => \A t \in Transfer : PollsLeft(t) \in 0 .. 2 * PollLimit + 3
  BY PollsLeftBounds
<1> QED
  BY <1>1, PollInit, PollStepInvariant, Invariant, PTL DEF Spec
=============================================================================
