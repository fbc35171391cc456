---------------------------- MODULE TransferForm ----------------------------
(***************************************************************************)
(* The transfer form of the dashboard (TransferForm.vue): the debounced    *)
(* lookup of the recipient, the submit and the polling of the receipt,     *)
(* with answers that come late, in any order or not at all.                *)
(*                                                                         *)
(* An amount is reduced to whether one that can be sent is filled in.      *)
(* Transfers are numbered in the order of their commits.                   *)
(***************************************************************************)
EXTENDS Integers, Sequences

CONSTANTS Name, Known,  \* usernames that are typed, and those that exist
          Self, NoName, \* the user's own, and the empty field
          Lookup,       \* bound: lookups in flight at once
          PollLimit,    \* RECEIPT_POLL_LIMIT
          MaxTyped,     \* bound: names typed
          MaxFaults     \* bound: requests that fail or are refused

ASSUME FormAssumption ==
    /\ Known \subseteq Name /\ Self \in Name /\ NoName \notin Name
    /\ PollLimit \in Nat /\ MaxTyped \in Nat /\ MaxFaults \in Nat

VARIABLES
    username, recipient, lookupTimer,
    lookupError,  \* the name the error under the field was written for
    lookups,    \* the name each lookup in flight asks for
    amount, submitting,
    create,     \* the POST in flight: where it is, its recipient and transfer
    transfers,  \* the API's: the receipt_status of each transfer committed
    result,     \* the transfer shown as done, 0 for none
    card,       \* the receipt status shown with it
    polls,      \* the polling of each transfer's receipt
    pollTimer,  \* the transfer whose poll timer was set last
    mounted, typed,
    late,       \* history: the error was written by a lookup of another name
    told,       \* history: the submits that the user was told had failed
    cut,        \* history: the transfers whose poll timer a submit cleared
    faults

field == <<username, recipient, lookupTimer, lookupError, lookups, late>>
shown == <<result, card>>
polling == <<polls, pollTimer>>
vars == <<field, amount, submitting, create, transfers, shown, polling, mounted, typed, told, cut, faults>>

Transfer == 1 .. MaxTyped + MaxFaults
NoCreate == [at |-> "none", to |-> NoName, id |-> 0]
NoPoll == [at |-> "none", attempt |-> 0]

Init ==
    /\ username = NoName /\ recipient = NoName /\ lookupTimer = FALSE
    /\ lookupError = NoName /\ late = FALSE
    /\ lookups = [l \in Lookup |-> NoName]
    /\ amount = FALSE /\ submitting = FALSE /\ create = NoCreate
    /\ transfers = <<>> /\ result = 0 /\ card = "none"
    /\ polls = [t \in Transfer |-> NoPoll] /\ pollTimer = 0
    /\ mounted = TRUE /\ typed = 0 /\ told = 0 /\ cut = {} /\ faults = 0

Fault == faults < MaxFaults /\ faults' = faults + 1

-----------------------------------------------------------------------------
(* The recipient.                                                           *)

\* The watch of username, when it changes to n.  It goes with the form.
WatchUsername(n) ==
    /\ username' = n
    /\ IF n = username \/ ~mounted THEN UNCHANGED <<recipient, lookupError, late, lookupTimer>>
       ELSE /\ recipient' = NoName /\ lookupError' = NoName /\ late' = FALSE
            /\ lookupTimer' = TRUE

TypeName(n) ==
    /\ mounted /\ n # username
    /\ typed < MaxTyped
    /\ typed' = typed + 1
    /\ WatchUsername(n)
    /\ UNCHANGED <<lookups, amount, submitting, create, transfers, shown, polling, mounted, told, cut, faults>>

\* Mutant of StartLookup: one at a time.
StartLookupAlone(l) ==
    /\ lookupTimer
    /\ lookups[l] = NoName
    /\ lookupTimer' = FALSE
    /\ recipient' = NoName
    /\ lookupError' = IF username = Self THEN Self ELSE NoName
    /\ late' = FALSE
    /\ IF username \in {NoName, Self} \/ (\E k \in Lookup : lookups[k] # NoName)
       THEN UNCHANGED lookups
       ELSE lookups' = [lookups EXCEPT ![l] = username]
    /\ UNCHANGED <<username, amount, submitting, create, transfers, shown, polling, mounted, typed, told, cut, faults>>

\* lookup, up to its await.
StartLookup(l) ==
    /\ lookupTimer
    /\ lookups[l] = NoName
    /\ lookupTimer' = FALSE
    /\ recipient' = NoName
    /\ lookupError' = IF username = Self THEN Self ELSE NoName
    /\ late' = FALSE
    /\ IF username \in {NoName, Self}
       THEN UNCHANGED lookups
       ELSE lookups' = [lookups EXCEPT ![l] = username]
    /\ UNCHANGED <<username, amount, submitting, create, transfers, shown, polling, mounted, typed, told, cut, faults>>

\* Mutant of StillNamed: whatever is in the field by now.
NamedOnce(n) == TRUE

StillNamed(n) == username = n

\* lookup, after its await: a user of that name, or an error, a 404 among them.
\* The error is written whatever is in the field by now.
FinishLookup(l) ==
    /\ lookups[l] # NoName
    /\ lookups' = [lookups EXCEPT ![l] = NoName]
    /\ \/ /\ lookups[l] \in Known
          /\ recipient' = IF StillNamed(lookups[l]) THEN lookups[l] ELSE recipient
          /\ UNCHANGED <<lookupError, late, faults>>
       \/ /\ IF lookups[l] \in Known THEN Fault ELSE UNCHANGED faults
          /\ lookupError' = lookups[l]
          /\ late' = ~StillNamed(lookups[l])
          /\ UNCHANGED recipient
    /\ UNCHANGED <<username, lookupTimer, amount, submitting, create, transfers, shown, polling,
                   mounted, typed, told, cut>>

-----------------------------------------------------------------------------
(* The submit.                                                              *)

FillAmount ==
    /\ mounted
    /\ amount' = TRUE
    /\ UNCHANGED <<field, submitting, create, transfers, shown, polling, mounted, typed, told, cut, faults>>

\* Mutant of CanSubmit: the button is not disabled while submitting.
CanSubmitAgain == recipient # NoName /\ amount

CanSubmit == recipient # NoName /\ amount /\ ~ submitting

\* clearTimeout(pollTimer), of use only while that timer is pending.
ClearPollTimer ==
    polls' = [t \in Transfer |->
                IF t = pollTimer /\ polls[t].at = "timer" THEN NoPoll ELSE polls[t]]

Submit ==
    /\ mounted
    /\ CanSubmit
    /\ submitting' = TRUE
    /\ create' = [at |-> "sent", to |-> recipient, id |-> 0]
    /\ ClearPollTimer
    /\ cut' = cut \union {t \in Transfer : polls'[t] # polls[t]}
    /\ UNCHANGED <<field, amount, transfers, shown, pollTimer, mounted, typed, told, faults>>

\* The API commits the transfer.
CommitTransfer ==
    /\ create.at = "sent"
    /\ Len(transfers) < MaxTyped + MaxFaults
    /\ \E status \in {"PENDING", "NOT_REQUIRED"} : transfers' = Append(transfers, status)
    /\ create' = [create EXCEPT !.at = "committed", !.id = Len(transfers) + 1]
    /\ UNCHANGED <<field, amount, submitting, shown, polling, mounted, typed, told, cut, faults>>

\* pollReceipt: a timer, remembered in pollTimer.
PollReceipt(t, attempt) ==
    /\ polls' = [polls EXCEPT ![t] = [at |-> "timer", attempt |-> attempt]]
    /\ pollTimer' = t

ClearForm == WatchUsername(NoName) /\ amount' = FALSE

\* The answer of the POST.  The API read it before it queued the receipt, so
\* a receipt that is required is still PENDING in it.
Submitted ==
    /\ create.at = "committed"
    /\ create' = NoCreate
    /\ submitting' = FALSE
    /\ result' = create.id
    /\ IF transfers[create.id] = "NOT_REQUIRED"
       THEN card' = "NOT_REQUIRED" /\ UNCHANGED polling
       ELSE card' = "PENDING" /\ PollReceipt(create.id, 0)
    /\ ClearForm
    /\ UNCHANGED <<lookups, transfers, mounted, typed, told, cut, faults>>

\* The transfer is refused, or its answer is lost: the form stays filled in.
SubmitFails ==
    /\ create.at # "none"
    /\ Fault
    /\ create' = NoCreate
    /\ submitting' = FALSE
    /\ told' = told + 1
    /\ UNCHANGED <<field, amount, transfers, shown, polling, mounted, typed, cut>>

-----------------------------------------------------------------------------
(* The receipt.                                                             *)

\* The worker finishes the receipt of a transfer.
ResolveReceipt(t) ==
    /\ t \in DOMAIN transfers /\ transfers[t] = "PENDING"
    /\ \E status \in {"GENERATED", "FAILED"} : transfers' = [transfers EXCEPT ![t] = status]
    /\ UNCHANGED <<field, amount, submitting, create, shown, polling, mounted, typed, told, cut, faults>>

SendPoll(t) ==
    /\ polls[t].at = "timer"
    /\ polls' = [polls EXCEPT ![t].at = "sent"]
    /\ UNCHANGED <<field, amount, submitting, create, transfers, shown, pollTimer, mounted, typed, told, cut, faults>>

\* Mutant of PollAgain: the attempts are not counted.
PollAgainForever(t) == PollReceipt(t, polls[t].attempt)

PollAgain(t) ==
    IF polls[t].attempt < PollLimit
    THEN PollReceipt(t, polls[t].attempt + 1)
    ELSE polls' = [polls EXCEPT ![t].at = "over"] /\ UNCHANGED pollTimer

\* Mutant of StillShown: the answer is shown whatever is shown by now.
ShownOnce(t) == TRUE

StillShown(t) == result = t

\* The answer of a poll, read by the API just before.
FinishPoll(t) ==
    /\ polls[t].at = "sent"
    /\ IF StillShown(t) THEN result' = t /\ card' = transfers[t] ELSE UNCHANGED shown
    /\ IF StillShown(t) /\ transfers[t] = "PENDING"
       THEN PollAgain(t)
       ELSE polls' = [polls EXCEPT ![t] = NoPoll] /\ UNCHANGED pollTimer
    /\ UNCHANGED <<field, amount, submitting, create, transfers, mounted, typed, told, cut, faults>>

\* Mutant of PollFails: the timer is set again after an answer only.
PollFailsForGood(t) ==
    /\ polls[t].at = "sent"
    /\ Fault
    /\ polls' = [polls EXCEPT ![t] = NoPoll]
    /\ UNCHANGED <<field, amount, submitting, create, transfers, shown, pollTimer, mounted, typed, told, cut>>

\* A poll that fails is tried again, whatever is shown by now.
PollFails(t) ==
    /\ polls[t].at = "sent"
    /\ Fault
    /\ PollAgain(t)
    /\ UNCHANGED <<field, amount, submitting, create, transfers, shown, mounted, typed, told, cut>>

Unmount ==
    /\ mounted
    /\ mounted' = FALSE
    /\ lookupTimer' = FALSE
    /\ ClearPollTimer
    /\ UNCHANGED <<username, recipient, lookupError, lookups, late, amount, submitting, create,
                   transfers, shown, pollTimer, typed, told, cut, faults>>

-----------------------------------------------------------------------------
LookupStep(l) == StartLookup(l) \/ FinishLookup(l)
PollStep(t) == SendPoll(t) \/ FinishPoll(t)

Next ==
    \/ \E n \in Name \union {NoName} : TypeName(n)
    \/ \E l \in Lookup : LookupStep(l)
    \/ FillAmount \/ Submit \/ CommitTransfer \/ Submitted \/ SubmitFails
    \/ \E t \in Transfer : ResolveReceipt(t) \/ PollStep(t) \/ PollFails(t)
    \/ Unmount

Spec == Init /\ [][Next]_vars

\* Timers fire and polls settle.  The user, the worker and failures owe
\* nothing.
FairSpec == Spec /\ \A t \in Transfer : WF_vars(PollStep(t))

-----------------------------------------------------------------------------
(* Properties.                                                              *)

\* Money goes to the name in the field, and never to oneself: a recipient
\* that is set is the one the field names now, whatever lookups of earlier
\* names are still answered.
RecipientIsNamed == mounted /\ recipient # NoName => recipient = username /\ recipient # Self

\* A name in the field does not stay unexplained: once no lookup of it is coming
\* or under way, whatever lookups of other names still are, what the form shows under
\* it is its recipient, or an error about it and no other name.  The exception is an error
\* that a lookup of another name wrote since (late): it is written without a look
\* at the field, and shown first.
Hint == IF lookupError # NoName THEN lookupError ELSE recipient
FieldIsExplained ==
    mounted /\ username # NoName /\ ~lookupTimer /\ (\A l \in Lookup : lookups[l] # username)
       => Hint = username \/ late

\* A receipt shown as PENDING is polled for until the attempts have run out,
\* through polls that fail and polls of older transfers.  The exception is a
\* transfer whose timer a submit cleared: when that submit is refused, the badge
\* stays PENDING for good.
CardIsPolled ==
    mounted /\ card = "PENDING" /\ result \notin cut => polls[result].at # "none"

\* One filled-in form makes one transfer: a second one is only made after
\* the user typed a name again or was told of a failure, however often the
\* button is pressed while the first is under way.
NoDoubleSend == Len(transfers) <= typed + told

\* What is shown as done is the latest transfer, whichever polls of older
\* ones are answered late.
ResultIsLatest == [][result' >= result]_vars

\* Polling ends, even for a receipt that is never finished, a form that was
\* left or a newer transfer.
PollsEnd == \A t \in Transfer : polls[t].at # "none" ~> polls[t].at \in {"none", "over"}
=============================================================================
