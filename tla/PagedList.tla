----------------------------- MODULE PagedList ------------------------------
(***************************************************************************)
(* A list in the browser, one page of it at a time (usePagedResource): its *)
(* loads overlap, fail and answer in any order, and a timer refreshes it   *)
(* while a receipt on the page is PENDING.  A page is reduced to its       *)
(* number and the status of one receipt on it.                             *)
(*                                                                         *)
(* refreshTimer remembers one timer only.  A timer that a second load of   *)
(* an overlapping pair replaces there still fires, and nobody can clear it.*)
(***************************************************************************)
EXTENDS Naturals, FiniteSets

CONSTANTS Pages,         \* totalPages, which stays what it is
          Load,          \* bound: loads in flight at once
          MaxActivity,   \* bound: loads that the user or the socket asks for
          MaxFaults      \* bound: loads that fail

ASSUME PagedListAssumption ==
    Pages \in Nat \ {0} /\ MaxActivity \in Nat /\ MaxFaults \in Nat

VARIABLES
    receipt,   \* receipt_status in the database, of the one receipt of each page
    fetch,     \* each load in flight: "sent", or the status it is answered with
    wants,     \* the page each load in flight asks for
    page,      \* pagination.page
    items,     \* what the page shows
    error, loading, mounted,
    armed,     \* whether the timer in refreshTimer is pending
    orphans,   \* the pending timers that refreshTimer forgot
    clicked,   \* history: the page of a click that nothing has come across, or 0
    activity, faults

asked == <<fetch, wants>>
shown == <<page, items, error, loading>>
timers == <<armed, orphans>>
vars == <<receipt, asked, shown, mounted, timers, clicked, activity, faults>>

Page == 1 .. Pages
Status == {"PENDING", "GENERATED", "FAILED"}
InFlight == {l \in Load : fetch[l] # "idle"}

\* The page is mounted and load(1) is on its way.
Init ==
    /\ receipt \in [Page -> {"PENDING", "GENERATED"}]
    /\ \E l \in Load : fetch = [k \in Load |-> IF k = l THEN "sent" ELSE "idle"]
    /\ wants = [l \in Load |-> 1]
    /\ page = 1 /\ items = "none" /\ error = FALSE /\ loading = TRUE /\ mounted = TRUE
    /\ armed = FALSE /\ orphans = 0
    /\ clicked = 0 /\ activity = 0 /\ faults = 0

\* The worker finishes the receipt of page p.
Resolve(p) ==
    /\ receipt[p] = "PENDING"
    /\ \E status \in {"GENERATED", "FAILED"} : receipt' = [receipt EXCEPT ![p] = status]
    /\ UNCHANGED <<asked, shown, mounted, timers, clicked, activity, faults>>

\* load(p), up to its await, when the timer in refreshTimer was left there.
StartAsking(l, p) ==
    /\ fetch[l] = "idle"
    /\ fetch' = [fetch EXCEPT ![l] = "sent"]
    /\ wants' = [wants EXCEPT ![l] = p]
    /\ loading' = TRUE /\ error' = FALSE
    /\ UNCHANGED <<page, items>>

\* Mutant of StartLoad: the timer is cleared by a refresh only.
StartLoadTimed(l, p) == StartAsking(l, p) /\ armed' = (armed /\ p # page)

\* load(p), up to its await.
StartLoad(l, p) == StartAsking(l, p) /\ armed' = FALSE

\* wallet.activityVersion moves: a transfer made or received.
Activity(l) ==
    /\ mounted
    /\ activity < MaxActivity
    /\ activity' = activity + 1
    /\ StartLoad(l, page)
    /\ clicked' = 0
    /\ UNCHANGED <<receipt, mounted, orphans, faults>>

\* The Refresh button, disabled while loading.
ClickRefresh(l) ==
    /\ mounted /\ ~ loading
    /\ activity < MaxActivity
    /\ activity' = activity + 1
    /\ StartLoad(l, page)
    /\ clicked' = 0
    /\ UNCHANGED <<receipt, mounted, orphans, faults>>

\* Previous and Next, which are there while a list is shown and are not
\* disabled while it loads.
ClickPage(l, p) ==
    /\ mounted /\ ~ error /\ items # "none"
    /\ p \in Page \intersect {page - 1, page + 1}
    /\ activity < MaxActivity
    /\ activity' = activity + 1
    /\ StartLoad(l, p)
    /\ clicked' = IF InFlight = {} /\ orphans = 0 THEN p ELSE 0
    /\ UNCHANGED <<receipt, mounted, orphans, faults>>

\* Mutant of TimerFires: setInterval for setTimeout.
TimerFiresAgain(l) ==
    /\ armed \/ orphans > 0
    /\ StartLoad(l, page)
    /\ UNCHANGED <<receipt, mounted, orphans, clicked, activity, faults>>

\* A refresh timer fires.
TimerFires(l) ==
    /\ \/ armed /\ UNCHANGED orphans
       \/ orphans > 0 /\ orphans' = orphans - 1
    /\ StartLoad(l, page)
    /\ UNCHANGED <<receipt, mounted, clicked, activity, faults>>

\* The API reads the list.
Answer(l) ==
    /\ fetch[l] = "sent"
    /\ fetch' = [fetch EXCEPT ![l] = receipt[wants[l]]]
    /\ UNCHANGED <<receipt, wants, shown, mounted, timers, clicked, activity, faults>>

NeedsRefresh(status) == status = "PENDING"

\* refreshTimer = setTimeout(...).
SetTimer == /\ armed' = TRUE
            /\ orphans' = IF armed THEN orphans + 1 ELSE orphans

\* load, after its await.
Receive(l) ==
    /\ fetch[l] \in Status
    /\ fetch' = [fetch EXCEPT ![l] = "idle"]
    /\ items' = fetch[l]
    /\ page' = wants[l]
    /\ loading' = FALSE
    /\ IF NeedsRefresh(fetch[l]) THEN SetTimer ELSE UNCHANGED timers
    /\ UNCHANGED <<receipt, wants, error, mounted, clicked, activity, faults>>

\* Mutant of LoadFails: the error is logged instead of shown.
LoadFailsUnseen(l) ==
    /\ fetch[l] # "idle"
    /\ faults < MaxFaults
    /\ faults' = faults + 1
    /\ fetch' = [fetch EXCEPT ![l] = "idle"]
    /\ loading' = FALSE
    /\ UNCHANGED <<receipt, wants, page, items, error, mounted, timers, clicked, activity>>

LoadFails(l) ==
    /\ fetch[l] # "idle"
    /\ faults < MaxFaults
    /\ faults' = faults + 1
    /\ fetch' = [fetch EXCEPT ![l] = "idle"]
    /\ error' = TRUE /\ loading' = FALSE
    /\ UNCHANGED <<receipt, wants, page, items, mounted, timers, clicked, activity>>

\* The page is left: only the timer in refreshTimer is cleared.
Unmount ==
    /\ mounted
    /\ mounted' = FALSE
    /\ armed' = FALSE
    /\ UNCHANGED <<receipt, asked, shown, orphans, clicked, activity, faults>>

Settle(l) == Answer(l) \/ Receive(l)

Next ==
    \/ \E p \in Page : Resolve(p)
    \/ \E l \in Load : \/ Activity(l)
                       \/ ClickRefresh(l)
                       \/ \E p \in Page : ClickPage(l, p)
                       \/ TimerFires(l)
                       \/ Settle(l)
                       \/ LoadFails(l)
    \/ Unmount

Spec == Init /\ [][Next]_vars

\* Timers fire and fetches settle, and the worker finishes every receipt
\* (ReceiptPipeline).  No failure, no click and no navigation is owed.
FairSpec ==
    /\ Spec
    /\ \A p \in Page : WF_vars(Resolve(p))
    /\ WF_vars(\E l \in Load : TimerFires(l))
    /\ \A l \in Load : WF_vars(Settle(l))

-----------------------------------------------------------------------------
(* Properties.                                                              *)

Quiet == InFlight = {} /\ ~ armed /\ orphans = 0

\* Overlapping loads never multiply the refreshing: the loads in flight and
\* the timers pending together are at most one for the page and one for each
\* load asked for.
RefreshesAreBounded ==
    Cardinality(InFlight) + orphans + (IF armed THEN 1 ELSE 0) <= 1 + activity

\* While the page shows a PENDING receipt and no error, a refresh is under
\* way or coming, whichever of the overlapping loads answered last and
\* whichever cleared the other's timer.
PendingIsRefreshed ==
    mounted /\ items = "PENDING" /\ ~ error => ~ Quiet

\* Refreshing does not turn the page back: a page that was clicked while no load
\* was under way, and that no later click or transfer came across, is the one
\* shown when its load is over, unless that failed.
ClickedPageIsShown == clicked # 0 /\ InFlight = {} /\ ~ error => page = clicked

\* The download link appears: a PENDING receipt on the page is eventually
\* shown as what became of it, unless a load failed or the page was left.
LinkAppears ==
    items = "PENDING" ~> items \in {"GENERATED", "FAILED"} \/ error \/ ~ mounted

=============================================================================
