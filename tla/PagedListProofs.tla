-------------------------- MODULE PagedListProofs ---------------------------
(***************************************************************************)
(* Proofs about PagedList, for any numbers of pages, loads in flight and   *)
(* failures.                                                               *)
(***************************************************************************)
EXTENDS PagedList, FiniteSetTheorems, TLAPS

TypeOK ==
    /\ receipt \in [Page -> Status]
    /\ fetch \in [Load -> Status \union {"idle", "sent"}]
    /\ wants \in [Load -> Page]
    /\ page \in Page /\ items \in Status \union {"none"}
    /\ error \in BOOLEAN /\ loading \in BOOLEAN /\ mounted \in BOOLEAN
    /\ armed \in BOOLEAN /\ orphans \in Nat
    /\ clicked \in Page \union {0} /\ activity \in Nat

BoundInv == IsFiniteSet(InFlight) /\ RefreshesAreBounded

\* After a click nothing has come across there is one load at a time, of the
\* page clicked, and no timer beside it; a timer that is set later refreshes the
\* page shown, which is that page.
ClickInv ==
    clicked # 0 =>
        /\ orphans = 0
        /\ \A l \in InFlight : wants[l] = clicked /\ ~armed
        /\ \A l, k \in InFlight : l = k
        /\ InFlight = {} /\ (armed \/ ~error) => page = clicked

IInv == TypeOK /\ BoundInv /\ PendingIsRefreshed /\ ClickInv

LEMMA InitInvariant == Init => IInv
<1> SUFFICES ASSUME Init PROVE IInv
  OBVIOUS
<1> PICK l \in Load : fetch = [k \in Load |-> IF k = l THEN "sent" ELSE "idle"]
  BY DEF Init
<1>1. InFlight = {l}
  BY DEF InFlight
<1>2. IsFiniteSet(InFlight) /\ Cardinality(InFlight) = 1
  BY <1>1, FS_Singleton
<1>3. 1 \in Page
  BY PagedListAssumption DEF Page
<1>4. TypeOK
  BY <1>3 DEF Init, TypeOK, Status
<1> QED
  BY <1>2, <1>4 DEF Init, IInv, BoundInv, RefreshesAreBounded, PendingIsRefreshed, ClickInv

-----------------------------------------------------------------------------
(* A load that starts adds one to those in flight, and one that ends takes  *)
(* it away.                                                                 *)

Started(l, p) ==
    /\ fetch' \in [Load -> Status \union {"idle", "sent"}]
    /\ wants' = [wants EXCEPT ![l] = p] /\ wants' \in [Load -> Page]
    /\ l \notin InFlight /\ InFlight' = InFlight \union {l}
    /\ IsFiniteSet(InFlight')
    /\ Cardinality(InFlight) \in Nat
    /\ Cardinality(InFlight') = Cardinality(InFlight) + 1
    /\ loading' = TRUE /\ error' = FALSE /\ armed' = FALSE
    /\ UNCHANGED <<page, items>>

LEMMA LoadStarts ==
  ASSUME TypeOK, BoundInv, NEW l \in Load, NEW p \in Page, StartLoad(l, p)
  PROVE  Started(l, p)
<1>1. InFlight' = InFlight \union {l} /\ l \notin InFlight
  BY DEF TypeOK, StartLoad, StartAsking, InFlight
<1>2. IsFiniteSet(InFlight') /\ Cardinality(InFlight') = Cardinality(InFlight) + 1
  BY <1>1, FS_AddElement DEF BoundInv
<1>3. Cardinality(InFlight) \in Nat
  BY FS_CardinalityType DEF BoundInv
<1> QED
  BY <1>1, <1>2, <1>3 DEF TypeOK, StartLoad, StartAsking, Started

Ended(l) ==
    /\ fetch' \in [Load -> Status \union {"idle", "sent"}]
    /\ l \in InFlight /\ InFlight' = InFlight \ {l}
    /\ IsFiniteSet(InFlight')
    /\ Cardinality(InFlight) \in Nat
    /\ Cardinality(InFlight') = Cardinality(InFlight) - 1

LEMMA LoadEnds ==
  ASSUME TypeOK, BoundInv, NEW l \in Load, fetch[l] # "idle",
         fetch' = [fetch EXCEPT ![l] = "idle"]
  PROVE  Ended(l)
<1>1. InFlight' = InFlight \ {l} /\ l \in InFlight
  BY DEF TypeOK, InFlight
<1>2. IsFiniteSet(InFlight') /\ Cardinality(InFlight') = Cardinality(InFlight) - 1
  BY <1>1, FS_RemoveElement DEF BoundInv
<1>3. Cardinality(InFlight) \in Nat
  BY FS_CardinalityType DEF BoundInv
<1> QED
  BY <1>1, <1>2, <1>3 DEF TypeOK, Ended

-----------------------------------------------------------------------------
(* The steps.                                                               *)

\* A load the user or the socket asks for.
LEMMA AskedInvariant ==
  ASSUME IInv, NEW l \in Load, NEW p \in Page, StartLoad(l, p),
         activity' = activity + 1,
         clicked' \in {0, p}, clicked' # 0 => InFlight = {} /\ orphans = 0,
         UNCHANGED <<receipt, mounted, orphans>>
  PROVE  IInv'
<1> USE DEF IInv
<1>1. Started(l, p)
  BY LoadStarts
<1>2. TypeOK'
  <2>1. activity' \in Nat /\ clicked' \in Page \union {0}
    BY DEF TypeOK
  <2>2. loading' \in BOOLEAN /\ error' \in BOOLEAN /\ armed' \in BOOLEAN
    BY <1>1 DEF Started
  <2> QED
    BY <1>1, <2>1, <2>2 DEF TypeOK, Started
<1>3. BoundInv'
  BY <1>1 DEF TypeOK, BoundInv, RefreshesAreBounded, Started
<1>4. PendingIsRefreshed'
  BY <1>1 DEF PendingIsRefreshed, Quiet, Started
<1>5. ClickInv'
  <2> SUFFICES ASSUME clicked' # 0
               PROVE  ClickInv'
    BY DEF ClickInv
  <2>1. clicked' = p /\ InFlight' = {l} /\ orphans' = 0 /\ wants'[l] = p
    BY <1>1 DEF TypeOK, Started
  <2> QED
    BY <1>1, <2>1 DEF ClickInv, Started
<1> QED
  BY <1>2, <1>3, <1>4, <1>5

LEMMA TimerInvariant ==
  ASSUME IInv, NEW l \in Load, TimerFires(l)
  PROVE  IInv'
<1> USE DEF IInv
<1>1. Started(l, page)
  BY LoadStarts DEF TypeOK, TimerFires
<1>2. /\ orphans' \in Nat
      /\ \/ armed /\ orphans' = orphans
         \/ orphans > 0 /\ orphans' = orphans - 1
  BY DEF TypeOK, TimerFires
<1>3. UNCHANGED <<receipt, mounted, clicked, activity>>
  BY DEF TimerFires
<1>4. TypeOK'
  BY <1>1, <1>2, <1>3 DEF TypeOK, Started
<1>5. BoundInv'
  BY <1>1, <1>2, <1>3 DEF TypeOK, BoundInv, RefreshesAreBounded, Started
<1>6. PendingIsRefreshed'
  BY <1>1 DEF PendingIsRefreshed, Quiet, Started
<1>7. ClickInv'
  <2> SUFFICES ASSUME clicked # 0
               PROVE  ClickInv'
    BY <1>3 DEF ClickInv
  <2>1. armed /\ InFlight = {} /\ orphans' = 0 /\ page = clicked
    BY <1>2 DEF ClickInv, TypeOK
  <2>2. InFlight' = {l} /\ wants'[l] = clicked
    BY <1>1, <2>1 DEF TypeOK, Started
  <2> QED
    BY <1>1, <1>3, <2>1, <2>2 DEF ClickInv, Started
<1> QED
  BY <1>4, <1>5, <1>6, <1>7

LEMMA ReceiveInvariant ==
  ASSUME IInv, NEW l \in Load, Receive(l)
  PROVE  IInv'
<1> USE DEF IInv
<1>1. fetch[l] \in Status /\ fetch[l] # "idle" /\ fetch' = [fetch EXCEPT ![l] = "idle"]
  BY DEF Receive, Status
<1>2. \/ fetch[l] # "PENDING" /\ UNCHANGED timers
      \/ fetch[l] = "PENDING" /\ SetTimer
  BY DEF Receive, NeedsRefresh
<1>0. Ended(l)
  BY <1>1, LoadEnds
<1>3. TypeOK'
  <2>1. orphans' \in Nat /\ armed' \in BOOLEAN
    <3>1. CASE UNCHANGED timers
      BY <3>1 DEF TypeOK, timers
    <3>2. CASE SetTimer /\ armed
      BY <3>2 DEF TypeOK, SetTimer
    <3>3. CASE SetTimer /\ ~armed
      BY <3>3 DEF TypeOK, SetTimer
    <3> QED
      BY <1>2, <3>1, <3>2, <3>3
  <2>2. items' \in Status /\ page' \in Page
    BY <1>1 DEF TypeOK, Receive
  <2> QED
    BY <1>0, <2>1, <2>2 DEF TypeOK, Receive, Ended
<1>4. BoundInv'
  <2>1. CASE UNCHANGED timers
    BY <1>0, <2>1 DEF TypeOK, BoundInv, RefreshesAreBounded, Receive, timers, Ended
  <2>2. CASE SetTimer
    BY <1>0, <2>2 DEF TypeOK, BoundInv, RefreshesAreBounded, Receive, SetTimer, Ended
  <2> QED
    BY <1>2, <2>1, <2>2
<1>5. PendingIsRefreshed'
  BY <1>1, <1>2 DEF PendingIsRefreshed, Quiet, Receive, SetTimer
<1>6. ClickInv'
  <2> SUFFICES ASSUME clicked # 0
               PROVE  ClickInv'
    BY DEF ClickInv, Receive
  <2>1. InFlight' = {} /\ ~armed /\ orphans = 0 /\ page' = clicked
    BY <1>0 DEF ClickInv, Receive, Ended
  <2>2. orphans' = 0
    BY <1>2, <2>1 DEF SetTimer, timers
  <2> QED
    BY <2>1, <2>2 DEF ClickInv, Receive
<1> QED
  BY <1>3, <1>4, <1>5, <1>6

LEMMA LoadFailsInvariant ==
  ASSUME IInv, NEW l \in Load, LoadFails(l)
  PROVE  IInv'
<1> USE DEF IInv
<1>0. Ended(l)
  BY LoadEnds DEF LoadFails
<1>1. TypeOK'
  BY <1>0 DEF TypeOK, LoadFails, timers, Ended
<1>2. BoundInv'
  BY <1>0 DEF TypeOK, BoundInv, RefreshesAreBounded, LoadFails, timers, Ended
<1>3. PendingIsRefreshed'
  BY DEF PendingIsRefreshed, LoadFails
<1>4. ClickInv'
  BY <1>0 DEF ClickInv, LoadFails, timers, Ended
<1> QED
  BY <1>1, <1>2, <1>3, <1>4

LEMMA AnswerInvariant ==
  ASSUME IInv, NEW l \in Load, Answer(l)
  PROVE  IInv'
<1> USE DEF IInv
<1>1. fetch' \in [Load -> Status \union {"idle", "sent"}]
  BY DEF TypeOK, Answer
<1>2. receipt[wants[l]] # "idle"
  BY DEF TypeOK, Status
<1>3. InFlight' = InFlight
  BY <1>2 DEF TypeOK, Answer, InFlight
<1>4. TypeOK'
  BY <1>1 DEF TypeOK, Answer, shown, timers
<1>5. BoundInv' /\ PendingIsRefreshed' /\ ClickInv'
  BY <1>3 DEF BoundInv, RefreshesAreBounded, PendingIsRefreshed, Quiet, ClickInv, Answer, shown, timers
<1> QED
  BY <1>4, <1>5

LEMMA UnmountInvariant ==
  ASSUME IInv, Unmount
  PROVE  IInv'
<1> USE DEF IInv
<1>1. InFlight' = InFlight /\ TypeOK'
  BY DEF TypeOK, Unmount, asked, shown, InFlight
<1>2. BoundInv'
  <2>1. Cardinality(InFlight) \in Nat
    BY FS_CardinalityType DEF BoundInv
  <2> QED
    BY <1>1, <2>1 DEF TypeOK, BoundInv, RefreshesAreBounded, Unmount
<1>3. PendingIsRefreshed' /\ ClickInv'
  BY <1>1 DEF PendingIsRefreshed, ClickInv, Unmount, asked, shown
<1> QED
  BY <1>1, <1>2, <1>3

LEMMA ResolveInvariant ==
  ASSUME IInv, NEW p \in Page, Resolve(p)
  PROVE  IInv'
<1> USE DEF IInv
<1>1. InFlight' = InFlight /\ TypeOK'
  BY DEF TypeOK, Resolve, Status, asked, shown, timers, InFlight
<1>2. BoundInv' /\ PendingIsRefreshed' /\ ClickInv'
  BY <1>1 DEF BoundInv, RefreshesAreBounded, PendingIsRefreshed, Quiet, ClickInv, Resolve, asked, shown, timers
<1> QED
  BY <1>1, <1>2

LEMMA StepInvariant == IInv /\ [Next]_vars => IInv'
<1> SUFFICES ASSUME IInv, [Next]_vars PROVE IInv'
  OBVIOUS
<1> page \in Page
  BY DEF IInv, TypeOK
<1>1. ASSUME NEW l \in Load, Activity(l) \/ ClickRefresh(l) PROVE IInv'
  BY <1>1, AskedInvariant DEF Activity, ClickRefresh
<1>2. ASSUME NEW l \in Load, NEW p \in Page, ClickPage(l, p) PROVE IInv'
  BY <1>2, AskedInvariant DEF ClickPage
<1>3. CASE UNCHANGED vars
  BY <1>3 DEF IInv, TypeOK, BoundInv, RefreshesAreBounded, PendingIsRefreshed, Quiet, ClickInv,
              InFlight, vars, asked, shown, timers
<1> QED
  BY <1>1, <1>2, <1>3, ResolveInvariant, TimerInvariant, ReceiveInvariant, LoadFailsInvariant,
     AnswerInvariant, UnmountInvariant DEF Next, Settle

-----------------------------------------------------------------------------
(* What follows of every behaviour.                                         *)

\* Every variable of the list keeps to its kind.
THEOREM Invariant == Spec => []IInv
  BY InitInvariant, StepInvariant, PTL DEF Spec

\* Overlapping loads do not multiply the refreshing.
THEOREM BoundTheorem == Spec => []RefreshesAreBounded
<1>1. IInv => RefreshesAreBounded
  BY DEF IInv, BoundInv
<1> QED
  BY <1>1, Invariant, PTL

\* A PENDING receipt that is shown is refreshed.
THEOREM PendingTheorem == Spec => []PendingIsRefreshed
<1>1. IInv => PendingIsRefreshed
  BY DEF IInv
<1> QED
  BY <1>1, Invariant, PTL

\* Refreshing does not turn the page back.
THEOREM ClickTheorem == Spec => []ClickedPageIsShown
<1>1. IInv => ClickedPageIsShown
  BY DEF IInv, ClickInv, ClickedPageIsShown
<1> QED
  BY <1>1, Invariant, PTL
=============================================================================
