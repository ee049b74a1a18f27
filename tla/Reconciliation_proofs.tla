----------------------- MODULE Reconciliation_proofs -----------------------
(***************************************************************************)
(* Proofs about Reconciliation for any holdings, any drift tolerance below *)
(* the whole, and any number of orders, outside changes and crashes.       *)
(*                                                                         *)
(* The invariant follows startup's phases: what was read is the venue less *)
(* what is not booked (ReadIsVenue), a report judged clean leaves the cash *)
(* close to what was read and the position equal to it (Judged), and once  *)
(* startup resolves the orders that is BooksAgree, which booking and       *)
(* executing then preserve.                                                *)
(***************************************************************************)
EXTENDS Reconciliation, TLAPS

OrderInOrder == order.booked <= order.done /\ order.done <= order.size

\* A replay that would succeed gives a position that is none below zero.
LogIsLong == ~log.broken => log.qty >= 0

FlowPending == phase \notin {"published", "flowing"} => flow = 0

ReadIsVenue ==
  phase \in {"read", "published", "flowing", "deciding"} /\ known =>
    snap.qty = venue.qty - Unbooked /\ snap.cash = venue.cash + Unbooked

\* Ours exceeds theirs by no more than the tolerance.
Close(ours, theirs) == ours >= theirs /\ 100 * (ours - theirs) <= DriftPct * ours

\* What an explained increase adds to ours.
Gain(ours, theirs) ==
  IF Classified(ours, theirs, FALSE) = "external" THEN theirs - ours ELSE 0

Judged ==
  /\ phase = "published" /\ Clean(verdict) => Close(ledger.cash + flow, snap.cash)
  /\ phase \in {"flowing", "deciding"} /\ Clean(verdict) =>
       ledger.qty = snap.qty /\ Close(ledger.cash, snap.cash)

Inv == /\ TypeOK /\ OrderInOrder /\ LogIsLong /\ FlowPending
       /\ CashFollowsLog /\ FlowsOnce
       /\ ReadIsVenue /\ Judged /\ BooksAgree

USE DEF process, history, counters, Holdings, Sides, Phases, Classes, Signed

(* A percentage of more is more. *)
LEMMA MorePercent ==
  ASSUME NEW a \in Int, NEW b \in Nat
  PROVE  DriftPct * a <= DriftPct * (a + b)
<1>1. DriftPct \in Nat
  BY DriftAssumption
<1>2. DriftPct * (a + b) = DriftPct * a + DriftPct * b
  BY <1>1
<1>3. DriftPct * b >= 0 /\ DriftPct * a \in Int /\ DriftPct * b \in Int
  BY <1>1
<1> QED BY <1>2, <1>3

LEMMA NoPercentBelowZero ==
  ASSUME NEW a \in Nat
  PROVE  DriftPct * a \in Nat
BY DriftAssumption

(* One line of the diff has a class, and a clean one leaves ours close to  *)
(* theirs, once an increase is applied.                                    *)
LEMMA ClassifiedType ==
  ASSUME NEW ours \in Int, NEW theirs \in Int, NEW action \in BOOLEAN
  PROVE  Classified(ours, theirs, action) \in Classes \ {"reset"}
BY DEF Classified

LEMMA CleanIsClose ==
  ASSUME NEW ours \in Int, NEW theirs \in Nat,
         Clean(Classified(ours, theirs, FALSE))
  PROVE  Close(ours + Gain(ours, theirs), theirs)
<1>1. DriftPct * theirs \in Nat
  BY NoPercentBelowZero
<1>2. CASE theirs = ours
  BY <1>1, <1>2 DEF Classified, Close, Gain
<1>3. CASE theirs > ours
  <2>1. Classified(ours, theirs, FALSE) = "external"
    BY <1>3 DEF Classified
  <2>2. ours + (theirs - ours) = theirs
    OBVIOUS
  <2> QED BY <1>1, <2>1, <2>2 DEF Close, Gain
<1>4. CASE theirs < ours
  <2>1. Classified(ours, theirs, FALSE) = "drift"
    BY <1>4 DEF Classified, Clean
  <2>2. 100 * (ours - theirs) <= DriftPct * ours
    BY <1>4, <2>1 DEF Classified
  <2>3. Gain(ours, theirs) = 0
    BY <2>1 DEF Gain
  <2>4. ours + Gain(ours, theirs) = ours
    BY <2>3
  <2> QED BY <1>4, <2>2, <2>4 DEF Close
<1> QED BY <1>2, <1>3, <1>4

(* The report takes its worst line, so a clean report has no other.        *)
LEMMA CleanVerdict ==
  ASSUME TypeOK
  PROVE  /\ Verdict \in Classes
         /\ Clean(Verdict) => Clean(Position) /\ Clean(Cash)
<1> DEFINE lines == {Position, Cash, Phantom}
           Worst(w) == w \in lines /\ \A other \in lines : Severity[other] <= Severity[w]
<1>1. Position \in Classes \ {"reset"} /\ Cash \in Classes \ {"reset"}
      /\ Phantom \in Classes \ {"reset"}
  <2>1. /\ ledger.qty \in Int /\ ledger.cash \in Int /\ ledger.phantom \in Int
        /\ snap.qty \in Int /\ snap.cash \in Int /\ 0 \in Int
        /\ announced \in BOOLEAN /\ FALSE \in BOOLEAN
    BY DEF TypeOK
  <2>2. Position \in Classes \ {"reset"}
    BY <2>1, ClassifiedType DEF Position
  <2>3. Cash \in Classes \ {"reset"}
    BY <2>1, ClassifiedType DEF Cash
  <2>4. Phantom \in Classes \ {"reset"}
    BY <2>1, ClassifiedType DEF Phantom
  <2> QED BY <2>2, <2>3, <2>4
<1>2. \A c \in Classes : Severity[c] \in Nat
  BY DEF Severity
<1>3. \E w \in lines : Worst(w)
  <2>1. PICK p, c, f \in Nat : p = Severity[Position] /\ c = Severity[Cash] /\ f = Severity[Phantom]
    BY <1>1, <1>2
  <2>2. CASE p >= c /\ p >= f
    BY <2>1, <2>2
  <2>3. CASE c >= p /\ c >= f
    BY <2>1, <2>3
  <2>4. CASE f >= p /\ f >= c
    BY <2>1, <2>4
  <2> QED BY <2>1, <2>2, <2>3, <2>4
<1>4. ~VenueReset => Worst(Verdict)
  BY <1>3 DEF Verdict
<1>5. Verdict \in Classes
  BY <1>1, <1>4 DEF Verdict
<1>6. ASSUME Clean(Verdict), NEW line \in {Position, Cash}
      PROVE  Clean(line)
  <2>1. ~VenueReset
    BY <1>6 DEF Verdict, Clean
  <2>2. Severity[line] <= Severity[Verdict]
    BY <1>4, <2>1
  <2>3. Severity[Verdict] <= 2
    BY <1>6 DEF Clean, Severity
  <2>4. line \in Classes
    BY <1>1
  <2>5. \A c \in Classes : Severity[c] <= 2 => Clean(c)
    BY DEF Severity, Clean
  <2>6. Severity[line] \in Nat /\ Severity[Verdict] \in Nat
    BY <1>2, <1>5, <2>4
  <2> QED BY <2>2, <2>3, <2>4, <2>5, <2>6
<1> QED BY <1>5, <1>6
-----------------------------------------------------------------------------
LEMMA InvInit == Init => Inv
<1> SUFFICES ASSUME Init PROVE Inv
  OBVIOUS
<1>1. TypeOK
  <2>1. venue \in Holdings
    BY VenueAssumption DEF Init
  <2>2. order \in [side : Sides, size : Nat, done : Nat, booked : Nat]
    BY DEF Init, NoOrder
  <2>3. log \in [qty : Int, cash : Int, phantom : Int, flows : Int, broken : BOOLEAN]
    BY DEF Init
  <2>4. ledger \in [qty : Nat, cash : Int, phantom : Int] /\ snap \in Holdings
    BY DEF Init, Opening
  <2> QED BY <2>1, <2>2, <2>3, <2>4 DEF Init, TypeOK
<1> QED BY <1>1
    DEF Init, Inv, OrderInOrder, NoOrder, LogIsLong, FlowPending, CashFollowsLog, FlowsOnce,
        ReadIsVenue, Judged, BooksAgree

(* Startup, up to the report. *)
LEMMA ReplayInv ==
  ASSUME Inv, Replay
  PROVE  Inv'
<1>1. ledger' \in [qty : Nat, cash : Int, phantom : Int]
  <2>1. log.qty \in Int /\ log.cash \in Int /\ log.phantom \in Int
    BY DEF Inv, TypeOK
  <2>2. ~log.broken => log.qty \in Nat
    BY <2>1 DEF Inv, LogIsLong
  <2>3. CASE log.broken
    BY <2>3 DEF Replay, Opening
  <2>4. CASE ~log.broken
    BY <2>1, <2>2, <2>4 DEF Replay
  <2> QED BY <2>3, <2>4
<1>2. TypeOK'
  BY <1>1 DEF Inv, TypeOK, Replay
<1>3. OrderInOrder' /\ LogIsLong' /\ FlowPending' /\ FlowsOnce'
  BY DEF Inv, Replay, OrderInOrder, LogIsLong, FlowPending, FlowsOnce
<1>4. CashFollowsLog'
  <2>1. CASE log.broken
    BY <2>1 DEF Replay, CashFollowsLog
  <2>2. CASE ~log.broken
    <3>1. ledger'.cash = log.cash /\ log' = log /\ phase' = "replayed"
      BY <2>2 DEF Replay
    <3>2. log.cash \in Int
      BY DEF Inv, TypeOK
    <3> QED BY <3>1, <3>2 DEF CashFollowsLog
  <2> QED BY <2>1, <2>2
<1>5. ReadIsVenue' /\ Judged' /\ BooksAgree'
  BY DEF Replay, ReadIsVenue, Judged, BooksAgree
<1> QED BY <1>2, <1>3, <1>4, <1>5 DEF Inv

LEMMA ReadInv ==
  ASSUME Inv, Unreachable \/ Read
  PROVE  Inv'
<1>1. TypeOK'
  BY DEF Inv, TypeOK, Unreachable, Read, Unbooked
<1>2. OrderInOrder' /\ LogIsLong' /\ FlowPending' /\ CashFollowsLog' /\ FlowsOnce'
  BY DEF Inv, Unreachable, Read, OrderInOrder, LogIsLong, FlowPending, CashFollowsLog, FlowsOnce
<1>3. ReadIsVenue'
  <2>1. venue.qty \in Int /\ venue.cash \in Int
    BY DEF Inv, TypeOK
  <2>2. CASE Unreachable
    BY <2>2 DEF Unreachable, ReadIsVenue
  <2>3. CASE Read
    <3>1. known' => Unbooked = 0
      BY <2>3 DEF Read
    <3>2. snap' = venue /\ venue' = venue /\ Unbooked' = Unbooked
      BY <2>3 DEF Read, Unbooked
    <3> QED BY <2>1, <3>1, <3>2 DEF ReadIsVenue
  <2> QED BY <2>2, <2>3
<1>4. Judged' /\ BooksAgree'
  BY DEF Inv, Unreachable, Read, Judged, BooksAgree
<1> QED BY <1>1, <1>2, <1>3, <1>4 DEF Inv

LEMMA PublishInv ==
  ASSUME Inv, Publish
  PROVE  Inv'
<1>1. FlowFound = Gain(ledger.cash, snap.cash) /\ FlowFound \in Int
  <2>1. ledger.cash \in Int /\ snap.cash \in Int
    BY DEF Inv, TypeOK
  <2>2. FlowFound = Gain(ledger.cash, snap.cash)
    BY Zenon DEF FlowFound, Gain, Cash
  <2>3. FlowFound \in Int
    BY <2>1 DEF FlowFound
  <2> QED BY <2>2, <2>3
<1>2. Verdict \in Classes
  BY CleanVerdict DEF Inv
<1>3. TypeOK'
  <2>1. log.cash \in Int /\ log.flows \in Int /\ log.phantom \in Int
        /\ snap.qty \in Int /\ ledger.qty \in Int
    BY DEF Inv, TypeOK
  <2>2. log' \in [qty : Int, cash : Int, phantom : Int, flows : Int, broken : BOOLEAN]
    <3> DEFINE gained == IF Position = "external" THEN snap.qty - ledger.qty ELSE 0
    <3>1. /\ log.cash + FlowFound \in Int /\ log.flows + FlowFound \in Int
          /\ log.phantom + gained \in Int
      BY <1>1, <2>1
    <3>2. log' = [log EXCEPT !.cash = @ + FlowFound, !.flows = @ + FlowFound,
                             !.phantom = @ + gained]
      BY DEF Publish
    <3> HIDE DEF gained
    <3>3. log \in [qty : Int, cash : Int, phantom : Int, flows : Int, broken : BOOLEAN]
      BY DEF Inv, TypeOK
    <3> QED BY <3>1, <3>2, <3>3
  <2> QED BY <1>1, <1>2, <2>2 DEF Inv, TypeOK, Publish
<1>4. OrderInOrder' /\ LogIsLong' /\ FlowPending' /\ CashFollowsLog' /\ FlowsOnce'
  BY <1>1
  DEF Inv, TypeOK, Publish, OrderInOrder, LogIsLong, FlowPending, CashFollowsLog, FlowsOnce
<1>5. ReadIsVenue'
  BY DEF Inv, Publish, ReadIsVenue, Unbooked
<1>6. Judged'
  <2>1. ASSUME Clean(Verdict)
        PROVE  Close(ledger.cash + FlowFound, snap.cash)
    <3>1. Clean(Classified(ledger.cash, snap.cash, FALSE))
      BY <2>1, CleanVerdict DEF Inv, Cash
    <3>2. ledger.cash \in Int /\ snap.cash \in Nat
      BY DEF Inv, TypeOK
    <3>3. Close(ledger.cash + Gain(ledger.cash, snap.cash), snap.cash)
      BY <3>1, <3>2, CleanIsClose
    <3> QED BY <3>3, <1>1
  <2>2. verdict' = Verdict /\ flow' = FlowFound /\ phase' = "published"
        /\ UNCHANGED <<ledger, snap>>
    BY DEF Publish
  <2> QED BY <2>1, <2>2 DEF Judged, Close, Clean
<1>7. BooksAgree'
  BY DEF Publish, BooksAgree
<1> QED BY <1>3, <1>4, <1>5, <1>6, <1>7 DEF Inv

LEMMA AdoptInv ==
  ASSUME Inv, Adopt
  PROVE  Inv'
<1>1. /\ Adopted.cash = ledger.cash + flow
      /\ Clean(verdict) => Adopted.qty = snap.qty
      /\ Adopted \in [qty : Nat, cash : Int, phantom : Int]
  <2>1. /\ ledger \in [qty : Nat, cash : Int, phantom : Int]
        /\ snap.qty \in Nat /\ flow \in Int
    BY DEF Inv, TypeOK
  <2>2. ledger.cash + flow \in Int
    BY <2>1
  <2> QED BY <2>1, <2>2 DEF Adopted
<1>2. TypeOK'
  BY <1>1 DEF Inv, TypeOK, Adopt
<1>3. OrderInOrder' /\ LogIsLong' /\ FlowPending' /\ CashFollowsLog' /\ FlowsOnce'
  BY <1>1
  DEF Inv, TypeOK, Adopt, OrderInOrder, LogIsLong, FlowPending, CashFollowsLog, FlowsOnce
<1>4. ReadIsVenue'
  BY DEF Inv, Adopt, ReadIsVenue, Unbooked
<1>5. Judged'
  BY <1>1 DEF Inv, Adopt, Judged, Close, Clean
<1>6. BooksAgree'
  BY DEF Adopt, BooksAgree
<1> QED BY <1>2, <1>3, <1>4, <1>5, <1>6 DEF Inv

LEMMA RecordFlowInv ==
  ASSUME Inv, RecordFlow
  PROVE  Inv'
<1>1. TypeOK'
  BY DEF Inv, TypeOK, RecordFlow, Moved
<1>2. OrderInOrder' /\ LogIsLong' /\ FlowPending' /\ CashFollowsLog' /\ FlowsOnce'
  BY DEF Inv, TypeOK, RecordFlow, Moved, OrderInOrder, LogIsLong, FlowPending, CashFollowsLog,
         FlowsOnce
<1>3. ReadIsVenue' /\ Judged' /\ BooksAgree'
  BY DEF Inv, RecordFlow, ReadIsVenue, Unbooked, Judged, Close, Clean, BooksAgree
<1> QED BY <1>1, <1>2, <1>3 DEF Inv

(* A clean report becomes agreement with the venue. *)
LEMMA DecideInv ==
  ASSUME Inv, Decide
  PROVE  Inv'
<1>1. TypeOK'
  BY DEF Inv, TypeOK, Decide
<1>2. OrderInOrder' /\ LogIsLong' /\ FlowPending' /\ CashFollowsLog' /\ FlowsOnce'
  BY DEF Inv, TypeOK, Decide, OrderInOrder, LogIsLong, FlowPending, CashFollowsLog, FlowsOnce
<1>3. ReadIsVenue' /\ Judged'
  BY DEF Decide, ReadIsVenue, Judged
<1>4. BooksAgree'
  <2> SUFFICES ASSUME Clean(verdict), known
               PROVE  BooksAgree'
    BY DEF Decide, BooksAgree
  <2>1. /\ ledger.qty = snap.qty /\ Close(ledger.cash, snap.cash)
        /\ snap.qty = venue.qty - Unbooked /\ snap.cash = venue.cash + Unbooked
    BY DEF Inv, Judged, ReadIsVenue, Decide
  <2>2. ledger.cash \in Int /\ ledger.qty \in Nat
    BY DEF Inv, TypeOK
  <2>3. DriftPct * ledger.cash <= DriftPct * (ledger.cash + ledger.qty)
    BY <2>2, MorePercent
  <2>4. DriftPct * ledger.cash \in Int /\ DriftPct * (ledger.cash + ledger.qty) \in Int
    BY <2>2, DriftAssumption
  <2>5. /\ ledger.qty = venue.qty - Unbooked
        /\ ledger.cash - (venue.cash + Unbooked) >= 0
        /\ 100 * (ledger.cash - (venue.cash + Unbooked))
             <= DriftPct * (ledger.cash + ledger.qty)
    BY <2>1, <2>2, <2>3, <2>4 DEF Close, Inv, TypeOK
  <2> QED BY <2>5 DEF Decide, BooksAgree, Unbooked
<1> QED BY <1>1, <1>2, <1>3, <1>4 DEF Inv

LEMMA ResolvedInv ==
  ASSUME Inv, Resolved \/ ResolveFails
  PROVE  Inv'
<1>1. TypeOK'
  BY DEF Inv, TypeOK, Resolved, ResolveFails
<1>2. OrderInOrder' /\ LogIsLong' /\ FlowPending' /\ CashFollowsLog' /\ FlowsOnce'
  BY DEF Inv, TypeOK, Resolved, ResolveFails, OrderInOrder, LogIsLong, FlowPending,
         CashFollowsLog, FlowsOnce
<1>3. ReadIsVenue' /\ Judged' /\ BooksAgree'
  BY DEF Inv, Resolved, ResolveFails, ReadIsVenue, Judged, BooksAgree, Unbooked
<1> QED BY <1>1, <1>2, <1>3 DEF Inv
-----------------------------------------------------------------------------
(* An execution enters ledger and log alike, and leaves the wealth as it   *)
(* was.                                                                    *)
LEMMA BookInv ==
  ASSUME Inv, Book
  PROVE  Inv'
<1> DEFINE one == Signed(order.side, 1)
<1>1. /\ order \in [side : Sides, size : Nat, done : Nat, booked : Nat]
      /\ log \in [qty : Int, cash : Int, phantom : Int, flows : Int, broken : BOOLEAN]
      /\ ledger \in [qty : Nat, cash : Int, phantom : Int]
      /\ venue.qty \in Int /\ venue.cash \in Int /\ flow \in Int
  BY DEF Inv, TypeOK
<1>2. one \in {1, -1} /\ (one = -1 => order.side = "sell" /\ ledger.qty >= 1)
  BY <1>1 DEF Book, Covered
<1>3. /\ ledger' = [ledger EXCEPT !.qty = @ + one, !.cash = @ - one]
      /\ log' = [log EXCEPT !.qty = @ + one, !.cash = @ - one,
                            !.broken = @ \/ (order.side = "sell" /\ log.qty < 1)]
      /\ order' = [order EXCEPT !.booked = @ + 1]
  BY DEF Book
<1>4. order.booked < order.done
  BY <1>1 DEF Inv, OrderInOrder, Book, Unbooked
<1>5. Unbooked' = Unbooked - one /\ Unbooked \in Int
  BY <1>1, <1>3 DEF Unbooked
<1>6. order.side = "buy" => one = 1
  OBVIOUS
<1> HIDE DEF one
<1>7. /\ ledger'.qty = ledger.qty + one /\ ledger'.cash = ledger.cash - one
      /\ ledger'.phantom = ledger.phantom
      /\ log'.qty = log.qty + one /\ log'.cash = log.cash - one /\ log'.flows = log.flows
      /\ log'.broken = (log.broken \/ (order.side = "sell" /\ log.qty < 1))
  BY <1>1, <1>3
<1>8. TypeOK'
  <2>1. ledger.qty + one \in Nat /\ ledger.cash - one \in Int
        /\ log.qty + one \in Int /\ log.cash - one \in Int /\ order.booked + 1 \in Nat
    BY <1>1, <1>2
  <2>2. ledger' \in [qty : Nat, cash : Int, phantom : Int]
    BY <1>1, <1>3, <2>1
  <2>3. log' \in [qty : Int, cash : Int, phantom : Int, flows : Int, broken : BOOLEAN]
    BY <1>1, <1>3, <2>1
  <2>4. order' \in [side : Sides, size : Nat, done : Nat, booked : Nat]
    BY <1>1, <1>3, <2>1
  <2> QED BY <2>2, <2>3, <2>4 DEF Inv, TypeOK, Book
<1>9. OrderInOrder'
  BY <1>1, <1>3, <1>4 DEF Inv, OrderInOrder
<1>10. LogIsLong'
  <2> SUFFICES ASSUME ~log'.broken PROVE log'.qty >= 0
    BY DEF LogIsLong
  <2>1. ~log.broken /\ ~(order.side = "sell" /\ log.qty < 1)
    BY <1>7
  <2> QED BY <2>1, <1>1, <1>2, <1>7 DEF Inv, LogIsLong
<1>11. FlowPending' /\ FlowsOnce'
  BY <1>7 DEF Inv, Book, FlowPending, FlowsOnce
<1>12. CashFollowsLog'
  <2> SUFFICES ASSUME ~log'.broken PROVE ledger'.cash = log'.cash
    BY <1>1, <1>2, <1>7 DEF Book, CashFollowsLog
  <2>1. ledger.cash = log.cash
    BY <1>1, <1>7 DEF Inv, Book, CashFollowsLog
  <2> QED BY <2>1, <1>7
<1>13. ReadIsVenue' /\ Judged'
  BY DEF Book, ReadIsVenue, Judged
<1>14. BooksAgree'
  <2> SUFFICES ASSUME known PROVE BooksAgree'
    BY DEF Book, BooksAgree
  <2>1. /\ ledger.qty = venue.qty - Unbooked
        /\ ledger.cash - (venue.cash + Unbooked) >= 0
        /\ 100 * (ledger.cash - (venue.cash + Unbooked))
             <= DriftPct * (ledger.cash + ledger.qty)
    BY DEF Inv, Book, BooksAgree
  <2>2. /\ ledger'.cash + ledger'.qty = ledger.cash + ledger.qty
        /\ ledger'.cash - (venue.cash + Unbooked') = ledger.cash - (venue.cash + Unbooked)
        /\ ledger'.qty = venue.qty - Unbooked'
    BY <1>1, <1>2, <1>5, <1>7, <2>1
  <2>3. venue' = venue
    BY DEF Book
  <2> QED BY <2>1, <2>2, <2>3 DEF BooksAgree
<1> QED BY <1>8, <1>9, <1>10, <1>11, <1>12, <1>13, <1>14 DEF Inv

LEMMA PlaceInv ==
  ASSUME Inv, NEW side \in Sides, NEW size \in 1..MaxSize, Place(side, size)
  PROVE  Inv'
<1>1. size \in Nat
  BY BoundsAssumption
<1>2. Unbooked = 0 /\ Unbooked' = 0
  <2>1. order.done \in Nat /\ order.booked \in Nat /\ order.size \in Nat
    BY DEF Inv, TypeOK
  <2>2. order.booked <= order.done /\ order.done <= order.size /\ order.booked = order.size
    BY DEF Inv, OrderInOrder, Place
  <2>3. order.done - order.booked = 0
    BY <2>1, <2>2
  <2>4. order'.done - order'.booked = 0
    BY DEF Place
  <2> QED BY <2>3, <2>4 DEF Unbooked
<1>3. TypeOK'
  BY <1>1 DEF Inv, TypeOK, Place
<1>4. OrderInOrder' /\ LogIsLong' /\ FlowPending' /\ CashFollowsLog' /\ FlowsOnce'
  BY <1>1 DEF Inv, Place, OrderInOrder, LogIsLong, FlowPending, CashFollowsLog, FlowsOnce
<1>5. ReadIsVenue' /\ Judged'
  BY DEF Place, ReadIsVenue, Judged
<1>6. BooksAgree'
  BY <1>2 DEF Inv, Place, BooksAgree
<1> QED BY <1>3, <1>4, <1>5, <1>6 DEF Inv

(* What the venue executes is what is not booked. *)
LEMMA ExecuteInv ==
  ASSUME Inv, Execute
  PROVE  Inv'
<1> DEFINE one == Signed(order.side, 1)
<1>1. /\ order \in [side : Sides, size : Nat, done : Nat, booked : Nat]
      /\ venue \in Holdings /\ ledger.cash \in Int /\ ledger.qty \in Int
      /\ snap.qty \in Int /\ snap.cash \in Int
  BY DEF Inv, TypeOK
<1>2. one \in {1, -1}
  BY <1>1
<1>3. /\ venue' = [venue EXCEPT !.qty = @ + one, !.cash = @ - one]
      /\ order' = [order EXCEPT !.done = @ + 1]
      /\ venue.qty + one >= 0 /\ venue.cash - one >= 0
  BY DEF Execute
<1>4. Unbooked' = Unbooked + one /\ Unbooked \in Int
  BY <1>1, <1>3 DEF Unbooked
<1> HIDE DEF one
<1>5. venue'.qty = venue.qty + one /\ venue'.cash = venue.cash - one
  BY <1>1, <1>3
<1>6. TypeOK'
  <2>1. venue' \in Holdings
    <3>1. venue.qty + one \in Nat /\ venue.cash - one \in Nat
      BY <1>1, <1>2, <1>3
    <3> QED BY <1>1, <1>3, <3>1
  <2>2. order' \in [side : Sides, size : Nat, done : Nat, booked : Nat]
    BY <1>1, <1>3
  <2> QED BY <2>1, <2>2 DEF Inv, TypeOK, Execute
<1>7. OrderInOrder'
  BY <1>1, <1>3 DEF Inv, OrderInOrder, Execute
<1>8. LogIsLong' /\ FlowPending' /\ CashFollowsLog' /\ FlowsOnce' /\ Judged'
  BY DEF Inv, Execute, LogIsLong, FlowPending, CashFollowsLog, FlowsOnce, Judged, Close, Clean
<1>9. venue'.qty - Unbooked' = venue.qty - Unbooked
      /\ venue'.cash + Unbooked' = venue.cash + Unbooked
  BY <1>1, <1>2, <1>4, <1>5
<1>10. ReadIsVenue' /\ BooksAgree'
  BY <1>9 DEF Inv, Execute, ReadIsVenue, BooksAgree
<1> QED BY <1>6, <1>7, <1>8, <1>10 DEF Inv

(* Once somebody else has moved the funds, nothing is claimed of them.     *)
LEMMA OthersInv ==
  ASSUME Inv,
         \/ \E coins, cash \in {-1, 0, 1} : Outside(coins, cash)
         \/ Split
         \/ Forget
  PROVE  Inv'
<1>1. TypeOK'
  <2>1. venue \in Holdings
    BY DEF Inv, TypeOK
  <2>2. venue' \in Holdings
    <3>1. CASE \E coins, cash \in {-1, 0, 1} : Outside(coins, cash)
      BY <2>1, <3>1 DEF Outside
    <3>2. CASE Split
      <4>1. 2 * venue.qty \in Nat
        BY <2>1
      <4> QED BY <2>1, <3>2, <4>1 DEF Split
    <3>3. CASE Forget
      BY <2>1, <3>3 DEF Forget
    <3> QED BY <3>1, <3>2, <3>3
  <2>3. UNCHANGED <<order, log, adjusted, process, orders, crashes, lost>>
    BY DEF Outside, Split, Forget
  <2>4. announced' \in BOOLEAN
    BY DEF Inv, TypeOK, Outside, Split, Forget
  <2>5. outside' \in Nat
    <3>1. outside' = outside \/ outside' = outside + 1
      BY DEF Outside, Split, Forget
    <3>2. outside \in Nat
      BY DEF Inv, TypeOK
    <3> QED BY <3>1, <3>2
  <2>6. known' \in BOOLEAN /\ settled' \in BOOLEAN
    BY DEF Inv, TypeOK, Outside, Split, Forget
  <2> QED BY <2>2, <2>3, <2>4, <2>5, <2>6 DEF Inv, TypeOK
<1>2. OrderInOrder' /\ LogIsLong' /\ FlowPending' /\ CashFollowsLog' /\ FlowsOnce' /\ Judged'
  BY DEF Inv, Outside, Split, Forget, OrderInOrder, LogIsLong, FlowPending, CashFollowsLog,
         FlowsOnce, Judged, Close, Clean
<1>3. ReadIsVenue' /\ BooksAgree'
  BY DEF Inv, Outside, Split, Forget, ReadIsVenue, BooksAgree, Unbooked
<1> QED BY <1>1, <1>2, <1>3 DEF Inv

LEMMA CrashInv ==
  ASSUME Inv, Crash
  PROVE  Inv'
<1>1. TypeOK'
  BY DEF Inv, TypeOK, Crash, Opening
<1>2. FlowsOnce'
  BY DEF Inv, TypeOK, Crash, FlowsOnce
<1> QED BY <1>1, <1>2
    DEF Inv, Crash, OrderInOrder, LogIsLong, FlowPending, CashFollowsLog, ReadIsVenue, Judged,
        BooksAgree

THEOREM InvStep == Inv /\ [Next]_vars => Inv'
<1> SUFFICES ASSUME Inv, [Next]_vars PROVE Inv'
  OBVIOUS
<1>1. CASE Startup
  BY <1>1, ReplayInv, ReadInv, PublishInv, AdoptInv, RecordFlowInv, DecideInv, ResolvedInv
  DEF Startup
<1>2. CASE Trading
  BY <1>2, BookInv, PlaceInv DEF Trading
<1>3. CASE Venue
  BY <1>3, ExecuteInv, OthersInv DEF Venue
<1>4. CASE Crash
  BY <1>4, CrashInv
<1>5. CASE UNCHANGED vars
  BY <1>5
  DEF vars, Inv, TypeOK, OrderInOrder, LogIsLong, FlowPending, CashFollowsLog, FlowsOnce,
      ReadIsVenue, Judged, BooksAgree, Close, Clean, Unbooked
<1> QED BY <1>1, <1>2, <1>3, <1>4, <1>5 DEF Next

(* The invariant, for any holdings, tolerance and history.                 *)
THEOREM InvHolds == Spec => []Inv
BY InvInit, InvStep, PTL DEF Spec

(* The types: in particular no holding of the venue or of the ledger is    *)
(* ever below zero (ledger._apply_sell refuses).                           *)
THEOREM TypeCorrect == Spec => []TypeOK
<1>1. Inv => TypeOK
  BY DEF Inv
<1> QED BY <1>1, InvHolds, PTL

(* The cash of a running process is what a replay of its log gives         *)
(* (ledger.replay, reconciler.apply_external_flows).                       *)
THEOREM CashIsReplayed == Spec => []CashFollowsLog
<1>1. Inv => CashFollowsLog
  BY DEF Inv
<1> QED BY <1>1, InvHolds, PTL

(* No startup moves the baselines twice by one flow, or by none            *)
(* (startup._reconcile, watchdog.record_flow).                             *)
THEOREM FlowsRecordedOnce == Spec => []FlowsOnce
<1>1. Inv => FlowsOnce
  BY DEF Inv
<1> QED BY <1>1, InvHolds, PTL

(* What a process that came up trades on is the venue's account, to within *)
(* the tolerance, for any tolerance and however often it restarted         *)
(* (reconciler._classify, _adopt).                                         *)
THEOREM BooksAgreeWithVenue == Spec => []BooksAgree
<1>1. Inv => BooksAgree
  BY DEF Inv
<1> QED BY <1>1, InvHolds, PTL
=============================================================================
