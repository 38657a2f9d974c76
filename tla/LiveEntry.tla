----------------------------- MODULE LiveEntry -----------------------------
(***************************************************************************)
(* LiveExecutor.submit_entry (src/bot/execution/live.py): one multi-leg    *)
(* entry.  Every leg runs _place_entry_leg as a task of asyncio.gather; a  *)
(* leg places a post-only maker order, polls it until maker_timeout, then  *)
(* cancels it and sends an IOC order for the whole size.  When the tasks   *)
(* have all returned, the entry succeeds if every LegFill is complete, and *)
(* is rolled back otherwise.                                               *)
(*                                                                         *)
(* Each await is an action boundary: between two steps of a leg the other  *)
(* legs run and the exchange matches orders.  The exchange and the REST    *)
(* transport are external, modelled from how live.py uses them: a call may *)
(* raise before or after the exchange acted (rest.py retries a call up to  *)
(* four times and then raises), a lookup may not find the order, an order  *)
(* may fill between a poll and the cancel.                                 *)
(***************************************************************************)
EXTENDS Integers

CONSTANTS
    NLegs,      \* len(req.legs)
    Lots        \* req.lots

ASSUME EntryAssumption == NLegs \in Nat \ {0} /\ Lots \in Nat \ {0}

VARIABLES
    order,      \* the exchange's two entry orders of each leg
    closed,     \* lots of the leg that reduce-only orders have closed again
    pc,         \* where the leg's task is
    fill,       \* the LegFill the task holds or has returned
    last,       \* `last` of the _wait_for_order in progress
    phase,      \* submit_entry: gathering legs, rolling back, returned
    rb,         \* the leg _rollback looks at next
    success,    \* EntryResult.success
    raised,     \* history: legs with a REST call that raised
    unclosed    \* history: legs whose rollback order closed too little

vars == <<order, closed, pc, fill, last, phase, rb, success, raised, unclosed>>

Legs == 1..NLegs
Kinds == {"maker", "ioc"}

OrderState == {"absent", "open", "filled", "closed", "cancelled"}
Order == [state : OrderState, filled : 0..Lots]

\* What a reply or a lookup shows of an order (_order_to_leg_fill); a post-only
\* order that would cross is reported "cancelled" or "rejected": live.py treats
\* the two alike, the model has one.
LegFill == [coid : {"none", "missing_quote", "error"} \union Kinds,
            state : {"open", "filled", "closed", "cancelled", "rejected"},
            qty : 0..Lots]

NoFill == [coid |-> "none", state |-> "open", qty |-> 0]
Rejected(coid) == [coid |-> coid, state |-> "rejected", qty |-> 0]
Shown(l, k) == [coid |-> k, state |-> order[l][k].state, qty |-> order[l][k].filled]

\* Mutant: any fill at all counts as complete.
IsCompleteAnyFill(f) == f.qty > 0

\* An order whose state is "closed" is over, and never complete: not even when all its
\* lots are filled.
IsComplete(f) == f.state = "filled" /\ f.qty >= Lots
Terminal(f) == f.state \in {"filled", "closed", "cancelled", "rejected"}

\* Lots of the leg's product the account holds because of this entry.
Bought(l) == order[l]["maker"].filled + order[l]["ioc"].filled
Position(l) == Bought(l) - closed[l]

TypeOK ==
    /\ order \in [Legs -> [Kinds -> Order]]
    /\ closed \in [Legs -> Nat]
    /\ pc \in [Legs -> {"place", "maker_reply", "maker_wait", "cancel", "ioc",
                        "ioc_reply", "ioc_wait", "returned"}]
    /\ fill \in [Legs -> LegFill]
    /\ last \in [Legs -> LegFill]
    /\ phase \in {"legs", "rollback", "done"}
    /\ rb \in 1..(NLegs + 1)
    /\ success \in BOOLEAN
    /\ raised \in SUBSET Legs
    /\ unclosed \in SUBSET Legs

Init ==
    /\ order = [l \in Legs |-> [k \in Kinds |-> [state |-> "absent", filled |-> 0]]]
    /\ closed = [l \in Legs |-> 0]
    /\ pc = [l \in Legs |-> "place"]
    /\ fill = [l \in Legs |-> NoFill]
    /\ last = [l \in Legs |-> NoFill]
    /\ phase = "legs"
    /\ rb = 1
    /\ success = FALSE
    /\ raised = {}
    /\ unclosed = {}

-----------------------------------------------------------------------------
(* The task of one leg. *)

Goto(l, where) == pc' = [pc EXCEPT ![l] = where]
Return(l, f) == fill' = [fill EXCEPT ![l] = f] /\ Goto(l, "returned")

\* No quote, instrument or mid price: nothing is sent.
MissingQuote(l) ==
    /\ pc[l] = "place"
    /\ Return(l, Rejected("missing_quote"))
    /\ UNCHANGED <<order, closed, last, phase, rb, success, raised, unclosed>>

\* place_order reaches the exchange with the full size; the reply is awaited.
Accept(l, k) == order' = [order EXCEPT ![l][k] = [state |-> "open", filled |-> 0]]

PlaceMaker(l) ==
    /\ pc[l] = "place"
    /\ Accept(l, "maker")
    /\ Goto(l, "maker_reply")
    /\ UNCHANGED <<closed, fill, last, phase, rb, success, raised, unclosed>>

\* The IOC price is computed from the quote read before the first await, whose
\* mid is not None, so the ioc_price-is-None return is dead code.
PlaceIoc(l) ==
    /\ pc[l] = "ioc"
    /\ Accept(l, "ioc")
    /\ Goto(l, "ioc_reply")
    /\ UNCHANGED <<closed, fill, last, phase, rb, success, raised, unclosed>>

\* The reply to place_order: complete means the task is done, anything else is
\* polled.
Reply(l, k) ==
    /\ pc[l] = IF k = "maker" THEN "maker_reply" ELSE "ioc_reply"
    /\ fill' = [fill EXCEPT ![l] = Shown(l, k)]
    /\ last' = [last EXCEPT ![l] = NoFill]
    /\ Goto(l, IF IsComplete(Shown(l, k)) THEN "returned"
               ELSE IF k = "maker" THEN "maker_wait" ELSE "ioc_wait")
    /\ UNCHANGED <<order, closed, phase, rb, success, raised, unclosed>>

\* _wait_for_order is over with `last`: a maker leg that is not complete goes on
\* to the cancel, an IOC leg returns whatever it saw last.
WaitEnds(l, k, seen) ==
    /\ fill' = [fill EXCEPT ![l] = IF seen = NoFill THEN @ ELSE seen]
    /\ last' = [last EXCEPT ![l] = NoFill]
    /\ Goto(l, IF k = "maker" /\ ~IsComplete(seen) THEN "cancel" ELSE "returned")

Waiting(l, k) == pc[l] = IF k = "maker" THEN "maker_wait" ELSE "ioc_wait"

\* One get_order_by_client_id: not found, still working, or terminal.
Poll(l, k) ==
    /\ Waiting(l, k)
    /\ \/ last' = [last EXCEPT ![l] = NoFill] /\ UNCHANGED <<fill, pc>>
       \/ ~Terminal(Shown(l, k)) /\ last' = [last EXCEPT ![l] = Shown(l, k)] /\ UNCHANGED <<fill, pc>>
       \/ Terminal(Shown(l, k)) /\ WaitEnds(l, k, Shown(l, k))
    /\ UNCHANGED <<order, closed, phase, rb, success, raised, unclosed>>

\* Mutant: the deadline is looked at only once the exchange has listed the order.
TimeoutOnceListed(l, k) ==
    /\ Waiting(l, k)
    /\ last[l] # NoFill
    /\ WaitEnds(l, k, last[l])
    /\ UNCHANGED <<order, closed, phase, rb, success, raised, unclosed>>

Timeout(l, k) ==
    /\ Waiting(l, k)
    /\ WaitEnds(l, k, last[l])
    /\ UNCHANGED <<order, closed, phase, rb, success, raised, unclosed>>

\* cancel_order takes effect on an order that still works and is answered with
\* an error, which _cancel_open_order swallows, on one that does not.
Cancelled(o) == IF o.state = "open" THEN [o EXCEPT !.state = "cancelled"] ELSE o

\* Mutant: a partially filled maker order is not cancelled.
CancelOnlyUnfilled(l) ==
    /\ pc[l] = "cancel"
    /\ order' = [order EXCEPT ![l]["maker"] = IF fill[l].qty = 0 THEN Cancelled(@) ELSE @]
    /\ Goto(l, "ioc")
    /\ UNCHANGED <<closed, fill, last, phase, rb, success, raised, unclosed>>

CancelOpenOrder(l) ==
    /\ pc[l] = "cancel"
    /\ order' = [order EXCEPT ![l]["maker"] = Cancelled(@)]
    /\ Goto(l, "ioc")
    /\ UNCHANGED <<closed, fill, last, phase, rb, success, raised, unclosed>>

\* The cancel never reached the exchange: swallowed as well.
CancelFails(l) ==
    /\ pc[l] = "cancel"
    /\ Goto(l, "ioc")
    /\ raised' = raised \union {l}
    /\ UNCHANGED <<order, closed, fill, last, phase, rb, success, unclosed>>

\* place_order or get_order_by_client_id raises DeltaRestError: before the order
\* is accepted ("place", "ioc"), or with the order working ("_reply", "_wait").
\* gather hands the exception over and submit_entry makes it an "error" LegFill
\* that names neither the symbol nor the order.
LegRaises(l) ==
    /\ pc[l] \notin {"cancel", "returned"}
    /\ Return(l, Rejected("error"))
    /\ last' = [last EXCEPT ![l] = NoFill]
    /\ raised' = raised \union {l}
    /\ UNCHANGED <<order, closed, phase, rb, success, unclosed>>

-----------------------------------------------------------------------------
(* submit_entry after the gather, and _rollback. *)

\* Mutant: one complete leg is enough.
JoinLegsAny ==
    /\ phase = "legs"
    /\ \A l \in Legs : pc[l] = "returned"
    /\ success' = (\E l \in Legs : IsComplete(fill[l]))
    /\ phase' = IF success' THEN "done" ELSE "rollback"
    /\ UNCHANGED <<order, closed, pc, fill, last, rb, raised, unclosed>>

JoinLegs ==
    /\ phase = "legs"
    /\ \A l \in Legs : pc[l] = "returned"
    /\ success' = (\A l \in Legs : IsComplete(fill[l]))
    /\ phase' = IF success' THEN "done" ELSE "rollback"
    /\ UNCHANGED <<order, closed, pc, fill, last, rb, raised, unclosed>>

\* _rollback goes through the fills in order.
RollbackAt(l) ==
    /\ phase = "rollback"
    /\ rb = l
    /\ rb' = rb + 1
    /\ phase' = IF l = NLegs THEN "done" ELSE "rollback"
    /\ UNCHANGED <<pc, fill, last, success>>

\* Mutant: the close is for req.lots and not reduce-only.
RollbackCloseFull(l) ==
    /\ RollbackAt(l)
    /\ fill[l].qty > 0
    /\ closed' = [closed EXCEPT ![l] = @ + Lots]
    /\ UNCHANGED <<order, raised, unclosed>>

\* A reduce-only market order for the reported fill; nobody looks at how much of
\* it the exchange executed.
RollbackClose(l) ==
    /\ RollbackAt(l)
    /\ fill[l].qty > 0
    /\ \E c \in 0..Lots :
        /\ c <= fill[l].qty /\ c <= Position(l)
        /\ closed' = [closed EXCEPT ![l] = @ + c]
        /\ unclosed' = IF c < fill[l].qty THEN unclosed \union {l} ELSE unclosed
    /\ UNCHANGED <<order, raised>>

\* The chain refresh has dropped the instrument, or the close raised.
RollbackCloseFails(l) ==
    /\ RollbackAt(l)
    /\ fill[l].qty > 0
    /\ unclosed' = unclosed \union {l}
    /\ UNCHANGED <<order, closed, raised>>

RollbackCancel(l) ==
    /\ RollbackAt(l)
    /\ fill[l].qty = 0
    /\ fill[l].coid \in Kinds
    /\ \/ order' = [order EXCEPT ![l][fill[l].coid] = Cancelled(@)] /\ UNCHANGED raised
       \/ raised' = raised \union {l} /\ UNCHANGED order
    /\ UNCHANGED <<closed, unclosed>>

\* "error" and "missing_quote" fills: nothing to do.
RollbackSkip(l) ==
    /\ RollbackAt(l)
    /\ fill[l].qty = 0
    /\ fill[l].coid \notin Kinds
    /\ UNCHANGED <<order, closed, raised, unclosed>>

-----------------------------------------------------------------------------
(* The exchange. *)

\* An order that is executed in full is listed as "filled" or as "closed".
FilledAs == {"filled", "closed"}

MakerFills(l) ==
    /\ order[l]["maker"].state = "open"
    /\ \E q \in 1..Lots, s \in FilledAs :
        /\ q > order[l]["maker"].filled
        /\ order' = [order EXCEPT ![l]["maker"] =
                       [state |-> IF q = Lots THEN s ELSE "open", filled |-> q]]
    /\ UNCHANGED <<closed, pc, fill, last, phase, rb, success, raised, unclosed>>

\* A post-only order that would cross the book is killed, a delisted product's too.
MakerKilled(l) ==
    /\ order[l]["maker"].state = "open"
    /\ order' = [order EXCEPT ![l]["maker"].state = "cancelled"]
    /\ UNCHANGED <<closed, pc, fill, last, phase, rb, success, raised, unclosed>>

\* An IOC order is matched once; what is not filled then is cancelled.
IocMatches(l) ==
    /\ order[l]["ioc"].state = "open"
    /\ \E q \in 0..Lots, s \in FilledAs :
        order' = [order EXCEPT ![l]["ioc"] =
                    [state |-> IF q = Lots THEN s ELSE "cancelled", filled |-> q]]
    /\ UNCHANGED <<closed, pc, fill, last, phase, rb, success, raised, unclosed>>

-----------------------------------------------------------------------------

LegStep(l) ==
    \/ MissingQuote(l) \/ PlaceMaker(l) \/ PlaceIoc(l)
    \/ \E k \in Kinds : Reply(l, k) \/ Poll(l, k) \/ Timeout(l, k)
    \/ CancelOpenOrder(l) \/ CancelFails(l) \/ LegRaises(l)

RollbackStep(l) ==
    RollbackClose(l) \/ RollbackCloseFails(l) \/ RollbackCancel(l) \/ RollbackSkip(l)

Exchange(l) == MakerFills(l) \/ MakerKilled(l) \/ IocMatches(l)

Next ==
    \/ \E l \in Legs : LegStep(l) \/ RollbackStep(l) \/ Exchange(l)
    \/ JoinLegs

\* Every await of the program ends: a REST call returns or raises after at most
\* four attempts with a timeout each, _wait_for_order has a deadline.
Fairness ==
    /\ \A l \in Legs :
        /\ WF_vars(PlaceMaker(l) \/ MissingQuote(l))
        /\ WF_vars(PlaceIoc(l))
        /\ \A k \in Kinds : WF_vars(Reply(l, k)) /\ WF_vars(Timeout(l, k))
        /\ WF_vars(CancelOpenOrder(l))
        /\ WF_vars(RollbackStep(l))
    /\ WF_vars(JoinLegs)

Spec == Init /\ [][Next]_vars
FairSpec == Spec /\ Fairness

-----------------------------------------------------------------------------
(* Properties. *)

Done == phase = "done"

\* An entry reported successful holds at least the requested lots in every leg,
\* whatever the polls saw and whenever the fills arrived: submit_entry never
\* reports an under-hedged position as complete.
SuccessIsFilled == success => \A l \in Legs : Position(l) >= Lots

\* The maker order and the IOC order of a leg are each for the full size and
\* there are never more than these two; the reduce-only closes of _rollback never
\* turn the position around.
ExposureBound == \A l \in Legs : 0 <= Position(l) /\ Position(l) <= 2 * Lots

\* When submit_entry has returned, a leg none of whose REST calls raised has no
\* order left working: the maker order was cancelled before the IOC order, the
\* IOC order is over or was cancelled by _rollback.
NoOrderLeftWorking ==
    Done => \A l \in Legs \ raised : \A k \in Kinds : order[l][k].state # "open"

\* live.py:8-10 and router.py:9-10 say that a failed entry closes the legs that have
\* filled: when no call raised, the close executed in full and the last order was
\* reported as over, the account holds nothing of the entry.
FailedEntryIsFlat ==
    Done /\ ~success =>
        \A l \in Legs \ (raised \union unclosed) : fill[l].state # "open" => Position(l) = 0

\* How far the code is from that: what such a leg still holds is exactly what its maker
\* order had filled when the IOC order, of the full size again, replaced it in the
\* LegFill that _rollback reads.
ResidueIsMakerFill ==
    Done /\ ~success =>
        \A l \in Legs \ (raised \union unclosed) :
            fill[l].state # "open" =>
                Position(l) = IF fill[l].coid = "ioc" THEN order[l]["maker"].filled ELSE 0

\* The holdings and the outcome as the caller sees them.
Holding == [l \in Legs |-> Position(l)]
Outcome == IF ~Done THEN "pending" ELSE IF success THEN "success" ELSE "failed"
Contract == INSTANCE EntryContract WITH held <- Holding, outcome <- Outcome

\* LiveExecutor.submit_entry is an ExecutionRouter.submit_entry: an entry is reported
\* filled only when it is, and nothing but a fill of an order left working moves the
\* holdings after the call has returned.
ImplementsContract == Contract!Spec

\* submit_entry returns: no leg is polled for ever and no rollback waits.
Returns == <>Done
=============================================================================
