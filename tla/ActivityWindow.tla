--------------------------- MODULE ActivityWindow ---------------------------
(***************************************************************************)
(* The activity chart of one project: `getProjectActivity` of              *)
(* ecosystem.controller.ts.  The endpoint probes every chain of events of  *)
(* the project (a package address with one of its modules) with a bounded  *)
(* pool of workers, reads each newest first, page by page, until there is  *)
(* no older page, an answer without data, a page cap or a failed request,  *)
(* drops the days that the last two may have cut, and shows the others on  *)
(* a curve anchored at the snapshot's lifetime count.                      *)
(*                                                                         *)
(* The network goes on emitting events, the indexer prunes the oldest ones *)
(* of a chain, and days go by, while the pages are read.  An event is its  *)
(* day; a chain is the sequence of its events since genesis, oldest first. *)
(* Event types and senders are left out (they are counted over the same    *)
(* visible events), and so is the TVL history, a relay of another          *)
(* service's answer.                                                       *)
(***************************************************************************)
EXTENDS Naturals, Sequences, FiniteSets, FiniteSetsExt

CONSTANTS
    MaxChains,      \* most chains a project has
    MaxProbed,      \* chains the endpoint probes (MAX_PROBED_ADDRESSES, _MODULES)
    Workers,        \* chains read at a time (CHAIN_CONCURRENCY)
    PageSize,       \* events of a page (EVENTS_PAGE_SIZE)
    MaxPages,       \* pages read of a chain (MAX_EVENT_PAGES)
    MaxDay,         \* bound: the last day
    MaxLength,      \* bound: events of a chain
    MaxEvents       \* bound: events of all chains

ASSUME ActivityAssumption ==
    /\ {MaxChains, MaxProbed, Workers, PageSize, MaxPages, MaxDay} \subseteq Nat \ {0}
    /\ MaxLength \in Nat /\ MaxEvents \in Nat

VARIABLES
    chain,          \* the events of each chain on the network, as their days
    floor,          \* events of each chain to be read, up to this one, are pruned
    today,
    lifetime,       \* the count of events in the snapshot the request found
    fetch           \* each chain's read: pages, the oldest position read, and
                    \* the newest there was when its first request ended

chartVars == <<chain, floor, today, lifetime, fetch>>

Days == 1..MaxDay
Histories == {h \in UNION {[1..n -> Days] : n \in 0..MaxLength} :
                 \A i, j \in DOMAIN h : i <= j => h[i] <= h[j]}
Fetches == [status : {"waiting", "reading", "start", "blank", "cut"},
            pages : 0..MaxPages, low : 1..(MaxLength + 1), top : 0..MaxLength]

All == DOMAIN chain
Probed == {c \in All : c <= MaxProbed}
ScopeComplete == Probed = All
Length(c) == Len(chain[c])
Events(S) == {e \in S \X (1..MaxLength) : e[2] <= Length(e[1])}
DayOf(e) == chain[e[1]][e[2]]

\* What the indexer still holds of a chain.
Held(c) == {e \in Events({c}) : e[2] > floor[c]}

\* The snapshot was taken earlier: its count, which goes back to genesis, is at
\* most the events there are, the pruned ones among them.
ChartInit ==
    /\ \E n \in 1..MaxChains : chain \in [1..n -> Histories]
    /\ Cardinality(Events(All)) <= MaxEvents
    /\ floor \in [Probed -> 0..MaxLength] /\ \A c \in Probed : floor[c] <= Length(c)
    /\ today = Max({1} \cup {DayOf(e) : e \in Events(All)})
    /\ lifetime \in 0..Cardinality(Events(All))
    /\ fetch = [c \in Probed |->
                   [status |-> "waiting", pages |-> 0, low |-> 1, top |-> 0]]

\* The network ---------------------------------------------------------------

Emit(c) ==
    /\ Length(c) < MaxLength /\ Cardinality(Events(All)) < MaxEvents
    /\ chain' = [chain EXCEPT ![c] = Append(@, today)]
    /\ UNCHANGED <<floor, today, lifetime, fetch>>

Prune(c) ==
    /\ floor[c] < Length(c)
    /\ floor' = [floor EXCEPT ![c] = @ + 1]
    /\ UNCHANGED <<chain, today, lifetime, fetch>>

NextDay ==
    /\ today < MaxDay
    /\ today' = today + 1
    /\ UNCHANGED <<chain, floor, lifetime, fetch>>

\* The workers ---------------------------------------------------------------

Reading == {c \in Probed : fetch[c].status = "reading"}
Done(c) == fetch[c].status \in {"start", "blank", "cut"}

\* Defect: every chain is read at once (ChartTypeOK).
TakeChainUnlimited(c) ==
    /\ fetch[c].status = "waiting"
    /\ fetch' = [fetch EXCEPT ![c].status = "reading"]
    /\ UNCHANGED <<chain, floor, today, lifetime>>

\* `next++`: the chains are taken in order, by a worker that is free.
TakeChain(c) ==
    /\ fetch[c].status = "waiting"
    /\ \A b \in Probed : b < c => fetch[b].status # "waiting"
    /\ Cardinality(Reading) < Workers
    /\ fetch' = [fetch EXCEPT ![c].status = "reading"]
    /\ UNCHANGED <<chain, floor, today, lifetime>>

\* One page: the events before the last page's first one, at most PageSize, that
\* the indexer still holds.  No older page is left (`hasPreviousPage`) once the
\* oldest event held is read, whether or not it is the chain's first.
Page(c) ==
    LET f == fetch[c]
        oldest == floor[c] + 1
        top == IF f.pages = 0 THEN Length(c) ELSE f.top
        before == IF f.pages = 0 THEN top + 1 ELSE f.low
        low == CASE before <= oldest -> before
                 [] before > oldest + PageSize -> before - PageSize
                 [] OTHER -> oldest
        status == CASE low <= oldest -> "start"
                    [] low > oldest /\ f.pages + 1 = MaxPages -> "cut"
                    [] OTHER -> "reading"
    IN  /\ f.status = "reading"
        /\ fetch' = [fetch EXCEPT ![c] =
                        [status |-> status, pages |-> f.pages + 1,
                         low |-> low, top |-> top]]
        /\ UNCHANGED <<chain, floor, today, lifetime>>

\* The read of a chain ends without a page; what it had read is kept.
NoPage(c, status) ==
    /\ fetch[c].status = "reading"
    /\ fetch' = [fetch EXCEPT
                    ![c].status = status,
                    ![c].top = IF fetch[c].pages = 0 THEN Length(c) ELSE @]
    /\ UNCHANGED <<chain, floor, today, lifetime>>

\* An answer with errors, or none that can be read, marks the chain truncated.
PageFails(c) == NoPage(c, "cut")

\* An answer with neither errors nor data has no `pageInfo`, hence no older page:
\* the chain ends here as one that was read to its start does.
PageBlank(c) == NoPage(c, "blank")

\* The chart -----------------------------------------------------------------

Answered == \A c \in Probed : Done(c)
Truncated == {c \in Probed : fetch[c].status = "cut"}
Got(c) == {e \in Events({c}) : /\ fetch[c].pages > 0
                               /\ e[2] \in fetch[c].low .. fetch[c].top}
Fetched == UNION {Got(c) : c \in Probed}

\* The oldest day read of a chain, 0 (the empty string) when nothing was.
OldestDay(c) == IF Got(c) = {} THEN 0 ELSE Min({DayOf(e) : e \in Got(c)})

\* Defect: the oldest of the partial days, not the newest (ChartHonest).
PartialDayOldest == LET days == {OldestDay(c) : c \in Truncated}
                    IN  IF days = {} THEN 0 ELSE Min(days)
PartialDay == Max({0} \cup {OldestDay(c) : c \in Truncated})

Kept == {e \in Fetched : DayOf(e) > PartialDay}
Visible == IF Kept # {} THEN Kept ELSE Fetched
ShownDays == {DayOf(e) : e \in Visible}
OnDay(S, d) == Cardinality({e \in S : DayOf(e) = d})
UpTo(S, d) == Cardinality({e \in S : DayOf(e) <= d})

Anchor == IF ScopeComplete THEN lifetime ELSE Cardinality(Fetched)
EarlierEvents == LET shown == Cardinality(Visible)
          IN  IF Anchor > shown THEN Anchor - shown ELSE 0
Curve(d) == EarlierEvents + UpTo(Visible, d)

ChartNext ==
    \/ NextDay
    \/ \E c \in All : Emit(c)
    \/ \E c \in Probed : Prune(c) \/ TakeChain(c) \/ Page(c) \/ PageFails(c) \/ PageBlank(c)

ChartSpec == ChartInit /\ [][ChartNext]_chartVars

-----------------------------------------------------------------------------

\* The state has its type: no more chains are read at a time than there are
\* workers (`runLimited`), and a chain is read from its newest event down.
ChartTypeOK ==
    /\ DOMAIN chain \in {1..n : n \in 1..MaxChains}
    /\ \A c \in All : chain[c] \in Histories
    /\ floor \in [Probed -> 0..MaxLength] /\ \A c \in Probed : floor[c] <= Length(c)
    /\ today \in Days
    /\ lifetime \in 0..Cardinality(Events(All))
    /\ fetch \in [Probed -> Fetches]
    /\ Cardinality(Reading) <= Workers

\* The events of the probed chains when each one's first request ended, those
\* the indexer had pruned among them.
Real == {e \in Events(Probed) : e[2] <= fetch[e[1]].top}

\* The window is all the endpoint fetched, less the days dropped.
Windowed == Answered /\ (PartialDay = 0 \/ Kept # {})

\* The chains that were read to the oldest event held, or whose cut is recorded.
Answering == {c \in Probed : \/ fetch[c].status = "start"
                             \/ fetch[c].status = "cut" /\ Got(c) # {}}

\* The newest day of which the indexer has pruned an event.
EdgeDay == Max({0} \cup {DayOf(e) : e \in Events(Probed) \ UNION {Held(c) : c \in Probed}})

\* A day of the chart counts every event of the day: the days that a page cap or
\* a failed request may have cut are dropped ("so every shown day is complete").
ShownDayComplete ==
    Windowed => \A d \in ShownDays : OnDay(Visible, d) = OnDay(Real, d)

\* What the endpoint achieves of it.  A day of the chart has every event of the
\* day that the indexer holds, of each chain that is not missing altogether and
\* that no answer without data ended; such a day can lack events only where the
\* indexer has pruned some.  And if all chains are probed and none is so lost,
\* the curve, from the newest day with a pruned event on, is the count of events
\* since genesis, except that it may lack those emitted since the snapshot: it
\* never claims an event too many.
ChartHonest ==
    Windowed => \A d \in ShownDays :
        /\ \A c \in Answering : \A e \in Real \cap Held(c) : DayOf(e) = d => e \in Visible
        /\ ScopeComplete /\ Answering = Probed /\ EdgeDay <= d =>
               /\ Curve(d) <= UpTo(Real, d)
               /\ Curve(d) + (Cardinality(Real) - lifetime) >= UpTo(Real, d)
        /\ Answering = Probed /\ EdgeDay < d => OnDay(Visible, d) = OnDay(Real, d)
=============================================================================
