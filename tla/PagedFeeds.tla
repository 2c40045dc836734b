---------------------------- MODULE PagedFeeds ----------------------------
(***************************************************************************)
(* A filtered, paged and live feed of the web client: the accepted         *)
(* attacks, the checker runs or the scheduler events (refreshPagedFeed and *)
(* the stream handlers of use-organizer-dashboard.ts, use-control-center,  *)
(* lib/dashboard-utils.ts, the cards that drive them).                     *)
(*                                                                         *)
(* The filter form decides whether the feed is live.  Requests carry the   *)
(* filter of the click; a game action refreshes a feed silently with the   *)
(* filter that was in the form when the action began.  Rows are numbered   *)
(* in the order they are recorded, the newest first on a page.             *)
(***************************************************************************)
EXTENDS Integers, Sequences, FiniteSets

CONSTANTS StreamLimit,  \* rows in a frame of the stream (12)
          Limits,       \* page sizes a feed can be opened with
          MaxHighlights, \* rows marked as new at once (4)
          MaxRows,      \* bound on the rows recorded
          MaxFetches,  \* bound on the requests sent
          MaxEdits      \* bound on the edits of the form

ASSUME FeedAssumption ==
    /\ StreamLimit \in Nat \ {0} /\ MaxHighlights \in Nat
    /\ Limits \subseteq Nat \ {0} /\ Limits # {}
    /\ \A l \in Limits : l >= StreamLimit      \* 12 or 1000 rows for frames of 12, 18 for 18
    /\ MaxRows \in Nat \ {0} /\ MaxFetches \in Nat /\ MaxEdits \in Nat

VARIABLES feed,       \* whose and which feed this is, and the page size it was opened with
          entries,    \* rows recorded by game-core
          published,  \* rows in the gateway's last frame
          queue,      \* frames under way
          form,       \* the filter in the form
          page,       \* the page shown
          reqs,       \* requests in flight
          pending,    \* pendingAction is set
          marked,     \* highlightedAttackIDs
          left,       \* what is left of the bounds
          hist        \* what the properties remember

feedVars == <<feed, entries, published, queue, form, page, reqs, pending, marked, left, hist>>

-----------------------------------------------------------------------------
(* Filters, queries and pages.                                             *)

\* The organizer has the three feeds, a participant the attacks.
Feeds ==
    {f \in [viewer : {"organizer", "participant"}, name : {"attacks", "runs", "events"},
            limit : Limits] : f.viewer = "participant" => f.name = "attacks"}
Teams == {"", "x"}                      \* no filter, or one that selects some rows

DefaultFilters == [team |-> "", offset |-> 0]
Filters == [team : Teams, offset : {n * feed.limit : n \in 0..MaxFetches}]

LiveMode == form = DefaultFilters
FiltersApplied == form.team # "" \/ form.offset > 0

Least(a, b) == IF a < b THEN a ELSE b
Ids(seq) == {seq[i] : i \in 1..Len(seq)}
First(seq, n) == SubSeq(seq, 1, Least(n, Len(seq)))     \* slice(0, n)

\* The rows a filter selects, newest first (a team's rows are the odd ones), and
\* the slice the query asks for.
Selected(f, n) ==
    IF f.team = "" THEN [i \in 1..n |-> n + 1 - i]
    ELSE LET odd == (n + 1) \div 2
         IN [i \in 1..odd |-> 2 * (odd - i) + 1]

Query(f, n) ==
    LET all == Selected(f, n)
    IN [filter |-> f, asOf |-> n, total |-> Len(all),
        items |-> SubSeq(all, f.offset + 1, Least(f.offset + feed.limit, Len(all)))]

\* The frame of the stream: the head of the unfiltered feed.
Frame(n) ==
    [filter |-> DefaultFilters, asOf |-> n, total |-> n,
     items |-> First(Selected(DefaultFilters, n), StreamLimit)]

HasPrev == page.filter.offset > 0
HasNext == page.total > page.filter.offset + Len(page.items)

\* computePageOffset
PageOffset(f, direction) ==
    [f EXCEPT !.offset = IF direction = "next" THEN @ + feed.limit
                         ELSE IF @ < feed.limit THEN 0 ELSE @ - feed.limit]

-----------------------------------------------------------------------------
(* mergeRealtimeAttackPage: a page larger than a frame keeps the rows it    *)
(* had behind the streamed ones.                                           *)

\* The loop over the rows that skips the seen ones: the rows of seq that are not
\* in the set seen, in their order.
Unseen(seq, seen) == {i \in 1..Len(seq) : seq[i] \notin seen}
Nth(P, k) == CHOOSE p \in P : Cardinality({q \in P : q <= p}) = k
Without(seq, seen) ==
    LET P == Unseen(seq, seen)
    IN [k \in 1..Cardinality(P) |-> seq[Nth(P, k)]]

MergedWithoutCheck(items, streamed, n) ==      \* mutant: rows already streamed are kept too
    First(streamed \o items, n)
MergedItems(items, streamed, n) ==
    First(streamed \o Without(items, Ids(streamed)), n)

Merge(current, streamed) ==
    IF feed.limit <= StreamLimit THEN streamed
    ELSE [streamed EXCEPT !.items = MergedItems(current.items, streamed.items, feed.limit)]

\* collectNewAttackIDs: the first few rows that were not on the page.
NewAttackIDs(current, next) ==
    Ids(First(Without(next.items, Ids(current.items)), MaxHighlights))

-----------------------------------------------------------------------------
(* Requests.                                                               *)

Slots == {1, 2}
NoFetch == [kind |-> "none", filter |-> DefaultFilters, asOf |-> -1, edited |-> FALSE]
InFlight == {s \in Slots : reqs[s].kind # "none"}

Fetch(s, kind, f) ==
    /\ left.requests > 0
    /\ s \notin InFlight /\ \A t \in Slots : t < s => t \in InFlight
    /\ reqs' = [reqs EXCEPT ![s] = [NoFetch EXCEPT !.kind = kind, !.filter = f]]
    /\ pending' = TRUE
    /\ left' = [left EXCEPT !.requests = @ - 1]
    /\ UNCHANGED <<feed, entries, published, page, marked>>

\* The participant's stream is opened anew whenever its live mode changes, and the
\* gateway starts with its last snapshot; the organizer's stream stays open.
Restream ==
    queue' = IF feed.viewer = "participant" /\ LiveMode' # LiveMode
             THEN <<published>> ELSE queue

\* A filter field or a tick preset: nothing is fetched.
EditForm ==
    /\ left.edits > 0
    /\ \E team \in Teams : form.team # team /\ form' = [form EXCEPT !.team = team]
    /\ left' = [left EXCEPT !.edits = @ - 1]
    /\ reqs' = [s \in Slots |-> [reqs[s] EXCEPT !.edited = TRUE]]
    /\ hist' = [hist EXCEPT !.dirty = TRUE]
    /\ Restream
    /\ UNCHANGED <<feed, entries, published, page, pending, marked>>

\* Changes of the form by a button, with the request that follows.
FetchForm(s, f) ==
    /\ form' = f
    /\ Fetch(s, "own", f)
    /\ Restream
    /\ hist' = [hist EXCEPT !.dirty = TRUE, !.disturbed = @ \/ InFlight # {}]

ApplyFilters(s) == ~pending /\ FetchForm(s, [form EXCEPT !.offset = 0])

ResetFilters(s) == ~pending /\ FetchForm(s, DefaultFilters)

PageFeed(s) ==
    /\ ~pending
    /\ \E direction \in {"prev", "next"} :
         /\ IF direction = "prev" THEN HasPrev ELSE HasNext
         /\ FetchForm(s, PageOffset(form, direction))

\* The card's Refresh button asks for whatever is in the form.
RefreshFeed(s) == ~pending /\ FetchForm(s, form)

\* The Reset view button of an empty attack page is not disabled while pending.
ResetEmptyView(s) ==
    /\ feed.name = "attacks"
    /\ page.items = <<>>
    /\ FiltersApplied
    /\ FetchForm(s, DefaultFilters)

\* A game action that will refresh this feed with the form it was started from.
StartGameAction(s) ==
    /\ ~pending
    /\ feed.name # "attacks"
    /\ form' = form
    /\ Fetch(s, "silent", form)
    /\ queue' = queue
    /\ hist' = hist

\* An interval update that overlapped the game action clears its pendingAction.
OverlappedActionEnds ==
    /\ pending
    /\ \E s \in InFlight : reqs[s].kind = "silent"
    /\ pending' = FALSE
    /\ hist' = [hist EXCEPT !.disturbed = TRUE]
    /\ UNCHANGED <<feed, entries, published, queue, form, page, reqs, marked, left>>

\* The request is answered from the rows recorded so far.
Serve(s) ==
    /\ reqs[s].kind # "none" /\ reqs[s].asOf = -1
    /\ reqs' = [reqs EXCEPT ![s].asOf = entries]
    /\ hist' = [hist EXCEPT !.missed = @ /\ ~(reqs[s].filter = DefaultFilters /\ queue = <<>>)]
    /\ UNCHANGED <<feed, entries, published, queue, form, page, pending, marked, left>>

\* beforeSet: a page that is replaced loses its highlights.
MarkedAfterRefresh == {}

\* refreshPagedFeed: the answer replaces the page, an error leaves it.
FetchAnswers(s) ==
    /\ reqs[s].kind # "none"
    /\ \/ /\ reqs[s].asOf >= 0
          /\ page' = Query(reqs[s].filter, reqs[s].asOf)
          /\ marked' = IF feed.name = "attacks" THEN MarkedAfterRefresh ELSE marked
          /\ hist' = [hist EXCEPT !.missed = @ \/ reqs[s].asOf < page.asOf,
                                  !.mixed = FALSE,
                                  !.dirty = IF reqs[s].kind = "own" THEN reqs[s].edited ELSE @]
       \/ UNCHANGED <<page, marked>> /\ hist' = [hist EXCEPT !.missed = TRUE]
    /\ reqs' = [reqs EXCEPT ![s] = NoFetch]
    /\ pending' = FALSE
    /\ UNCHANGED <<feed, entries, published, queue, form, left>>

-----------------------------------------------------------------------------
(* The stream and the highlights.                                         *)

Record ==
    /\ left.rows > 0
    /\ left' = [left EXCEPT !.rows = @ - 1]
    /\ entries' = entries + 1
    /\ UNCHANGED <<feed, published, queue, form, page, reqs, pending, marked, hist>>

GatewayPublishes ==
    /\ published # entries
    /\ published' = entries
    /\ queue' = Append(queue, entries)
    /\ UNCHANGED <<feed, entries, form, page, reqs, pending, marked, left, hist>>

TakesEveryFrame == TRUE                        \* mutant: also over a filtered page
TakesFrame == LiveMode

\* handleRealtimeAttackMessage, and the plainer handlers of the other feeds.
FrameArrives ==
    /\ queue # <<>>
    /\ queue' = Tail(queue)
    /\ LET streamed == Frame(Head(queue))
           merged   == IF feed.name = "attacks" THEN Merge(page, streamed) ELSE streamed
           new      == IF feed.name = "attacks" THEN NewAttackIDs(page, merged) ELSE {}
       IN IF TakesFrame
          THEN /\ page' = merged
               /\ marked' = IF new # {} THEN new ELSE marked
               /\ hist' = [hist EXCEPT !.missed = @ \/ streamed.asOf < page.asOf,
                                       !.mixed = @ \/ streamed.asOf < page.asOf]
          ELSE /\ hist' = [hist EXCEPT !.missed = @ \/ (feed.viewer = "organizer" /\ ~LiveMode)]
               /\ UNCHANGED <<page, marked>>
    /\ UNCHANGED <<feed, entries, published, form, reqs, pending, left>>

HighlightsEnd ==
    /\ marked # {}
    /\ marked' = {}
    /\ UNCHANGED <<feed, entries, published, queue, form, page, reqs, pending, left, hist>>

-----------------------------------------------------------------------------
\* The page comes with the first rows of the feed; the stream is connected.
FeedStart(open) ==
    /\ feed \in IF open THEN Feeds ELSE {CHOOSE f \in Feeds : TRUE}
    /\ entries \in IF open THEN 0..1 ELSE {0}
    /\ published = entries
    /\ queue = <<>>
    /\ form = DefaultFilters
    /\ page = Query(DefaultFilters, entries)
    /\ reqs = [s \in Slots |-> NoFetch]
    /\ pending = FALSE
    /\ marked = {}
    /\ left = IF open THEN [requests |-> MaxFetches, edits |-> MaxEdits, rows |-> MaxRows - entries]
              ELSE [requests |-> 0, edits |-> 0, rows |-> 0]
    /\ hist = [dirty |-> FALSE, disturbed |-> FALSE, missed |-> FALSE,
               mixed |-> FALSE]

FeedNext ==
    \/ EditForm
    \/ \E s \in Slots :
         \/ ApplyFilters(s) \/ ResetFilters(s) \/ PageFeed(s) \/ RefreshFeed(s)
         \/ ResetEmptyView(s) \/ StartGameAction(s)
         \/ Serve(s) \/ FetchAnswers(s)
    \/ OverlappedActionEnds
    \/ Record \/ GatewayPublishes \/ FrameArrives
    \/ HighlightsEnd

-----------------------------------------------------------------------------
(* Properties.                                                             *)

\* The variables hold values of their kinds, and a frame only tells of rows
\* that were recorded (the page types of lib/admin-dashboard-types.ts).
FeedTypeOK ==
    /\ feed \in Feeds
    /\ entries \in 0..MaxRows /\ published \in 0..entries
    /\ form \in Filters
    /\ page.filter \in Filters /\ page.asOf \in 0..entries
    /\ \A i \in 1..Len(queue) : queue[i] \in 0..entries
    /\ \A s \in Slots : reqs[s].kind \in {"none", "own", "silent"} /\ reqs[s].asOf \in -1..entries
    /\ pending \in BOOLEAN

\* The page on the screen belongs to the filters in the form: once the last
\* button's answer has arrived and the form was not touched since, neither a
\* silent refresh of a game action nor a frame of the stream replaces it by
\* another view, as long as requests do not overlap.
PageFollowsForm ==
    (InFlight = {} /\ ~hist.dirty /\ ~hist.disturbed) => page.filter = form

\* Only rows that are on the page are highlighted, whatever replaced the page
\* since the frame that brought them (clearAttackHighlights, collectNewAttackIDs).
HighlightsAreShown == marked \subseteq Ids(page.items)

\* A page built from frames and kept rows has only rows that were recorded, none
\* twice and never more than its size; unless an older snapshot overtook a newer
\* one, its rows are in order (mergeRealtimeAttackPage).
MergedPageIsSound ==
    /\ Ids(page.items) \subseteq 1..entries
    /\ Len(page.items) <= feed.limit
    /\ \A i, j \in 1..Len(page.items) : i < j => page.items[i] # page.items[j]
    /\ ~hist.mixed => \A i, j \in 1..Len(page.items) : i < j => page.items[i] > page.items[j]

\* A live page at rest shows the newest row, unless a request failed, an answer
\* overtook a frame or, on the organizer's stream that is not opened anew, a frame
\* came while the form held a filter.
LivePageIsCurrent ==
    (/\ LiveMode /\ page.filter = form /\ InFlight = {}
     /\ queue = <<>> /\ published = entries /\ ~hist.missed)
    => page.asOf = entries

\* The rows of the page are sound, and the highlights on them.
PageIsSound == MergedPageIsSound /\ HighlightsAreShown

\* The page is the one the form asks for and, when it is live, as new as the feed.
PageIsCurrent == PageFollowsForm /\ LivePageIsCurrent
=============================================================================
